# Restaurant Ops Copilot in TLA+

A verification project for the restaurant operations copilot: TLA+ modules of
the parts that decide and write, and of those that an administrator runs; TLC
runs on small instances; and TLAPS proofs, for every value of the constants, of
every safety property and refinement that a passing run checks. Source paths are relative to the repository, line numbers are in `PROJECT.json` (`map`).

## The system and its parts

The program watches a restaurant's data (prices, suppliers, menu, staffing),
proposes actions, and carries them out under gates. Everything is per tenant;
the only shared medium is PostgreSQL, plus one SQS FIFO queue.

| Part | State it keeps | Operations | Talks to |
|---|---|---|---|
| event store (`Component_1/event_store.py`) | `events` with a hash chain; projection tables | append, verify, reconstruct | everyone who writes or replays |
| simulator, decision engine (`Component_2`) | `decisions` | propose and simulate; execute and observe | tool framework |
| detection and reasoning (`Component_3`) | none | detect, reason (rules or language model), validate, merge | orchestrator |
| tool framework (`Component_4/tool_framework.py`) | `tool_execution_log`, advisory locks | three entry points, see below | all of Components 1, 2, 4, 6 |
| idempotency store (`Component_4/idempotency.py`) | `idempotency_keys` | claim, complete, fail | tool framework |
| critic, risk classifier (`Component_4/critic.py`, `Component_6/risk_classifier.py`) | none | pure gates | tool framework, orchestrator |
| approval workflow (`Component_6/approval_workflow.py`) | `approval_requests` | request, resolve | tool framework, orchestrator |
| orchestrator (`orchestrator.py`) | the cycle lock | `run_cycle`, `resolve_approval` | Components 1 to 6 |
| API (`api/main.py`) | `work_requests` | submit, cycle, reads | queue, orchestrator |
| queue and worker (`shared/queue.py`, `worker/`, `terraform/sqs.tf`) | messages, visibility, receive counts | receive, process, delete, redrive | tool framework |
| database sessions (`Component_1/db.py`) | a connection pool per process; per connection the tenant setting and advisory locks | get_db_context, the guard, the cycle lock | everyone |
| API keys (`api/auth.py`, `api/rotate_tenant_api_keys.py`, `seed*.py`) | `api_credentials`; fixtures in a file and in a secret | authenticate, generate, rotate, seed, escalate | database, Secrets Manager |
| roles and row-level security (`Component_5`) | roles, passwords in secrets, policies, grants | four commands, in any order | database, Secrets Manager |
| evaluation, reports | `evaluation_records` | record, read | worker |

What makes it hard:

- **Every block commits on its own.** `get_db_context` is one transaction. A tool
  call is about ten of them, so it can raise or die between any two, and others
  see what it left.
- **Many callers for one value.** The cycle, workers, and reviewers change the
  same price; advisory locks, compare-and-set updates and idempotency keys are
  all that keeps them apart.
- **Time.** Claims become stale, visibility timeouts and lock timeouts expire,
  cooldowns are computed from clocks of several hosts.
- **Two stores without a common transaction.** A password or a key changes in the
  database and in Secrets Manager or a file, one after the other, by commands
  that nothing keeps from overlapping.
- **Scarce connections.** A guarded call holds up to three connections of a pool,
  and authentication waits for one in the event loop.
- **Two readings of one log.** Projections are updated on append, and
  `reconstruct_state_at` computes the same state again from the events.

`PROJECT.json` lists the hazards at their lines with the properties that cover
them.

## Modules

| Module | Models |
|---|---|
| `ActionPolicy` | pure gates: confidence, critic, risk, approval, the value a change writes |
| `ActionLedger` | abstract: keys are bound to requests, each carried out at most once |
| `ToolFramework` | all of a tool call, approvals and their resolution included |
| `ToolFrameworkInv` | the inductive invariant of `ToolFramework` |
| `ToolFrameworkProofs` | theorems |
| `WorkQueue` | submission, SQS, worker with its evaluation record, reviewer of a held call |
| `ActionRequests` | abstract: what a client that polls its request may see, and what is done for it |
| `WorkQueueProofs` | theorems |
| `EventStore` | append with hash chain and projections, verification, replay |
| `EventLog` | abstract: a history that grows at its end, and the tables it made |
| `EventStoreProofs` | theorems |
| `Cycle` | `run_cycle` and `_handle` |
| `CycleProofs` | theorems |
| `PricingRules` | the arithmetic of the detector and of the two pricing rules |
| `Reasoning` | detection, rules, language model, validation, merge, and the price changes that follow |
| `ReasoningProofs` | theorems |
| `Sessions` | connection pools, tenant setting, advisory locks, nested blocks, event loop |
| `SessionsProofs` | theorems |
| `Credentials` | API keys and the five commands that change them |
| `Provisioning` | roles, tables, row-level security, and the commands that set them up |
| `ProvisioningProofs` | theorems |
| `Administration` | `Credentials` and `Provisioning` as one specification |
| `AdministrationProofs` | theorems about `Credentials` and `Administration` |
| `MC*` | instances for TLC |

`ToolFramework` extends `ActionPolicy` and instantiates `ActionLedger` for the
refinement. `Reasoning` extends `PricingRules` and, for the critic and the risk
classes, `ActionPolicy`. `WorkQueue` and `Cycle` stand on both sides of the framework and see
it through what it shows them: the row of `idempotency_keys` and whether a
change was written. What they assume (one change for a key at most, a
completed key keeps its answer) are the properties of `ToolFramework`, with one
exception, described under *Disagreements*. `Sessions` stands below all of them:
they take it for granted that a block is one transaction of its tenant and that
a lock is exclusive, and it says how far that is true. `EventStore` and
`WorkQueue` instantiate `EventLog` and `ActionRequests`, which they implement.
`Administration` extends `Credentials` and instantiates `Provisioning`.

### ToolFramework

A caller is a stack frame: `pc`, `path` (`tool` or `approved`), `key`, `req`,
`dec`, `res`; `holds` are the sessions with an advisory lock. `idem`,
`decision`, `approval`, `execLog` are tables. `value` is the price, cost or
headcount that the appended event projects. One action is one transaction, in
the order of the code: `ClaimInsert` or `ClaimConflict` (then `Abandon`),
`ProposeAndSimulate`, `AcquireLock` or `LockTimeout`, `Critique`,
`RequestApproval`, `ClaimDecision`, `Evaluate`, `ApplyStateChange`, `WriteLog`,
`Complete` or `Fail`. Reviewers enter at `Revalidate` and `Resolve`.
`Raise` and `Crash` can come between any two, and `Age` makes a claim stale
whether its owner is dead or slow. `applied` and `decision[d].key` are ghosts.

Numbers are abstracted to small integers on which the real percentages are
evaluated: with a price of 10, a change to 11 is automatic, to 13 it needs a
reviewer, and from 9 to 13 the critic refuses it. Confidence is one of a few
values on either side of the two thresholds.

### WorkQueue

`row` is `work_requests`, `queue`, `receiver` and `receives` are SQS,
`claim`, `review` (the approval request of a call that was held) and `effects`
summarise the framework, `evaluated` is `evaluation_records`. A receive takes up to a batch of
the tenant's messages, since the tenant is the FIFO group. A message whose row
is no longer pending is handled without work (`Handled`). Two choices hold for
a whole behaviour: `covers`, whether the visibility timeout covers what a worker
has taken, and `forbidden`, the payloads that the synthetic guard refuses.
`Sends` says which keys each API handler may be sent.

A tool call ends with `ToolReturns` (executed, or refused for good), `ToolHolds`
(too big: it leaves an approval request and returns `executed=False`),
`ToolRejects`, `ToolFails` or `Crash`; the last two may come after the change or the
approval request was committed (`CutShort`). The reviewer works outside of the queue:
`Review` is `resolve_approval` with `execute_approved_tool_call`, which claims the
decision once, may write the change, and touches neither the row nor the key. So a row
says `failed` of a held call from the start, and still does after the approved change.

`Seen` is what a client reads when it polls; with `review`, `effects` and `covers`
it is the state of `ActionRequests`.

### EventStore

An append is a transaction with the steps of the code: lock the tenant row, read
the latest event, read the clock, insert with all projections and commit. A
handler maps the tables to the set of tables it can leave, empty when it
raises. `Replayed` folds the events in the order of time stamp and id, as
`reconstruct_state_at` does. SHA-256 is an injective function. The
`Apply...` and `Replay...` families are two independent implementations of each
event type, which is what `ReplayAgrees` compares: what the replay tells, laid over
the seeded tables, is what the projections hold, but for staffing, items added as
inactive, and stock of which only deltas are on record (see *Disagreements*).
`InitialProjection` is a seed as
`seed.py` leaves it, with rows in the tables and prices at time 0. `workload` says, for a whole
behaviour, what each writer may append: two writers a few events whose order
matters, or one writer anything. `ImplementsLog` maps the events in the order of
their time stamps to the log of `EventLog`; there a history cannot change behind
its end and the tables are what the history did to them.

### Cycle

A runner holds the locals of `run_cycle` (`todo`, `left`, `errors`, `started`)
and of `_handle` (`chosen`, `result`). What is detected and how candidates are
ranked is chosen from constants, so that a retry may see another world than the
first run. A candidate is a target with a payload, and the key of the code contains
both: the same opportunity can come back with another payload and then has another
key. A log entry carries the key it was written for (a ghost), which is what ties a
retry to what the first run logged. `OthersAct` are log entries of workers and
reviewers, up to `MaxOthers` of them.

### Reasoning

The state of the restaurant (`price`, `cost`, `sold` by day, `low` stock) goes on
changing by `Operate` while a batch is worked on. `Detect` is one run of
`detect_opportunities`, with the truncation to the leading ones; an opportunity
keeps the price and cost it was detected with (`seen`, `cost`). For each one,
`RulesOnly`, `ModelAnswers` or `AnswerUnreadable` is one call of
`reason_about_opportunity`. `Execute`, `HoldForReview` and `PassOver` are
`_handle`, reduced to what it may do to a price; `Approve` is
`resolve_approval`, which asks the critic again and not the detector.

Money is in cents and percentages are compared by cross multiplication, so that
rounding to `PRICE_STEP` is the real one. The model is external: it answers with
any member of `Answers`, or fails. Candidates of an opportunity form a set,
because `_handle` sorts them; of several it could take, it may take any, and so
the scores are left out. That is more than the code does, which is sound for
what is claimed.

### Sessions

A thread is a stack of open blocks, each on a connection of its own (`stack`),
and a place in between (`pc`). `Open` is the next block the code may enter from
the one it is in; `CheckOut` takes a connection and, for `get_db_context`, sets
the tenant; `TakeLock`, `LockTimesOut` and `SkipCycle` are the two advisory
locks; `Leave` and `Unwind` close a block after success and after an
exception. `Authenticate` is `require_tenant`, which runs the two transactions
of `resolve_tenant_from_key` in the event loop, in the order of arrival.
`RollbackWithin` is the rollback of `submit_action` inside its session. `Lose`
ends the server side of a connection at any moment. An idle
connection is taken by a fixed choice, which is sound because idle connections
do not differ while `TenantContextIsOwn` and `GuardsExclude` hold.

### Credentials, Provisioning, Administration

In `Credentials` an operator is a running command: `job`, `at`, the fixtures in
its memory (`mine`), the rows its UPDATE statements saw (`target`) and the rows
its transaction has updated (`held`). `UpdateRows` is an UPDATE under READ
COMMITTED: it waits for rows that others hold and takes those that still match,
but not the rows that were added since. `Publish` is `os.replace` or
`put_secret_value`. `Fail` is an exception before the commit,
`CommitUnacknowledged` a commit whose answer is lost, `PublishFails` an exception
after it, and `Crash` the end of the process anywhere.

`Provisioning` has a step for each transaction and each call to Secrets Manager
of `provision_roles` and `create_release_gate_reader`; creating tables
(`bootstrap_ops_copilot`, `init_db`) and `configure_rls` are one transaction
each. `NextRelease` adds tables and `StartTask` gives a task the password in the
secret, as ECS does. `alone` in both modules is a ghost: no other command ran at
the same time.

The two share no state. A behaviour of `Administration` therefore has the
commands of one or of the other (`work`), which loses nothing.

## Runs

| Run | Bounds | Shows |
|---|---|---|
| `ToolFrameworkRequests` | 2 callers, 1 key, 2 decisions, 8 requests of all types, faults | types, inductive invariant, `ExecutedWithAuthority`, `AnswersAreTruthful`, `AnsweredCallsAreLogged`, and that calls return |
| `ToolFrameworkRaces` | 2 callers, 2 keys, 2 decisions, 3 prices, no faults (stale claims included) | `AtMostOncePerKey`, `BigChangesAreApproved`, refinement of `ActionLedger` |
| `WorkQueueRetries` | 2 API handlers (one is sent both keys, the other retries the first), 2 workers, 2 keys, one of them with a forbidden payload, batches of 2, 2 receives, calls held for a reviewer, all faults, with and without timeouts under live workers | `ImplementsRequests`, `MessagesHaveRows`, `TenantWorkIsSerialized`, `EvaluationsMatch`, `QueueDrains` |
| `EventStoreHistory` | 2 writers with 2 kinds of events, or 1 writer with 3 events of any of 13 types, valid or not; synchronized clocks | `ChainVerifies`, `ProjectionsAgree`, `ReplayAgrees`, refinement of `EventLog` |
| `CycleRetries` | 2 runners, 1 cycle id, 2 opportunities on one target, 2 payloads for one of them, modes simulate and execute, cap 1, 2 errors, cooldown 1 of 2 ticks, 1 change by others | `BlastRadiusIsBounded`, `RetriesRepeatNothingLogged`, `CooldownSeparatesCycles`, `LockFollowsTheCycle` |
| `ReasoningLoop` | 1 item, 1 ingredient, 3 prices, 3 costs, look-back of 1 day, 3 days, 1 order a day, 1 approval waiting, 2 opportunities, 2 model candidates | `RulesSurviveTheModel`, `MovesFollowRules`, `RaisesEndShortfalls`, `DiscountsAreSmall`, `SteadySalesAreNoDecline` |
| `Sessions` | 2 API requests for up to 2 tenants over 3 connections, or a request and a message of one tenant; 3 blocks each; any exception, any lost connection | `TenantContextIsOwn`, `GuardsExclude`, `CallsEnd` |
| `Administration` | 2 operators; 1 configured and 1 escalation tenant, 4 keys; 1 task, 4 tables of which 1 comes with the next release, 4 passwords; every failure | `NoLockOut`, `RotationDelivers`, `KeysAreKept`; `GrantsAreGuarded`, `AccessIsKept` |

The other runs of `PROJECT.json` are those under *Disagreements*.

Why these bounds: each hazard needs two parties over one resource (a key, a
price, a message, a tenant row, a lock). Two decisions are needed for a second
key to carry the same change. Two messages fill a batch, and a third receive
shows the redrive. Three events suffice for a seeded value, an absolute level
and a delta in any order. Two errors and a cap of one let a cycle go on after an
error, two ticks let a cooldown of one expire, and two payloads for one opportunity
let a retry meet a log entry, or a change without one, under another key; `propose` takes the same
steps as `simulate`, so one of the two is enough. In `ReasoningLoop` one item
can have an opportunity of each type at once, two of which ask for opposite
moves; the prices are one below a step, two at which rounding matters, and the
answers hold a duplicate of the rule's price, three valid proposals for a
ceiling of two, and proposals about another item or out of range. Three days are
a recent window and a baseline, and one more step. In `Sessions` three
connections are what one cycle can nest, so that two requests exhaust the pool
while one holds a lock the other waits for; three blocks are a preflight or a
guard, what follows and what is inside. In `Administration` four keys are two
rotations, an escalation and a key by hand, in any overlap; the tables are one
that the reader gets, one that it does not, one that comes later, and
`api_credentials`, which has no policy. `MaxBlocks`, `MaxKeys`, `MaxPasswords`,
`MaxStamps`, `MaxTime`,
`MaxDay`, `MaxUnits`, `MaxHeld`, `MaxOthers`, `MaxReceive` (a real setting of the queue) and
the finite sets of decisions, event ids and requests sent (`Sends`) are the only bounds. Deadlock is checked in `Sessions`, where
something can always happen, and not in the other runs, because every system may
stop there: nobody has to call, decisions and stamps run out.

Fairness, in `FairSpec` of three modules. `ToolFramework`: a process
that is in a call takes its next step; nobody is obliged to call, review or
crash. `WorkQueue`: API handlers and workers take their next step,
some worker polls (the loop in `worker/main.py` does nothing else), SQS makes
messages visible again and redrives them; no reviewer has to decide. `Sessions`: a thread takes its next
step, which includes that `DB_POOL_TIMEOUT` and `lock_timeout` expire; nobody has
to arrive. Faults are never fair.

## Disagreements between the code and what it says

Each is a run in which TLC finds the behaviour.

- `ToolFrameworkAbandoned`: `claim()` reads a stale row and overwrites it by
  primary key, so a result that a slow owner completed in between is lost.
- `ToolFrameworkApprovalStuck`: an approval is resolved before the execution
  asks for the lock. `ToolBusyError` leaves it approved, unexecuted, and not
  resolvable again.
- `WorkQueueTransient`: a transient failure leaves the row in `processing`; the
  redelivery sees that it is not pending and deletes the message.
- `EventStoreSkew`: the chain is ordered by the hosts' clocks; an append by a host
  that is behind makes an untampered chain fail its verification.

Seen while modelling, and visible in the modules, without a run of their own:

- A change whose call raises after the write is not charged to `max_actions`, so
  that `made[r] <= MaxActions` fails in `Cycle`; `BlastRadiusIsBounded` states
  the bound that holds, with one more change for every error that is tolerated.
- `_margin_candidate` rounds after it has moved to the next step, so that for
  items of about a dollar the price that should restore the margin can be lower
  than the current one ($1.04 at a cost of $0.73 gives $1.00). A test is named
  `test_margin_candidate_never_decreases_price`. `RaisesEndShortfalls` is stated
  above $1.50.
- The 5% discount, rounded to 25 cents, changes nothing for a price of $2.50 or a
  lower multiple of 25 cents and is an increase for some others ($2.24 becomes
  $2.25). `DiscountsAreSmall` is stated above
  $2.50.
- While demand keeps falling, the discount of one rule can create the shortfall
  that the other then ends, batch after batch.
- `json.loads` may raise something other than `JSONDecodeError`
  (`AnswerUnreadable`); `reason_about_opportunity` says it never raises, but the
  whole cycle fails.
- Between `Revalidate` and `Resolve` the value can move, and the execution of an
  approved call does not run the critic again (`AcquireLock`). The docstring of
  `_stale_approval_reason` says so.
- A crash between `ApplyStateChange` and `WriteLog` leaves a change without a log
  entry, so the cooldown of the next cycle does not see it. A retry does not either:
  `run_cycle` says (`orchestrator.py:424`) that with a stable `cycle_id` "nothing
  executes twice", but the key contains the payload. When the retry detects the same
  opportunity at the changed price, its candidate has another key, and it is executed
  on the same target again; it also is when the change was logged and the cooldown is
  over. `RetriesRepeatNothingLogged` states what does hold and names both cases; without
  them TLC finds the trace.
- A call that is held for a reviewer is `failed` for the client that polls
  (`worker/handler.py:192`), with `pending_human_approval` and the id of the approval
  request in the error of the row. When the reviewer approves it, it is executed, and
  the row still says `failed` (`ToolHolds`, `Review`; `ActionRequests` promises no more).
- The loser of two concurrent submissions (`InsertConflict`) rolls back, which
  ends `SET LOCAL app.current_tenant`; under row-level security its second lookup
  finds nothing.
- When a batch outlasts its visibility timeout, two workers run one tenant's
  messages at once: `TenantWorkIsSerialized` holds only of behaviours in which
  `covers` is true.
- `append_event` hashes `source` as given and stores it stripped (`Strip`).
- Replay starts inventories from zero although seeded stock has no event, reports
  an item added as inactive as active, and keys staffing by role and day, so that a
  shift that is moved stays behind. What `ReplayAgrees` states is what does hold.
- A busy resource is documented as "safe to retry"
  (`Component_4/tool_framework.py:93`), but the retry through the queue never happens:
  `execute_tool_call` catches `ToolBusyError` (line 862) and returns
  `concurrent_change_in_progress`, which is stored under the key and which the worker
  records as `failed` (`ToolReturns`). Only `execute_approved_tool_call` lets the
  error escape (`ToolFrameworkApprovalStuck`).
- Authentication is an `async` dependency that queries the database
  synchronously (`api/auth.py:83`). While it waits for a connection the whole
  process answers nothing, `/healthz` included, which is meant to show that the
  process is "able to answer HTTP at all" whatever the database does
  (`Sessions`, `Authenticate`). `CallsEnd` says that the wait ends.
- When the connection that holds a guard is lost, its block goes on without the
  lock until its own commit raises, so another caller can be inside. `GuardsExclude`
  states exclusion up to that.
- A rerun of `seed` rewrites `tenant_fixtures.json` with only the keys it issued
  (`OpenFile`, `DumpFixtures`), which loses those of earlier runs; its docstring
  refers to the place where they were saved (`seed.py:549`).
- Rotation to a secret replaces the whole secret and so drops the escalation
  tenants. The next `seed_llm_escalation_tenants` does not find their keys and
  revokes them, although its docstring says that it does not alter existing API
  keys (line 5).
- Commands that overlap can publish in the opposite order of their commits, and
  the escalation writes back what it read at its start: then the file or the
  secret carries revoked keys until the next rotation. `RotationDelivers` and
  `KeysAreKept` say so by `alone`.
- A commit whose acknowledgement is lost counts as failed, and the temporary file
  with the only copy of the new keys is removed (`CommitUnacknowledged`).
- `seed` calls `init_db`. If it runs as the master role before
  `bootstrap_ops_copilot`, that role owns the tables and `configure_rls` can never
  succeed (`InitDb`, `ConfigureRls`).
- Two first runs of `provision_roles` at once can leave a secret that does not
  match the role, until the next run.

## Proofs

### ToolFramework

The theorems hold for all finite or infinite sets of
callers, keys, decisions, targets and requests, from the assumptions
`RequestsAssumption` (well-typed requests), `TargetsAssumption` (initial values
are naturals) and `NoneAssumption`.

`AtMostOncePerKey` and `ExecutedWithAuthority` speak of tables. They are not
inductive: whether a second change is possible depends on what calls in flight
believe. `IndInv` adds

- `FramesAgree`: a call's locals agree with the rows they were filled from;
- `KeysAreBound`: a key has one owner and one decision, for the request it is
  bound to. It holds although claims are abandoned, because an abandoned key is
  never claimed again;
- `GatesHeld`: what the gates established about every decision by its status;
- `AuthorityOfCalls`: what a call between the gates and the write acts under;
- `OneExecution`: the claim of a decision is a compare-and-set on its status, so
  one call at a time is beyond it;
- `Serialized`: the advisory lock covers the baseline from its reading to the
  write.

`Invariance` proves `Spec => []IndInv` with one lemma for each action; `TypeCorrect`,
`AtMostOnce` and `Authority` follow. `BigChanges` and `Refinement` are step
properties proved from the same invariant: `Serialized` gives that the value of an
automatic change is within the limit at the moment of the write, and
`KeysAreBound` with `OneExecution` that a write is a step of the ledger and all
else a stutter.

`AnswersTrue` and `AnswersLogged` are about what a caller is told. A result passes
through a frame, the row of its key and the frame of a later retry, so `AnswerInv`
says of each of these three places what the result says of the tables (`Backed`) and
that the log has it. A refusal is true only if it stays true: `Spent` is the state of
a decision that no call can carry out any more and nobody will be asked about.
`AnswerInv` is inductive together with `IndInv`.

### EventStore

For any writers, payloads, tables and bounds, from `EventStoreAssumption`, whose parts
say that the seed left tables that agree (`SeedAssumption`) and which fields a payload
of each type has (`PayloadAssumption`). Except for the types the theorems assume
`ClocksAgree`: `EventStoreSkew` is the counterexample without it. `ChainIsVerifiable`
assumes also that sources carry no padding, which the hash covers and the row does
not.

- `TInv` is `TypeOK` with the arguments of the transactions. What keeps a stock level
  natural is the refusal in `SetStock`, what keeps a count positive the validation of
  the handler.
- `SInv` is the serialization: the row lock covers everything from the read of the
  latest event to the commit (`LockIsHeld`), so what was read still is the latest
  (`PreviousIsLatest`), and a stamp read under the lock is later than all that is
  committed (`StampsAreNew`, `PastIsPast`). A new event is therefore the last in the order
  of time stamps, which is the order that verification, replay and refinement use.
- `Ranked`: the number of earlier events is a position that belongs to one event. The
  positions are carried along the behaviour, one commit at a time, and not
  obtained by an induction over the set of events.
- `Replayable`: there is one function that satisfies the recursive equation of
  `reconstruct_state_at`. This too is carried along: the function for one more event
  extends the one before.

`ChainIsVerifiable` and `Refinement` follow from `SInv` and `Ranked`. `TablesAgree` needs
one lemma for each handler. `ReplayIsTrue` compares each handler with the branch of
the replay for the same event (`SupplyReplayed`, `MenuReplayed`, `RecordsReplayed`, the
stock level once an event has told it), and covers histories of any length. It says
nothing of staffing, of items added as inactive, and of stock of which only deltas
are on record, because `ReplayAgrees` does not: there the code disagrees with itself.

### Cycle

For any processes, cycles, opportunities, modes, caps, budgets and cooldowns, from
`CycleAssumption`. `CInv` adds to the types and `LockFollowsTheCycle`

- `ActingIsAllowed`: who acts has an opportunity, budget left and the mode for it;
- `EveryChangeIsCharged`: a change is charged to the cap or to the error budget when
  its opportunity ends, and between the write and the charge one is owed. The sum of
  the two gives `BlastRadius`;
- `ClaimedBeforeChanged`: a key is claimed before its change and never again, so a
  retry that finds it claimed changes nothing (`WritesOnce`);
- `CooledDown`: what a cycle read of the log stays true until it has acted, because the
  lock keeps other cycles out.

`CyclesAreSeparated` is the step property that follows from `CooledDown`, and
`RetriesAreSafe` combines the two: a retry writes no candidate's change again, and acts
on the opportunity and target of an earlier change of the cycle only when that has no
log entry or the cooldown is over. Both say nothing of changes that were never logged.

### Reasoning

For all items, recipes, prices, costs, model answers and windows that satisfy
`ReasoningAssumption`. The inductive invariant `ReasoningInv` is `TypeOK`,
`MovesFollowRules` and `ShortfallsSeen`: a margin opportunity of the batch had a
shortfall at the price and cost it was detected with. The last is what ties a
move, possibly many steps later, to the facts of the detection. `MovesAreRules`
follows by `ReasoningInvariance`. `RaisesSuffice` and `DiscountsStaySmall` are
step properties that combine the invariant with the arithmetic of the rules,
for every price and cost: `RoundsHalfUp` bounds the rounding by half a step,
`RaiseEndsShortfall` and `DiscountIsSmall` say from where on this is enough
($1.50 and $2.50).

`RulesAreKept` adds `ReasonedSurvive`: an opportunity leaves `todo` only with its rule
candidates among the proposals. Its step is about one answer of the model
(`MergedSurvive`): those among the valid proposals that have fewer than the ceiling
before them are counted by an injection into an interval (`AcceptedAreFew`), which
needs that an answer is finite.

`DeclinesAreReal` is about sums of orders over windows of days. The sum operator of the
community modules is a choice of a function by a recursive equation; that the equation
has one solution, and how a sum is bounded by its terms, is shown of a least
subset that would contradict it (`LeastSubset`, `SumsExist`, `SumsAgree`, `SumBounds`).
A baseline that is positive has a day in it, so the days of the recent window all
exist and are one more than those of the baseline; if the worst of them were no
worse than every day of the baseline, there would be no decline
(`DeclineHasAWorseDay`).

### Credentials

For any tenants, any number of operators and of keys, from `CredentialsAssumption`.
`NoLockOut` (a tenant of which a key was revoked has a valid one) is not
inductive: a commit revokes the rows that its transaction holds, and whether that
leaves something valid depends on what else it commits. `CInv` adds

- `KeysFit`: a fixture carries keys of the tenant it is for, and those in the
  secret are committed;
- `FreshKeysAreOwn`: a key that is not committed is in the memory of one process;
- `RowsAreListed`: what a transaction holds it has seen, and nothing is held
  before and after it;
- `RowsAreReplaced`: for each row that a transaction may revoke, the process has
  a key of the same tenant that is still uncommitted, and so is not revoked by
  anybody and becomes valid with the same commit.

`TypeOK` is part of `CInv` and says in addition that a row is held by one
transaction at a time, which found it active. `CommitStep` is the heart of the
proof; `CommitKeysStep` and the unacknowledged commit use it.
`NobodyIsLockedOut` and `RowsAreOwn` are the theorems.

What a command publishes, and what is lost with it, depends on what it read many steps
before. `DInv`, inductive together with `CInv`, says for each command

- `EndsKeys`: the keys that a rotation saw are revoked, or held to be revoked by its commit;
- `BringsKeys`: it has a key for each configured tenant, not committed before its commit
  and, while it is alone, valid after it, with a copy in a temporary file when it
  rotates to one;
- `KeepsFixtures`: an escalation that is alone still has the fixtures of the secret, or
  a newer key;
- `SeedsConfigured`, `FileIsConfigured`: a seed and the file are about configured tenants;
- `AloneIsOne`: alone means that no other command is running.

`RotationsDeliver` and `CopiesAreKept` are step properties that follow.
`CredentialsAssumption` says of `None` that it is no key and no tenant, and no
file contents either, since the secret holds one or the other.

### Sessions

For any threads, pools and tenants, any number of open blocks, and any work, from
`SessionsAssumption`. `TenantContextIsOwn` and `GuardsExclude` look at one side of
a relation; `SInv` states the whole of it, by position in the stacks of blocks:

- `PlacesFit`: a cycle and its preflight are only ever outermost, which is why a
  skipped cycle, whose end releases nothing, can leave nothing behind;
- `OwnConnections`: no connection serves two blocks, so what one block ends does
  not end the transaction of another;
- `SettingsHaveBlocks`, `LocksHaveBlocks`: a setting and a lock belong to a block
  that is open, and a thread that waits for a lock does not have it;
- `BlocksHaveLocks`: conversely, a block that is past its lock and whose
  connection lives has the lock. `GuardsExclude` follows: two such blocks would
  both be the holder, so their connections would be the same.

`CloseStep` is shared by all ends of blocks (`Leave`, `RollbackWithin`, `Unwind`);
`ContextIsOwn` and `LocksExclude` are the theorems.

`TypeCorrect` needs the event loop besides: `LInv` says that the loop has each request once,
that those behind the first have not begun, and that the one that authenticates, or
whose authentication just failed, is the first (`LoopFits`). A request therefore leaves
the loop from its head (`LeaveLoop`), wherever its exception came from.

### Provisioning

For any tables, processes and tasks, from `ProvisioningAssumption` (TLC evaluates it
as `RolesAssumption` of `Administration`). `PInv` adds to `GrantsAreGuarded`

- `ConfiguredTogether`: `enable_rls` is one transaction, so a table is forced
  together with its grant, and the first success covers all tables of the first
  release. The preflight, which looks only at what is forced, is enough for this reason;
- `PasswordsFollow`: a command that overlapped with no other is the only one, and
  what it will store is the role's password; until it has altered the role it is
  the password of the secret. Only `alone` commands keep this: an overlap ends it, and
  the next command that starts when all others have ended has it again.

`RolesAreGuarded` is the invariant, `PasswordsAreKept` the step property proved from
it; `TypeCorrect` states the types. `AdministrationProofs` carries these, and the theorems
about `Credentials`, over to the specification that TLC runs: a behaviour of `Administration` is one of `Credentials`
and one of `Provisioning` (`SameSpec`).

### WorkQueue

For any numbers of clients, workers and keys and any batch size, from
`BoundsAssumption`. `TypeOK` says nothing of why a request is changed once or
answered truthfully; `WInv` adds

- `MessagesAreOfRows`: what is queued, held in a batch or about to be published has
  a committed row, and is queued once. The unique key lets one handler insert,
  and only that handler publishes;
- `OneChange`: a claim is taken once, so one tool call at a time runs for a key and
  it finds nothing written; what a worker is about to report as completed was written.
  This holds with messages held twice, crashes and transient failures;
- `ReviewerActsAlone`: a reviewer is asked only by a call that wrote nothing and that
  never runs again, so the approved call writes the first change, and no worker reports
  a completion for it;
- `HeldByOne`: while the visibility timeout covers a batch, one worker has messages,
  with valid receipts, none of them twice;
- `HandledOnce`: a request then passes through the handler once: its row is
  `processing` from the marking to the recorded outcome, there is no claim before
  and no evaluation record.

`MovingOn` is the lemma for every step that ends a message (deletion, an expired
receipt, an exception, a crash), `Staying` for those within one. `Refinement`
maps `InsertRow` to `Accept`, a change written by a worker to `Write`, a request for
approval to `Ask`, a reviewer's step to `Review`, a recorded outcome to `Answer`, and `MarkProcessing` of a row that another worker had answered to
`Reopen`, which `HandledOnce` excludes while the timeout covers a batch. All other steps are stutters.

### Not proved

Only model-checked is everything about liveness, which is outside what the prover
does: `CallsReturn`, `QueueDrains` and `CallsEnd`. Every other property of a passing run
is a theorem. The runs under *Disagreements* show counterexamples, and there is nothing
to prove about them. The bounds of the runs are parameters of the theorems.

## Not modelled

- The arithmetic of the simulator, ground truth and calibration: numerical, no
  concurrency; only the confidences matter to the gates.
- The prompt and the context that the language model gets, titles, rationales
  and scores of candidates. `Cycle` chooses candidates from a constant instead
  of taking those of `Reasoning`.
- `last_used_at`, the one column that authentication writes: nothing reads it.
- A temporary file that is only partly written, the permissions of files, and
  `create_release_gate_reader` without a secret (it then prints the password).
- Which rows a policy shows: the expression of the policy is SQL. `Provisioning`
  has which policies and grants exist, not what they compute. `verify_rls` only
  reads. The shell script that runs the bootstrap commands is not part of the
  repository, so their order is left open.
- Reports, counters and the event adapter of `Component_7`, settings, logging, the
  loading of seed data, and the first versions of modules at the repository's
  root, which nothing imports.
- The limit of 500 log entries that a cooldown looks at.

## Plan

1. Done: `ActionPolicy`, `ActionLedger`, `ToolFramework` with its proofs,
   `WorkQueue`, `EventStore`, `Cycle`.
2. Done: `PricingRules` and `Reasoning` with its proofs.
3. Done: `Sessions`; `Credentials` with its proofs, `Provisioning`,
   `Administration`; `EventLog` and `ActionRequests` with their refinements.
   Proofs of `Sessions`, `Provisioning` and `WorkQueue`.
4. Done: proofs of `EventStore` (with its refinement), `Cycle`, the answers of
   `ToolFramework`, `RulesSurviveTheModel` and `SteadySalesAreNoDecline`,
   `RotationDelivers` and `KeysAreKept`, and the types of all modules.
5. Left: the replay with clocks that do not agree, in particular what still holds then of
   the projections; staffing in the replay, once its key is settled; a theorem that
   `Cycle` and `WorkQueue` may take of the framework what they do.
