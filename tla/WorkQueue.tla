----------------------------- MODULE WorkQueue -----------------------------
(***************************************************************************)
(* The asynchronous path of one tenant: POST /v1/actions (api/main.py)      *)
(* writes a work_requests row and publishes its id (shared/queue.py); SQS   *)
(* FIFO delivers it to the worker loop (worker/main.py), whose handler      *)
(* (worker/handler.py) runs the tool framework and records the outcome.     *)
(*                                                                         *)
(* The row is identified by its idempotency key, which is unique per        *)
(* tenant.  The tenant is the FIFO message group: while one of its messages *)
(* is in flight no other delivery of the group happens.  The tool framework *)
(* appears through the row of idempotency_keys it keeps for the key, with   *)
(* the outcomes ToolFramework shows possible, and through the approval      *)
(* request of a call that it held: a reviewer decides that one whenever,    *)
(* outside the handler, and an approval executes the call then.             *)
(***************************************************************************)
EXTENDS Integers, Sequences, SequencesExt, FiniteSets

CONSTANTS
    Clients,           \* API request handlers
    Workers,           \* worker processes
    Keys,              \* idempotency keys
    Sends,             \* the keys of the requests each handler may be sent
    ForbiddenSets,     \* possible sets of keys whose payload the synthetic-only
                       \* guard refuses
    BatchSize,         \* WORKER_MAX_MESSAGES_PER_POLL
    MaxReceive,        \* the queue's maxReceiveCount
    Faults,            \* subset of {"publish", "transient", "crash"}
    Coverage,          \* subset of BOOLEAN: may the visibility timeout cover a
                       \* batch, may it expire under a live worker
    None

ASSUME BoundsAssumption ==
    /\ Sends \in [Clients -> SUBSET Keys]
    /\ BatchSize \in Nat \ {0}
    /\ MaxReceive \in Nat \ {0}
    /\ ForbiddenSets \subseteq SUBSET Keys
    /\ Faults \subseteq {"publish", "transient", "crash"}
    /\ Coverage \subseteq BOOLEAN
    /\ None \notin Workers

VARIABLES
    covers, forbidden,     \* the deployment and the payloads of this behaviour
    apc, akey,  \* API handlers
    row,        \* work_requests: status by key
    queue,      \* messages not deleted, in order
    dlq,        \* messages redriven to the dead-letter queue
    receiver,   \* whose receipt handle is valid for each message
    receives,   \* ApproximateReceiveCount
    wpc, batch, outcome,   \* workers
    claim,      \* idempotency_keys: status by key
    review,     \* approval_requests: of the call made for each key
    evaluated,  \* evaluation_records: what was recorded for each key
    effects     \* state changes written for each key (ghost)

vars == <<covers, forbidden, apc, akey, row, queue, dlq, receiver, receives,
          wpc, batch, outcome, claim, review, evaluated, effects>>
setting == <<covers, forbidden>>
api == <<apc, akey>>
sqs == <<queue, dlq, receiver, receives>>
worker == <<wpc, batch, outcome>>

Settled == {"completed", "failed"}

Init ==
    /\ covers \in Coverage
    /\ forbidden \in ForbiddenSets
    /\ apc = [a \in Clients |-> "idle"]
    /\ akey = [a \in Clients |-> None]
    /\ row = [k \in Keys |-> "none"]
    /\ queue = <<>>
    /\ dlq = {}
    /\ receiver = [k \in Keys |-> None]
    /\ receives = [k \in Keys |-> 0]
    /\ wpc = [w \in Workers |-> "idle"]
    /\ batch = [w \in Workers |-> <<>>]
    /\ outcome = [w \in Workers |-> None]
    /\ claim = [k \in Keys |-> "none"]
    /\ review = [k \in Keys |-> "none"]
    /\ evaluated = [k \in Keys |-> <<>>]
    /\ effects = [k \in Keys |-> 0]

(***************************************************************************)
(* submit_action.                                                          *)
(***************************************************************************)
Respond(a) ==
    /\ apc' = [apc EXCEPT ![a] = "idle"]
    /\ akey' = [akey EXCEPT ![a] = None]

\* Mutant: the id is published before the row is inserted.
SubmitPublishesFirst(a, k) ==
    /\ apc[a] = "idle"
    /\ row[k] = "none"
    /\ queue' = Append(queue, k)
    /\ apc' = [apc EXCEPT ![a] = "insert"]
    /\ akey' = [akey EXCEPT ![a] = k]
    /\ UNCHANGED <<setting, row, dlq, receiver, receives, worker, claim, review, evaluated, effects>>

\* The lookup by key: a resubmission gets the existing request, whatever its
\* payload, and publishes nothing.
Submit(a, k) ==
    /\ apc[a] = "idle"
    /\ IF row[k] # "none"
       THEN Respond(a)
       ELSE /\ apc' = [apc EXCEPT ![a] = "insert"]
            /\ akey' = [akey EXCEPT ![a] = k]
    /\ UNCHANGED <<setting, row, sqs, worker, claim, review, evaluated, effects>>

InsertRow(a) ==
    /\ apc[a] = "insert"
    /\ row[akey[a]] = "none"
    /\ row' = [row EXCEPT ![akey[a]] = "pending"]
    /\ apc' = [apc EXCEPT ![a] = "publish"]
    /\ UNCHANGED <<setting, akey, sqs, worker, claim, review, evaluated, effects>>

\* The unique constraint refuses the insert.  The rollback also ends the
\* transaction-local tenant setting, so row-level security hides the winner's
\* row from the second lookup, and .one() raises NoResultFound.
InsertConflict(a) ==
    /\ apc[a] = "insert"
    /\ row[akey[a]] # "none"
    /\ Respond(a)
    /\ UNCHANGED <<setting, row, sqs, worker, claim, review, evaluated, effects>>

Publish(a) ==
    /\ apc[a] = "publish"
    /\ queue' = Append(queue, akey[a])
    /\ Respond(a)
    /\ UNCHANGED <<setting, row, dlq, receiver, receives, worker, claim, review, evaluated, effects>>

\* SQS is unreachable, or the API task dies after its commit.
PublishFails(a) ==
    /\ "publish" \in Faults
    /\ apc[a] = "publish"
    /\ Respond(a)
    /\ UNCHANGED <<setting, row, sqs, worker, claim, review, evaluated, effects>>

(***************************************************************************)
(* SQS FIFO.                                                               *)
(***************************************************************************)
\* A message is queued once.
Without(q, k) ==
    LET here == {i \in 1..Len(q) : q[i] = k}
    IN  IF here = {} THEN q ELSE RemoveAt(q, CHOOSE i \in here : TRUE)

InFlight == {k \in Keys : receiver[k] # None}
Undeliverable == {k \in ToSet(queue) : receives[k] >= MaxReceive}

\* Mutant: messages have no group, so any visible message is delivered.
ReceiveUngrouped(w) ==
    \E k \in ToSet(queue) \ (InFlight \cup Undeliverable) :
        /\ wpc[w] = "idle"
        /\ batch' = [batch EXCEPT ![w] = <<k>>]
        /\ receiver' = [receiver EXCEPT ![k] = w]
        /\ receives' = [receives EXCEPT ![k] = @ + 1]
        /\ wpc' = [wpc EXCEPT ![w] = "read"]
        /\ UNCHANGED <<setting, api, row, queue, dlq, outcome, claim, review, evaluated, effects>>

Receive(w) ==
    /\ wpc[w] = "idle"
    /\ queue # <<>>
    /\ InFlight = {}
    /\ Undeliverable = {}
    /\ LET taken == SubSeq(queue, 1, IF Len(queue) < BatchSize THEN Len(queue) ELSE BatchSize)
       IN  /\ batch' = [batch EXCEPT ![w] = taken]
           /\ receiver' = [k \in Keys |-> IF k \in ToSet(taken) THEN w ELSE receiver[k]]
           /\ receives' = [k \in Keys |-> IF k \in ToSet(taken) THEN receives[k] + 1 ELSE receives[k]]
    /\ wpc' = [wpc EXCEPT ![w] = "read"]
    /\ UNCHANGED <<setting, api, row, queue, dlq, outcome, claim, review, evaluated, effects>>

\* Mutant: messages of a worker that is gone stay invisible.
VisibilityNeverExpires(w) ==
    /\ \E k \in Keys : receiver[k] = w
    /\ FALSE

\* One receive call's messages become visible together.
VisibilityTimeout(w) ==
    /\ \E k \in Keys : receiver[k] = w
    /\ covers => wpc[w] = "idle"
    /\ receiver' = [k \in Keys |-> IF receiver[k] = w THEN None ELSE receiver[k]]
    /\ UNCHANGED <<setting, api, row, queue, dlq, receives, worker, claim, review, evaluated, effects>>

Redrive(k) ==
    /\ k \in Undeliverable
    /\ receiver[k] = None
    /\ queue' = Without(queue, k)
    /\ dlq' = dlq \cup {k}
    /\ UNCHANGED <<setting, api, row, receiver, receives, worker, claim, review, evaluated, effects>>

(***************************************************************************)
(* process_message, and the loop around it.                                *)
(***************************************************************************)
Current(w) == Head(batch[w])

Goto(w, l) ==
    /\ wpc' = [wpc EXCEPT ![w] = l]
    /\ UNCHANGED <<batch, outcome>>

\* process_message returned True.
Handled(w) ==
    /\ wpc' = [wpc EXCEPT ![w] = "delete"]
    /\ outcome' = [outcome EXCEPT ![w] = None]
    /\ UNCHANGED batch

\* The loop takes the next message of the batch, or polls again.
NextMessage(w) ==
    /\ batch' = [batch EXCEPT ![w] = Tail(@)]
    /\ wpc' = [wpc EXCEPT ![w] = IF Len(batch[w]) > 1 THEN "read" ELSE "idle"]
    /\ outcome' = [outcome EXCEPT ![w] = None]

\* Mutant: a row that is not pending is processed again.
ReadRowAnyStatus(w) ==
    /\ wpc[w] = "read"
    /\ Goto(w, "mark")
    /\ UNCHANGED <<setting, api, row, sqs, claim, review, evaluated, effects>>

\* Step 1 reads the row; only a pending one is worth processing.
ReadRow(w) ==
    /\ wpc[w] = "read"
    /\ Goto(w, IF row[Current(w)] = "pending" THEN "mark" ELSE "delete")
    /\ UNCHANGED <<setting, api, row, sqs, claim, review, evaluated, effects>>

\* The update of the same transaction does not look at the status again.
MarkProcessing(w) ==
    /\ wpc[w] = "mark"
    /\ row' = [row EXCEPT ![Current(w)] = "processing"]
    /\ Goto(w, "execute")
    /\ UNCHANGED <<setting, api, sqs, claim, review, evaluated, effects>>

Outcome(w, l, result) ==
    /\ wpc' = [wpc EXCEPT ![w] = l]
    /\ outcome' = [outcome EXCEPT ![w] = result]
    /\ UNCHANGED batch

\* Steps 2 and 3.
GuardRefuses(w) ==
    /\ wpc[w] = "execute"
    /\ Current(w) \in forbidden
    /\ Outcome(w, "reject", "failed")
    /\ UNCHANGED <<setting, api, row, sqs, claim, review, evaluated, effects>>

\* Step 4 begins: execute_tool_call_idempotent claims the key.
ClaimKey(w) ==
    /\ wpc[w] = "execute"
    /\ Current(w) \notin forbidden
    /\ claim[Current(w)] = "none"
    /\ claim' = [claim EXCEPT ![Current(w)] = "in_progress"]
    /\ Goto(w, "executing")
    /\ UNCHANGED <<setting, api, row, sqs, review, evaluated, effects>>

\* The key is taken: the stored result, or a result that says executed=False.
\* A claim older than STALE_AFTER is abandoned on the way.
ClaimTaken(w) ==
    LET k == Current(w)
    IN  /\ wpc[w] = "execute"
        /\ k \notin forbidden
        /\ claim[k] # "none"
        /\ Outcome(w, "record", IF claim[k] = "executed" THEN "completed" ELSE "failed")
        /\ \/ UNCHANGED claim
           \/ claim[k] = "in_progress" /\ claim' = [claim EXCEPT ![k] = "failed"]
        /\ UNCHANGED <<setting, api, row, sqs, review, evaluated, effects>>

\* complete() and fail() write the key only while it is in progress.
FinishClaim(k, status) ==
    claim' = [claim EXCEPT ![k] = IF @ = "in_progress" THEN status ELSE @]

\* The tool call returns: executed, or refused by a gate or because the resource
\* is busy.
ToolReturns(w, executed) ==
    /\ wpc[w] = "executing"
    /\ Outcome(w, "record", IF executed THEN "completed" ELSE "failed")
    /\ FinishClaim(Current(w), IF executed THEN "executed" ELSE "refused")
    /\ effects' = [effects EXCEPT ![Current(w)] = IF executed THEN @ + 1 ELSE @]
    /\ UNCHANGED <<setting, api, row, sqs, review, evaluated>>

\* The action is too big to be executed by itself: the call commits a request
\* for approval and returns executed=False, which the handler takes for a failure.
ToolHolds(w) ==
    /\ wpc[w] = "executing"
    /\ Outcome(w, "record", "failed")
    /\ FinishClaim(Current(w), "refused")
    /\ review' = [review EXCEPT ![Current(w)] = "open"]
    /\ UNCHANGED <<setting, api, row, sqs, evaluated, effects>>

\* ToolFrameworkError: the request can never succeed, and nothing was written.
ToolRejects(w) ==
    /\ wpc[w] = "executing"
    /\ Outcome(w, "reject", "failed")
    /\ FinishClaim(Current(w), "failed")
    /\ UNCHANGED <<setting, api, row, sqs, review, evaluated, effects>>

\* What the tool call has committed when it is cut short: nothing, its change, or
\* its request for approval.
CutShort(k) ==
    \/ UNCHANGED <<review, effects>>
    \/ effects' = [effects EXCEPT ![k] = @ + 1] /\ UNCHANGED review
    \/ review' = [review EXCEPT ![k] = "open"] /\ UNCHANGED effects

\* Any other exception: the row is left in processing and the message is not
\* deleted.
ToolFails(w) ==
    /\ "transient" \in Faults
    /\ wpc[w] = "executing"
    /\ CutShort(Current(w))
    /\ FinishClaim(Current(w), "failed")
    /\ NextMessage(w)
    /\ UNCHANGED <<setting, api, row, sqs, evaluated>>

\* Mutant: the tool framework's own status is written to the row.
RecordClaimStatus(w) ==
    /\ wpc[w] = "record"
    /\ row' = [row EXCEPT ![Current(w)] = claim[Current(w)]]
    /\ Goto(w, "evaluate")
    /\ UNCHANGED <<setting, api, sqs, claim, review, evaluated, effects>>

\* A request that can never succeed is failed, and not evaluated.
RecordFailure(w) ==
    /\ wpc[w] = "reject"
    /\ row' = [row EXCEPT ![Current(w)] = "failed"]
    /\ Handled(w)
    /\ UNCHANGED <<setting, api, sqs, claim, review, evaluated, effects>>

\* Step 5: the outcome replaces whatever the row says.
RecordOutcome(w) ==
    /\ wpc[w] = "record"
    /\ row' = [row EXCEPT ![Current(w)] = outcome[w]]
    /\ Goto(w, "evaluate")
    /\ UNCHANGED <<setting, api, sqs, claim, review, evaluated, effects>>

\* The evaluation record has an identity of its own, so a second attempt at
\* the same request adds a second record; whatever goes wrong is swallowed.
RecordEvaluation(w) ==
    /\ wpc[w] = "evaluate"
    /\ \/ evaluated' = [evaluated EXCEPT ![Current(w)] = Append(@, outcome[w])]
       \/ "transient" \in Faults /\ UNCHANGED evaluated
    /\ Handled(w)
    /\ UNCHANGED <<setting, api, row, sqs, claim, review, effects>>

\* A transaction of the handler itself raises: the loop keeps the message.
HandlerRaises(w) ==
    /\ "transient" \in Faults
    /\ wpc[w] \in {"read", "mark", "execute", "reject", "record"}
    /\ NextMessage(w)
    /\ UNCHANGED <<setting, api, row, sqs, claim, review, evaluated, effects>>

DeleteMessage(w) ==
    /\ wpc[w] = "delete"
    /\ receiver[Current(w)] = w
    /\ queue' = Without(queue, Current(w))
    /\ receiver' = [receiver EXCEPT ![Current(w)] = None]
    /\ NextMessage(w)
    /\ UNCHANGED <<setting, api, row, dlq, receives, claim, review, evaluated, effects>>

\* The worker process is gone: its batch is forgotten, its transactions roll
\* back, and ECS starts another one.
Restarted(w) ==
    /\ wpc' = [wpc EXCEPT ![w] = "idle"]
    /\ batch' = [batch EXCEPT ![w] = <<>>]
    /\ outcome' = [outcome EXCEPT ![w] = None]

\* The receipt handle expired: SQS either ignores the call or refuses it, and
\* the loop does not catch that.
DeleteExpired(w) ==
    /\ wpc[w] = "delete"
    /\ receiver[Current(w)] # w
    /\ NextMessage(w) \/ Restarted(w)
    /\ UNCHANGED <<setting, api, row, sqs, claim, review, evaluated, effects>>

Crash(w) ==
    /\ "crash" \in Faults
    /\ wpc[w] # "idle"
    /\ Restarted(w)
    /\ IF wpc[w] = "executing" THEN CutShort(Current(w)) ELSE UNCHANGED <<review, effects>>
    /\ UNCHANGED <<setting, api, row, sqs, claim, evaluated>>

(***************************************************************************)
(* The reviewer, who works outside of the queue.                           *)
(***************************************************************************)
\* Mutant: the request stays open after the approved call.
ReviewStaysOpen(k, written) ==
    /\ review[k] = "open"
    /\ effects' = [effects EXCEPT ![k] = IF written THEN @ + 1 ELSE @]
    /\ UNCHANGED <<setting, api, row, sqs, worker, claim, review, evaluated>>

\* resolve_approval approves the request, and execute_approved_tool_call claims
\* the decision once and writes the change; or it is rejected, or the call fails
\* with the decision claimed.  A request that is approved while the resource is
\* busy stays open.  Nobody touches the row of the queue.
Review(k, written) ==
    /\ review[k] = "open"
    /\ review' = [review EXCEPT ![k] = "closed"]
    /\ effects' = [effects EXCEPT ![k] = IF written THEN @ + 1 ELSE @]
    /\ UNCHANGED <<setting, api, row, sqs, worker, claim, evaluated>>

(***************************************************************************)
(* Specification.                                                          *)
(***************************************************************************)
ApiStep(a) == InsertRow(a) \/ InsertConflict(a) \/ Publish(a)

WorkerStep(w) ==
    \/ ReadRow(w) \/ MarkProcessing(w) \/ GuardRefuses(w)
    \/ ClaimKey(w) \/ ClaimTaken(w)
    \/ \E executed \in BOOLEAN : ToolReturns(w, executed)
    \/ ToolHolds(w) \/ ToolRejects(w)
    \/ RecordFailure(w) \/ RecordOutcome(w) \/ RecordEvaluation(w)
    \/ DeleteMessage(w) \/ DeleteExpired(w)

Next ==
    \/ \E a \in Clients :
          ApiStep(a) \/ PublishFails(a) \/ \E k \in Sends[a] : Submit(a, k)
    \/ \E w \in Workers :
          \/ Receive(w) \/ WorkerStep(w) \/ HandlerRaises(w) \/ ToolFails(w)
          \/ Crash(w) \/ VisibilityTimeout(w)
    \/ \E k \in Keys :
          Redrive(k) \/ \E written \in BOOLEAN : Review(k, written)

Spec == Init /\ [][Next]_vars

\* Handlers run to their end, some worker polls, and SQS makes messages visible
\* again and redrives them.
FairSpec ==
    /\ Spec
    /\ \A a \in Clients : WF_vars(ApiStep(a))
    /\ \A w \in Workers : WF_vars(WorkerStep(w))
    /\ WF_vars(\E w \in Workers : Receive(w))
    /\ \A w \in Workers : WF_vars(VisibilityTimeout(w))
    /\ \A k \in Keys : WF_vars(Redrive(k))

(***************************************************************************)
(* Properties.                                                             *)
(***************************************************************************)

\* Every variable keeps its type; a message is queued once.
TypeOK ==
    /\ covers \in Coverage /\ forbidden \in ForbiddenSets
    /\ apc \in [Clients -> {"idle", "insert", "publish"}]
    /\ akey \in [Clients -> Keys \cup {None}]
    /\ row \in [Keys -> {"none", "pending", "processing"} \cup Settled]
    /\ queue \in Seq(Keys) /\ IsInjective(queue)
    /\ dlq \subseteq Keys
    /\ receiver \in [Keys -> Workers \cup {None}]
    /\ receives \in [Keys -> 0..MaxReceive]
    /\ wpc \in [Workers -> {"idle", "read", "mark", "execute", "executing",
                        "reject", "record", "evaluate", "delete"}]
    /\ batch \in [Workers -> Seq(Keys)]
    /\ outcome \in [Workers -> Settled \cup {None}]
    /\ claim \in [Keys -> {"none", "in_progress", "executed", "refused", "failed"}]
    /\ review \in [Keys -> {"none", "open", "closed"}]
    /\ evaluated \in [Keys -> Seq(Settled)]
    /\ effects \in [Keys -> Nat]

\* The status a client reads: whether a worker has begun is left out.
Told(status) ==
    IF status = "none" THEN "unknown" ELSE IF status \in Settled THEN status ELSE "open"
Seen == [k \in Keys |-> Told(row[k])]

\* What a client that polls its request may see, and what was done to the
\* restaurant for it, whatever is redelivered, lost or retried: one change at
\* most, by the worker or by the call a reviewer approved and never by both;
\* "completed" only of a change that the worker wrote; and, while no message is
\* ever held by two workers, one final answer, which is "failed" only of a
\* request that changed nothing yet or that was put to a reviewer.  Such a
\* request is "failed" from the start (handler.py: completed only when the result
\* says executed), stays so, and is executed when the reviewer approves it.
Requests == INSTANCE ActionRequests WITH
    exclusive <- covers,
    answer <- Seen,
    approval <- review,
    writes <- effects
ImplementsRequests == Requests!Spec

\* "Published AFTER the DB commit ... so a worker can never receive a message
\* for a row that isn't durably there yet".
MessagesHaveRows == \A k \in ToSet(queue) : row[k] # "none"

\* "MessageGroupId=tenant_id serializes each tenant's own work": one worker at
\* a time is between reading a request of the tenant and recording its outcome,
\* as long as the visibility timeout covers a batch.
Busy == {"mark", "execute", "executing", "reject", "record", "evaluate"}
TenantWorkIsSerialized ==
    covers => Cardinality({w \in Workers : wpc[w] \in Busy}) <= 1

\* The evaluation records, from which the release gate computes its success
\* rate, tell of a success only when the change was written, and count a request
\* once unless two workers held it.
EvaluationsMatch ==
    \A k \in Keys :
        /\ "completed" \in ToSet(evaluated[k]) => effects[k] = 1
        /\ covers => Len(evaluated[k]) <= 1

\* No message stays forever, although handlers raise and workers crash: it ends
\* in the dead-letter queue, or it is deleted after a worker took the request up.
QueueDrains ==
    \A k \in Keys :
        k \in ToSet(queue) ~> k \in dlq \/ (k \notin ToSet(queue) /\ row[k] # "pending")

(***************************************************************************)
(* What the repository says and the code does not do.                      *)
(***************************************************************************)

\* handler.py: "True -> delete the message (handled: succeeded, or failed in a
\* way that will never succeed on retry)"; "False -> do NOT delete; let SQS
\* redeliver ... eventually landing in the DLQ".
DeletedMeansSettled ==
    \A k \in Keys :
        receives[k] > 0 /\ k \notin ToSet(queue) \cup dlq => row[k] \in Settled
=============================================================================
