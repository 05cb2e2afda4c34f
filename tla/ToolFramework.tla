--------------------------- MODULE ToolFramework ---------------------------
(***************************************************************************)
(* The execution boundary of one tenant: execute_tool_call_idempotent,      *)
(* execute_tool_call and execute_approved_tool_call                         *)
(* (Component_4/tool_framework.py) with everything they commit: the         *)
(* idempotency_keys table (Component_4/idempotency.py), the decisions table *)
(* (Component_2/decision_engine.py), the approval_requests table            *)
(* (Component_6/approval_workflow.py), the human step resolve_approval      *)
(* (orchestrator.py), the execution log and the value the appended event    *)
(* writes.                                                                  *)
(*                                                                         *)
(* Every database transaction is one action, because get_db_context commits *)
(* each block on its own.  Callers are worker processes and orchestrators   *)
(* running concurrently.  A call may raise at any transaction and a process *)
(* may crash between any two; PostgreSQL then drops its advisory lock.      *)
(*                                                                         *)
(* Ghost state, which no code reads: decision[d].key and applied[d].        *)
(***************************************************************************)
EXTENDS ActionPolicy, FiniteSets

CONSTANTS
    Callers,        \* processes that call the framework
    Keys,           \* idempotency keys
    Decisions,      \* primary keys of decision rows
    MenuItems, Ingredients, Shifts,    \* what a request can target
    Requests,       \* (action_type, payload) pairs that callers submit
    InitValue,      \* price of each item and ingredient, headcount of each shift
    MayFail,        \* whether transactions may raise and processes crash
    None

Targets == MenuItems \cup Ingredients \cup Shifts

ASSUME RequestsAssumption ==
    /\ Requests \subseteq [type: ActionTypes, target: Targets, ok: BOOLEAN, new: Int]
    /\ \A r \in Requests :
          CASE r.type = "supplier_switch" -> r.target \in Ingredients
            [] r.type = "staffing_change" -> r.target \in Shifts
            [] OTHER                      -> r.target \in MenuItems

ASSUME TargetsAssumption ==
    /\ MenuItems \cap Ingredients = {}
    /\ InitValue \in [Targets -> Nat]
    /\ MayFail \in BOOLEAN

ASSUME NoneAssumption ==
    None \notin Callers \cup Keys \cup Decisions \cup Requests \cup STRING

VARIABLES
    pc, path,       \* where each call is, and which entry point it came through
    key, req, dec,  \* its idempotency key, request and decision
    res,            \* the result it is about to record or return
    holds,          \* callers whose guard session holds the advisory lock
    idem,           \* idempotency_keys
    decision,       \* decisions
    approval,       \* approval_requests, by decision
    execLog,        \* tool_execution_log
    value,          \* current_price / headcount projection
    applied         \* events appended for each decision (ghost)

vars == <<pc, path, key, req, dec, res, holds, idem, decision, approval,
          execLog, value, applied>>
local == <<path, key, req, dec, res>>

Locations == {"idle", "claim", "abandon", "propose", "lock", "critique",
              "request", "execute", "observe", "apply", "log", "complete",
              "fail", "return", "revalidate", "approve", "reject"}
Results == {"executed", "held_low_confidence", "blocked_by_critic",
            "pending_human_approval", "concurrent_change_in_progress",
            "unsupported_action", "request_in_progress",
            "previous_attempt_incomplete", "abandoned"}

NoClaim == [status |-> "none", req |-> None, result |-> None, dec |-> None, stale |-> FALSE]
NoDecision == [status |-> "none", req |-> None, key |-> None, confidence |-> 0]

Init ==
    /\ pc = [c \in Callers |-> "idle"]
    /\ path = [c \in Callers |-> "tool"]
    /\ key = [c \in Callers |-> None]
    /\ req = [c \in Callers |-> None]
    /\ dec = [c \in Callers |-> None]
    /\ res = [c \in Callers |-> None]
    /\ holds = {}
    /\ idem = [k \in Keys |-> NoClaim]
    /\ decision = [d \in Decisions |-> NoDecision]
    /\ approval = [d \in Decisions |-> "none"]
    /\ execLog = {}
    /\ value = InitValue
    /\ applied = [d \in Decisions |-> 0]

(***************************************************************************)
(* Control shared by the actions.                                          *)
(***************************************************************************)
Goto(c, l) == pc' = [pc EXCEPT ![c] = l]

\* The call ends: its stack frame is gone.
Forget(c) ==
    /\ Goto(c, "idle")
    /\ path' = [path EXCEPT ![c] = "tool"]
    /\ key' = [key EXCEPT ![c] = None]
    /\ req' = [req EXCEPT ![c] = None]
    /\ dec' = [dec EXCEPT ![c] = None]
    /\ res' = [res EXCEPT ![c] = None]

\* An exception leaves the block: the lock's transaction rolls back, and the
\* idempotent wrapper catches what execute_tool_call raised.
Raised(c) ==
    /\ holds' = holds \ {c}
    /\ IF path[c] = "tool" /\ pc[c] \notin {"claim", "abandon", "complete", "fail"}
       THEN Goto(c, "fail") /\ UNCHANGED local
       ELSE Forget(c)

\* The call leaves the gates with this result, which is logged next.
LogResult(c, result) ==
    /\ Goto(c, "log")
    /\ res' = [res EXCEPT ![c] = result]
    /\ UNCHANGED <<path, key, req>>

\* Mutant: the fingerprint is not compared.
AnswerAnyRequest(c, result, d) ==
    /\ Goto(c, "return")
    /\ res' = [res EXCEPT ![c] = result]
    /\ dec' = [dec EXCEPT ![c] = d]
    /\ UNCHANGED <<path, key, req>>

\* claim() answers without owning the key, or raises when the key was used
\* for another request.
Answer(c, result, d) ==
    IF idem[key[c]].req # req[c]
    THEN Forget(c)
    ELSE /\ Goto(c, "return")
         /\ res' = [res EXCEPT ![c] = result]
         /\ dec' = [dec EXCEPT ![c] = d]
         /\ UNCHANGED <<path, key, req>>

(***************************************************************************)
(* execute_tool_call_idempotent: the claim.                                *)
(***************************************************************************)
Start(c, k, r) ==
    /\ pc[c] = "idle"
    /\ Goto(c, "claim")
    /\ key' = [key EXCEPT ![c] = k]
    /\ req' = [req EXCEPT ![c] = r]
    /\ UNCHANGED <<path, dec, res, holds, idem, decision, approval, execLog, value, applied>>

\* Mutant: the refusal of a menu addition is returned without being logged.
ClaimInsertUnlogged(c) ==
    /\ pc[c] = "claim"
    /\ idem[key[c]].status = "none"
    /\ idem' = [idem EXCEPT ![key[c]] =
                  [status |-> "in_progress", req |-> req[c], result |-> None,
                   dec |-> None, stale |-> FALSE]]
    /\ IF req[c].type = "menu_add"
       THEN /\ Goto(c, "complete")
            /\ res' = [res EXCEPT ![c] = "unsupported_action"]
            /\ UNCHANGED <<path, key, req, dec>>
       ELSE Goto(c, "propose") /\ UNCHANGED local
    /\ UNCHANGED <<holds, decision, approval, execLog, value, applied>>

\* Mutant: a failed key may be claimed again.
ClaimInsertRetriesFailed(c) ==
    /\ pc[c] = "claim"
    /\ idem[key[c]].status \in {"none", "failed"}
    /\ idem' = [idem EXCEPT ![key[c]] =
                  [status |-> "in_progress", req |-> req[c], result |-> None,
                   dec |-> None, stale |-> FALSE]]
    /\ Goto(c, "propose")
    /\ UNCHANGED <<local, holds, decision, approval, execLog, value, applied>>

\* The insert wins: the caller owns the key.  Adding a menu item is refused
\* before anything is proposed.
ClaimInsert(c) ==
    /\ pc[c] = "claim"
    /\ idem[key[c]].status = "none"
    /\ idem' = [idem EXCEPT ![key[c]] =
                  [status |-> "in_progress", req |-> req[c], result |-> None,
                   dec |-> None, stale |-> FALSE]]
    /\ IF req[c].type = "menu_add"
       THEN LogResult(c, "unsupported_action") /\ UNCHANGED dec
       ELSE Goto(c, "propose") /\ UNCHANGED local
    /\ UNCHANGED <<holds, decision, approval, execLog, value, applied>>

\* The row exists.  A stale claim is read here and overwritten in Abandon.
ClaimConflict(c) ==
    LET row == idem[key[c]]
    IN  /\ pc[c] = "claim"
        /\ row.status # "none"
        /\ CASE row.status = "completed" -> Answer(c, row.result, row.dec)
             [] row.status = "failed" -> Answer(c, "previous_attempt_incomplete", None)
             [] row.status = "in_progress" /\ row.stale -> Goto(c, "abandon") /\ UNCHANGED local
             [] OTHER -> Answer(c, "request_in_progress", None)
        /\ UNCHANGED <<holds, idem, decision, approval, execLog, value, applied>>

\* The ORM writes the row by primary key, whatever its status is by now.
Abandon(c) ==
    /\ pc[c] = "abandon"
    /\ idem' = [idem EXCEPT ![key[c]].status = "failed", ![key[c]].result = "abandoned"]
    /\ Answer(c, "previous_attempt_incomplete", None)
    /\ UNCHANGED <<holds, decision, approval, execLog, value, applied>>

(***************************************************************************)
(* execute_tool_call: proposal, lock, critic, risk.                        *)
(***************************************************************************)

\* What simulate() accepts; anything else raises SimulatorInputError.
Simulatable(r) ==
    r.type \in {"price_change", "supplier_switch"} => r.new > 0 /\ value[r.target] > 0

ProposeAndSimulate(c) ==
    /\ pc[c] = "propose"
    /\ Simulatable(req[c])
    /\ \E d \in Decisions,
          conf \in Confidences(req[c].type, req[c].new, value[req[c].target]) :
          /\ decision[d].status = "none"
          /\ decision' = [decision EXCEPT ![d] =
                            [status |-> IF Cleared(conf) THEN "simulated" ELSE "held",
                             req |-> req[c], key |-> key[c], confidence |-> conf]]
          /\ dec' = [dec EXCEPT ![c] = d]
          /\ IF Cleared(conf)
             THEN Goto(c, "lock") /\ UNCHANGED <<path, key, req, res>>
             ELSE LogResult(c, "held_low_confidence")
    /\ UNCHANGED <<holds, idem, approval, execLog, value, applied>>

ProposalRefused(c) ==
    /\ pc[c] = "propose"
    /\ ~Simulatable(req[c])
    /\ Raised(c)
    /\ UNCHANGED <<idem, decision, approval, execLog, value, applied>>

\* _serialization_key
SerializationKey(r) ==
    <<IF r.type \in {"menu_add", "menu_remove"} THEN "menu_swap" ELSE r.type,
      IF r.type = "staffing_change" THEN None ELSE r.target>>

\* Mutant: the advisory lock is not taken.
LockAlwaysFree(c) == TRUE

LockFree(c) ==
    \A h \in holds : SerializationKey(req[h]) # SerializationKey(req[c])

\* An approved call goes straight to execution: no critic under the lock.
AcquireLock(c) ==
    /\ pc[c] = "lock"
    /\ LockFree(c)
    /\ holds' = holds \cup {c}
    /\ Goto(c, IF path[c] = "tool" THEN "critique" ELSE "execute")
    /\ UNCHANGED <<local, idem, decision, approval, execLog, value, applied>>

\* Mutant: no lock_timeout is set.
LockWaitsForever(c) == pc[c] = "lock" /\ FALSE

\* ToolBusyError: execute_tool_call turns it into a result, an approved call
\* lets it propagate.
LockTimeout(c) ==
    /\ pc[c] = "lock"
    /\ ~LockFree(c)
    /\ IF path[c] = "tool"
       THEN LogResult(c, "concurrent_change_in_progress") /\ UNCHANGED dec
       ELSE Forget(c)
    /\ UNCHANGED <<holds, idem, decision, approval, execLog, value, applied>>

Verdicts(r) == CriticVerdicts(r.type, r.ok, r.new, value[r.target])
Risk(r, d) ==
    ClassifyRisk(r.type, r.ok, r.new, value[r.target], decision[d].confidence)

Critique(c) ==
    /\ pc[c] = "critique"
    /\ \E approved \in Verdicts(req[c]) :
          IF ~approved
          THEN LogResult(c, "blocked_by_critic") /\ UNCHANGED dec
          ELSE /\ Goto(c, IF RequiresApproval(Risk(req[c], dec[c]))
                          THEN "request" ELSE "execute")
               /\ UNCHANGED local
    /\ UNCHANGED <<holds, idem, decision, approval, execLog, value, applied>>

\* ApprovalWorkflow.request: insert, or keep the existing row.
RequestApproval(c) ==
    /\ pc[c] = "request"
    /\ approval' = [approval EXCEPT ![dec[c]] = IF @ = "none" THEN "pending" ELSE @]
    /\ LogResult(c, "pending_human_approval")
    /\ UNCHANGED <<dec, holds, idem, decision, execLog, value, applied>>

(***************************************************************************)
(* execute_and_observe, _apply_state_change, _log.                         *)
(***************************************************************************)
\* Mutant: the state of the claimed decision is not checked.
ExecutableAnyState(d) == Cleared(decision[d].confidence)

Executable(d) == decision[d].status = "simulated" /\ Cleared(decision[d].confidence)

ClaimDecision(c) ==
    /\ pc[c] = "execute"
    /\ Executable(dec[c])
    /\ decision' = [decision EXCEPT ![dec[c]].status = "executed"]
    /\ Goto(c, "observe")
    /\ UNCHANGED <<local, holds, idem, approval, execLog, value, applied>>

ClaimDecisionRefused(c) ==
    /\ pc[c] = "execute"
    /\ ~Executable(dec[c])
    /\ Raised(c)
    /\ UNCHANGED <<idem, decision, approval, execLog, value, applied>>

\* Mutant: the change is already written while the outcome is observed.
EvaluateAndWrite(c) ==
    /\ pc[c] = "observe"
    /\ decision[dec[c]].status = "executed"
    /\ decision' = [decision EXCEPT ![dec[c]].status = "evaluated"]
    /\ value' = [value EXCEPT ![req[c].target] = NewValue(req[c], @)]
    /\ Goto(c, "apply")
    /\ UNCHANGED <<local, holds, idem, approval, execLog, applied>>

Evaluate(c) ==
    /\ pc[c] = "observe"
    /\ decision[dec[c]].status = "executed"
    /\ decision' = [decision EXCEPT ![dec[c]].status = "evaluated"]
    /\ Goto(c, "apply")
    /\ UNCHANGED <<local, holds, idem, approval, execLog, value, applied>>

\* The staffing payload cannot be resolved to a negative headcount.
HeadcountResolvable(r) ==
    r.type = "staffing_change" => value[r.target] + r.new >= 0

\* execute_approved_tool_call leaves the locked block before it logs.
ApplyStateChange(c) ==
    /\ pc[c] = "apply"
    /\ HeadcountResolvable(req[c])
    /\ value' = [value EXCEPT ![req[c].target] = NewValue(req[c], @)]
    /\ applied' = [applied EXCEPT ![dec[c]] = @ + 1]
    /\ LogResult(c, "executed")
    /\ holds' = IF path[c] = "approved" THEN holds \ {c} ELSE holds
    /\ UNCHANGED <<dec, idem, decision, approval, execLog>>

\* The change cannot be turned into an event: a supplier change finds no SKU of
\* the ingredient, or the headcount would be negative.
ApplyRefused(c) ==
    /\ pc[c] = "apply"
    /\ req[c].type = "supplier_switch" \/ ~HeadcountResolvable(req[c])
    /\ Raised(c)
    /\ UNCHANGED <<idem, decision, approval, execLog, value, applied>>

WriteLog(c) ==
    /\ pc[c] = "log"
    /\ execLog' = execLog \cup {[req |-> req[c], dec |-> dec[c], res |-> res[c]]}
    /\ holds' = holds \ {c}
    /\ Goto(c, IF path[c] = "tool" THEN "complete" ELSE "return")
    /\ UNCHANGED <<local, idem, decision, approval, value, applied>>

(***************************************************************************)
(* The end of the idempotent wrapper.  _finish updates in_progress rows     *)
(* only.                                                                    *)
(***************************************************************************)
Finish(c, status, result, d) ==
    idem' = [idem EXCEPT ![key[c]] =
               IF @.status = "in_progress"
               THEN [@ EXCEPT !.status = status, !.result = result, !.dec = d]
               ELSE @]

Complete(c) ==
    /\ pc[c] = "complete"
    /\ Finish(c, "completed", res[c], dec[c])
    /\ Goto(c, "return")
    /\ UNCHANGED <<local, holds, decision, approval, execLog, value, applied>>

Fail(c) ==
    /\ pc[c] = "fail"
    /\ Finish(c, "failed", None, None)
    /\ Forget(c)
    /\ UNCHANGED <<holds, decision, approval, execLog, value, applied>>

Return(c) ==
    /\ pc[c] = "return"
    /\ Forget(c)
    /\ UNCHANGED <<holds, idem, decision, approval, execLog, value, applied>>

(***************************************************************************)
(* resolve_approval and execute_approved_tool_call.                        *)
(***************************************************************************)
EnterApproved(c, d, l) ==
    /\ pc[c] = "idle"
    /\ Goto(c, l)
    /\ path' = [path EXCEPT ![c] = "approved"]
    /\ dec' = [dec EXCEPT ![c] = d]
    /\ req' = [req EXCEPT ![c] = decision[d].req]
    /\ UNCHANGED <<key, res, holds, idem, decision, approval, execLog, value, applied>>

\* The reviewer's call found the request pending.
ResolveApproval(c, d, approved) ==
    /\ approval[d] = "pending"
    /\ EnterApproved(c, d, IF approved THEN "revalidate" ELSE "reject")

CallApproved(c, d) ==
    /\ approval[d] = "approved"
    /\ EnterApproved(c, d, "lock")

\* _stale_approval_reason: no lock is held here.
Revalidate(c) ==
    /\ pc[c] = "revalidate"
    /\ \E approved \in Verdicts(req[c]) :
          IF approved THEN Goto(c, "approve") /\ UNCHANGED local ELSE Forget(c)
    /\ UNCHANGED <<holds, idem, decision, approval, execLog, value, applied>>

\* Mutant: the update does not require the request to be pending.
ResolveAnyStatus(c) ==
    /\ pc[c] \in {"approve", "reject"}
    /\ approval' = [approval EXCEPT ![dec[c]] =
                      IF pc[c] = "approve" THEN "approved" ELSE "rejected"]
    /\ IF pc[c] = "approve" THEN Goto(c, "lock") /\ UNCHANGED local ELSE Forget(c)
    /\ UNCHANGED <<holds, idem, decision, execLog, value, applied>>

\* ApprovalWorkflow.resolve: compare-and-set on pending; the loser raises.
Resolve(c) ==
    /\ pc[c] \in {"approve", "reject"}
    /\ approval[dec[c]] = "pending"
    /\ approval' = [approval EXCEPT ![dec[c]] =
                      IF pc[c] = "approve" THEN "approved" ELSE "rejected"]
    /\ IF pc[c] = "approve" THEN Goto(c, "lock") /\ UNCHANGED local ELSE Forget(c)
    /\ UNCHANGED <<holds, idem, decision, execLog, value, applied>>

ResolveLost(c) ==
    /\ pc[c] \in {"approve", "reject"}
    /\ approval[dec[c]] # "pending"
    /\ Forget(c)
    /\ UNCHANGED <<holds, idem, decision, approval, execLog, value, applied>>

(***************************************************************************)
(* Failures and time.                                                      *)
(***************************************************************************)

\* The next transaction of the call raises and rolls back.  Raised at "fail"
\* is the error that fail() swallows.
Raise(c) ==
    /\ MayFail
    /\ pc[c] \notin {"idle", "return"}
    /\ Raised(c)
    /\ UNCHANGED <<idem, decision, approval, execLog, value, applied>>

Crash(c) ==
    /\ MayFail
    /\ pc[c] # "idle"
    /\ Forget(c)
    /\ holds' = holds \ {c}
    /\ UNCHANGED <<idem, decision, approval, execLog, value, applied>>

\* A claim's age passes STALE_AFTER, whether its owner is dead or only slow.
Age(k) ==
    /\ idem[k].status = "in_progress"
    /\ ~idem[k].stale
    /\ idem' = [idem EXCEPT ![k].stale = TRUE]
    /\ UNCHANGED <<pc, local, holds, decision, approval, execLog, value, applied>>

(***************************************************************************)
(* Specification.                                                          *)
(***************************************************************************)
Step(c) ==
    \/ ClaimInsert(c) \/ ClaimConflict(c) \/ Abandon(c)
    \/ ProposeAndSimulate(c) \/ ProposalRefused(c)
    \/ AcquireLock(c) \/ LockTimeout(c)
    \/ Critique(c) \/ RequestApproval(c)
    \/ ClaimDecision(c) \/ ClaimDecisionRefused(c) \/ Evaluate(c)
    \/ ApplyStateChange(c) \/ ApplyRefused(c) \/ WriteLog(c)
    \/ Complete(c) \/ Fail(c) \/ Return(c)
    \/ Revalidate(c) \/ Resolve(c) \/ ResolveLost(c)

Enter(c) ==
    \/ \E k \in Keys, r \in Requests : Start(c, k, r)
    \/ \E d \in Decisions :
          \/ \E approved \in BOOLEAN : ResolveApproval(c, d, approved)
          \/ CallApproved(c, d)

Next ==
    \/ \E c \in Callers : Step(c) \/ Enter(c) \/ Raise(c) \/ Crash(c)
    \/ \E k \in Keys : Age(k)

Spec == Init /\ [][Next]_vars

\* A process that is running takes its next step; nobody is obliged to call.
FairSpec == Spec /\ \A c \in Callers : WF_vars(Step(c))

(***************************************************************************)
(* Properties.                                                             *)
(***************************************************************************)
Claims == [status: {"none", "in_progress", "completed", "failed"},
           req: Requests \cup {None}, result: Results \cup {None},
           dec: Decisions \cup {None}, stale: BOOLEAN]
DecisionRows == [status: {"none", "held", "simulated", "executed", "evaluated"},
                 req: Requests \cup {None}, key: Keys \cup {None}, confidence: Int]

\* Every variable keeps its type.
TypeOK ==
    /\ pc \in [Callers -> Locations]
    /\ path \in [Callers -> {"tool", "approved"}]
    /\ key \in [Callers -> Keys \cup {None}]
    /\ req \in [Callers -> Requests \cup {None}]
    /\ dec \in [Callers -> Decisions \cup {None}]
    /\ res \in [Callers -> Results \cup {None}]
    /\ holds \subseteq Callers
    /\ idem \in [Keys -> Claims]
    /\ decision \in [Decisions -> DecisionRows]
    /\ approval \in [Decisions -> {"none", "pending", "approved", "rejected"}]
    /\ execLog \subseteq [req: Requests, dec: Decisions \cup {None}, res: Results]
    /\ value \in [Targets -> Nat]
    /\ applied \in [Decisions -> Nat]

\* "Claim-first idempotent wrapper; safe across workers": however calls with
\* one key are retried, interleaved, abandoned or crash, and whoever approves
\* the decision meanwhile, at most one state change is ever written for it.
AtMostOncePerKey ==
    /\ \A d \in Decisions : applied[d] <= 1
    /\ \A d1, d2 \in Decisions :
          /\ applied[d1] > 0
          /\ applied[d2] > 0
          /\ decision[d1].key = decision[d2].key
          => d1 = d2

\* A decision that execute_and_observe claimed had the authority to run: it
\* cleared the confidence gate, and either a human approved it or nobody was
\* asked because it is a price change of autonomous confidence.  So rejected
\* and pending requests never run, and only prices and supplier costs change.
ExecutedWithAuthority ==
    \A d \in Decisions :
        decision[d].status \in {"executed", "evaluated"} \/ applied[d] > 0 =>
            /\ Cleared(decision[d].confidence)
            /\ \/ /\ approval[d] = "approved"
                  /\ decision[d].req.type \in {"price_change", "supplier_switch"}
               \/ /\ approval[d] = "none"
                  /\ decision[d].req.type = "price_change"
                  /\ decision[d].confidence >= MIN_CONFIDENCE_FOR_AUTONOMOUS_ACTION

\* What a call returns is true of the tables, also when it is a replay of a
\* stored result: "executed" names a decision made for this very key and
\* request whose change was written, "pending" names an existing approval
\* request, and a refusal names a decision that changed nothing.
AnswersAreTruthful ==
    \A c \in Callers : pc[c] = "return" =>
        /\ res[c] = "executed" =>
              /\ dec[c] \in Decisions
              /\ applied[dec[c]] = 1
              /\ decision[dec[c]].req = req[c]
              /\ path[c] = "tool" => decision[dec[c]].key = key[c]
        /\ res[c] = "pending_human_approval" =>
              dec[c] \in Decisions /\ approval[dec[c]] # "none"
        /\ res[c] \in {"held_low_confidence", "blocked_by_critic",
                       "concurrent_change_in_progress"} =>
              dec[c] \in Decisions /\ applied[dec[c]] = 0

\* Results that execute_tool_call or execute_approved_tool_call produced, as
\* opposed to the two that claim() makes up.
ToolResults == Results \ {"request_in_progress", "previous_attempt_incomplete", "abandoned"}

\* "ToolExecutionLog entry either way", for calls that answer: the result a
\* caller gets, replayed or not, is in the execution log.
AnsweredCallsAreLogged ==
    \A c \in Callers :
        pc[c] = "return" /\ res[c] \in ToolResults =>
            [req |-> req[c], dec |-> dec[c], res |-> res[c]] \in execLog

\* No step moves a price or cost by more than the small-change limit unless it
\* carries out a decision a human approved.  The baseline is the value at the
\* moment of the write, not the one the simulator or the critic saw.
BigChangesAreApproved ==
    [][\A t \in MenuItems \cup Ingredients :
          100 * Abs(value'[t] - value[t]) > SMALL_PRICE_CHANGE_PCT * value[t] =>
              \E d \in Decisions :
                  /\ applied'[d] = applied[d] + 1
                  /\ decision[d].req.target = t
                  /\ approval[d] = "approved"]_vars

\* No call hangs: the advisory lock times out, so a call whose process keeps
\* running ends although other callers come and go forever.
CallsReturn == \A c \in Callers : pc[c] # "idle" ~> pc[c] = "idle"

\* The promise seen from outside: every key is bound to its first request and
\* the values change by carrying out bound requests, each at most once.
Ledger == INSTANCE ActionLedger WITH
    asked <- [k \in Keys |-> idem[k].req],
    done <- {k \in Keys : \E d \in Decisions : applied[d] > 0 /\ decision[d].key = k}

\* The whole framework (claims, decisions, approvals, locks, crashes) implements
\* the ledger.
ImplementsLedger == Ledger!Spec

(***************************************************************************)
(* What the repository says and the code does not do.                      *)
(***************************************************************************)

\* idempotency.py: "A claim that never completed (worker crashed) is treated as
\* abandoned": a completed claim is not.
CompletedClaimsAreKept ==
    [][\A k \in Keys : idem[k].status = "completed" => idem'[k] = idem[k]]_vars

\* resolve_approval: "Approve -> re-validate against live state -> execute
\* exactly once".
ApprovalLeadsToExecution ==
    \A d \in Decisions : approval[d] = "approved" ~> applied[d] = 1
=============================================================================
