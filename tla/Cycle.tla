------------------------------- MODULE Cycle -------------------------------
(***************************************************************************)
(* The operating loop of one tenant (orchestrator.py): run_cycle and        *)
(* _handle with the tenant's cycle lock, the per-target cooldown read from  *)
(* the execution log, the action cap, the error budget, and the idempotency *)
(* keys that a retry with the same cycle_id meets again.                    *)
(*                                                                         *)
(* The tool framework appears through what the loop can tell of it: the     *)
(* claim of the key, the decision, the log entry and the stored result are  *)
(* four commits, between which the call may raise or the process may die    *)
(* (ToolFramework has them in full).                                        *)
(*                                                                         *)
(* A target is an action type together with what it acts on.  A candidate   *)
(* is a target, one of its payloads, whether it is flagged for human review *)
(* and whether it scores above min_score.  What the detector, the reasoner  *)
(* and the simulator make of the state of the moment is a choice.           *)
(*                                                                         *)
(* Ghost state, which no code reads: changes, made, and who wrote a log     *)
(* entry and for which key.                                                 *)
(***************************************************************************)
EXTENDS Integers, Sequences, SequencesExt, FiniteSets

CONSTANTS
    Runners,        \* processes that run cycles
    CycleIds,
    Opportunities,
    Detections,     \* sequences of opportunities detect_opportunities may return
    Rankings,       \* ranked candidates each opportunity may be given
    Targets,        \* what workers and reviewers act on meanwhile
    Modes,          \* subset of {"propose", "simulate", "execute"}
    MaxOpportunities, MaxActions, MaxErrors,   \* arguments of run_cycle
    Cooldown,       \* in ticks of the clock
    MaxTime,        \* bound: the clock stops here
    MaxOthers,      \* bound: how often workers and reviewers execute meanwhile
    MayFail,        \* whether calls may raise and processes crash
    None

ASSUME CycleAssumption ==
    /\ Detections \subseteq Seq(Opportunities)
    /\ DOMAIN Rankings = Opportunities
    /\ Modes \subseteq {"propose", "simulate", "execute"}
    /\ MaxOpportunities \in Nat
    /\ MaxActions \in Nat
    /\ MaxErrors \in Nat
    /\ Cooldown \in Nat
    /\ MaxTime \in Nat
    /\ MaxOthers \in Nat
    /\ MayFail \in BOOLEAN
    /\ None \notin Runners

VARIABLES
    clock,
    holder,         \* the process whose session holds the cycle lock
    pc, cycle, mode,
    started,        \* `now` of each cycle
    todo,           \* opportunities it has not handled
    left, errors,   \* actions_left and errors
    chosen, result, \* the candidate it attempts and what the tool call decided
    idem,           \* idempotency_keys: status by key
    log,            \* entries of tool_execution_log that count for a cooldown
    changes,        \* how many state changes were written for each key (ghost)
    made            \* how many each running cycle has written (ghost)

vars == <<clock, holder, pc, cycle, mode, started, todo, left, errors, chosen,
          result, idem, log, changes, made>>
loop == <<holder, cycle, mode, started>>
tables == <<idem, log, changes>>

Init ==
    /\ clock = 0
    /\ holder = None
    /\ pc = [r \in Runners |-> "idle"]
    /\ cycle = [r \in Runners |-> None]
    /\ mode = [r \in Runners |-> None]
    /\ started = [r \in Runners |-> 0]
    /\ todo = [r \in Runners |-> <<>>]
    /\ left = [r \in Runners |-> 0]
    /\ errors = [r \in Runners |-> 0]
    /\ chosen = [r \in Runners |-> None]
    /\ result = [r \in Runners |-> None]
    /\ idem = <<>>
    /\ log = {}
    /\ changes = <<>>
    /\ made = [r \in Runners |-> 0]

Goto(r, l) == pc' = [pc EXCEPT ![r] = l]

(***************************************************************************)
(* run_cycle: the lock, preflight, detection.                              *)
(***************************************************************************)

\* The report is returned, or the process dies: the stack frame is gone.
Forget(r) ==
    /\ Goto(r, "idle")
    /\ cycle' = [cycle EXCEPT ![r] = None]
    /\ mode' = [mode EXCEPT ![r] = None]
    /\ started' = [started EXCEPT ![r] = 0]
    /\ todo' = [todo EXCEPT ![r] = <<>>]
    /\ left' = [left EXCEPT ![r] = 0]
    /\ errors' = [errors EXCEPT ![r] = 0]
    /\ chosen' = [chosen EXCEPT ![r] = None]
    /\ result' = [result EXCEPT ![r] = None]
    /\ made' = [made EXCEPT ![r] = 0]

Unlock(r) == holder' = IF holder = r THEN None ELSE holder

Start(r, id, md) ==
    /\ pc[r] = "idle"
    /\ Goto(r, "lock")
    /\ cycle' = [cycle EXCEPT ![r] = id]
    /\ mode' = [mode EXCEPT ![r] = md]
    /\ started' = [started EXCEPT ![r] = clock]
    /\ UNCHANGED <<clock, holder, todo, left, errors, chosen, result, tables, made>>

\* Mutant: the cycle goes on although the lock was not acquired.
TryLockIgnored(r) ==
    /\ pc[r] = "lock"
    /\ holder' = r
    /\ Goto(r, "detect")
    /\ UNCHANGED <<clock, cycle, mode, started, todo, left, errors, chosen, result, tables, made>>

\* pg_try_advisory_lock: a cycle that does not get the lock is skipped.
TryLock(r) ==
    /\ pc[r] = "lock"
    /\ IF holder = None
       THEN /\ holder' = r
            /\ Goto(r, "detect")
            /\ UNCHANGED <<cycle, mode, started, todo, left, errors, chosen, result, made>>
       ELSE Forget(r) /\ UNCHANGED holder
    /\ UNCHANGED <<clock, tables>>

\* Row-level security is not enforced (before the lock), the chain is corrupted,
\* the event store is unavailable, or detection or reasoning raised.
PreflightFails(r) ==
    /\ pc[r] \in {"lock", "detect"}
    /\ Forget(r)
    /\ Unlock(r)
    /\ UNCHANGED <<clock, tables>>

Detect(r) ==
    /\ pc[r] = "detect"
    /\ \E found \in Detections :
          todo' = [todo EXCEPT ![r] =
                     SubSeq(found, 1, IF Len(found) < MaxOpportunities
                                      THEN Len(found) ELSE MaxOpportunities)]
    /\ left' = [left EXCEPT ![r] = IF mode[r] = "execute" THEN MaxActions ELSE 0]
    /\ Goto(r, "loop")
    /\ UNCHANGED <<clock, loop, errors, chosen, result, tables, made>>

\* Mutant: the early return of an aborted cycle leaves the lock behind.
FinishAbortedLocked(r) ==
    /\ pc[r] = "loop"
    /\ todo[r] = <<>> \/ errors[r] >= MaxErrors
    /\ Forget(r)
    /\ IF errors[r] >= MaxErrors THEN UNCHANGED holder ELSE Unlock(r)
    /\ UNCHANGED <<clock, tables>>

\* Completed, or aborted when opportunities remain and the budget is used up.
Finish(r) ==
    /\ pc[r] = "loop"
    /\ todo[r] = <<>> \/ errors[r] >= MaxErrors
    /\ Forget(r)
    /\ Unlock(r)
    /\ UNCHANGED <<clock, tables>>

(***************************************************************************)
(* _handle.                                                                *)
(***************************************************************************)
Handling(r) == pc[r] = "loop" /\ todo[r] # <<>> /\ errors[r] < MaxErrors

\* The best viable candidate that is not flagged: flagged ones cannot be routed
\* to a reviewer, since the tool framework takes no require_approval_reason.
Best(ranking) ==
    LET open == SelectSeq(ranking, LAMBDA s : s.viable /\ ~s.flagged)
    IN  IF open = <<>> THEN None ELSE Head(open)

InCooldown(target, now) ==
    /\ Cooldown > 0
    /\ \E e \in log : e.target = target /\ e.at >= now - Cooldown

\* Mutant: the cap is compared one too late.
MayAttemptOneMore(r, s) ==
    /\ s # None
    /\ mode[r] = "execute"
    /\ ~InCooldown(s.target, started[r])
    /\ left[r] >= 0

\* Everything that _handle checks before it acts.
MayAttempt(r, s) ==
    /\ s # None
    /\ mode[r] = "execute"
    /\ ~InCooldown(s.target, started[r])
    /\ left[r] > 0

\* The opportunity is done; the loop goes on with the next one.
NextOpportunity(r) ==
    /\ Goto(r, "loop")
    /\ todo' = [todo EXCEPT ![r] = Tail(@)]
    /\ chosen' = [chosen EXCEPT ![r] = None]
    /\ result' = [result EXCEPT ![r] = None]

Attempt(r) ==
    /\ Handling(r)
    /\ \E ranking \in Rankings[Head(todo[r])] :
          /\ MayAttempt(r, Best(ranking))
          /\ chosen' = [chosen EXCEPT ![r] = Best(ranking)]
    /\ Goto(r, "claim")
    /\ UNCHANGED <<clock, loop, todo, left, errors, result, tables, made>>

\* Nothing to do, proposed or simulated only, cooling down, or over the cap.
PassOver(r) ==
    /\ Handling(r)
    /\ \E ranking \in Rankings[Head(todo[r])] : ~MayAttempt(r, Best(ranking))
    /\ NextOpportunity(r)
    /\ UNCHANGED <<clock, loop, left, errors, tables, made>>

(***************************************************************************)
(* execute_tool_call_idempotent, as seen from here.                        *)
(***************************************************************************)
IdempotencyKey(r) == <<cycle[r], Head(todo[r]), chosen[r]>>

Claimed(k) == k \in DOMAIN idem

SetKey(k, status) == idem' = [x \in DOMAIN idem \cup {k} |-> IF x = k THEN status ELSE idem[x]]

\* _finish and the abandonment of a stale claim: rows in progress only.
FinishKey(k, status) == idem' = [idem EXCEPT ![k] = IF @ = "in_progress" THEN status ELSE @]

\* Mutant: a key whose first attempt did not complete is claimed again.
ClaimUnlessCompleted(r) ==
    /\ pc[r] = "claim"
    /\ Claimed(IdempotencyKey(r)) => idem[IdempotencyKey(r)] # "completed"
    /\ SetKey(IdempotencyKey(r), "in_progress")
    /\ Goto(r, "decide")
    /\ UNCHANGED <<clock, loop, todo, left, errors, chosen, result, log, changes, made>>

ClaimKey(r) ==
    /\ pc[r] = "claim"
    /\ ~Claimed(IdempotencyKey(r))
    /\ SetKey(IdempotencyKey(r), "in_progress")
    /\ Goto(r, "decide")
    /\ UNCHANGED <<clock, loop, todo, left, errors, chosen, result, log, changes, made>>

\* A retry meets its key: the stored result or a refusal (which abandons a claim
\* older than STALE_AFTER), either way a result, which counts against the cap.
ReplayKey(r) ==
    /\ pc[r] = "claim"
    /\ Claimed(IdempotencyKey(r))
    /\ UNCHANGED idem \/ FinishKey(IdempotencyKey(r), "failed")
    /\ left' = [left EXCEPT ![r] = @ - 1]
    /\ NextOpportunity(r)
    /\ UNCHANGED <<clock, loop, errors, log, changes, made>>

Refuse(r) ==
    /\ pc[r] = "decide"
    /\ result' = [result EXCEPT ![r] = "refused"]
    /\ Goto(r, "log")
    /\ UNCHANGED <<clock, loop, todo, left, errors, chosen, tables, made>>

HoldForReview(r) ==
    /\ pc[r] = "decide"
    /\ result' = [result EXCEPT ![r] = "pending"]
    /\ Goto(r, "log")
    /\ UNCHANGED <<clock, loop, todo, left, errors, chosen, tables, made>>

Change(r) ==
    /\ pc[r] = "decide"
    /\ result' = [result EXCEPT ![r] = "executed"]
    /\ changes' = [k \in DOMAIN idem |->
                     (IF k \in DOMAIN changes THEN changes[k] ELSE 0)
                     + IF k = IdempotencyKey(r) THEN 1 ELSE 0]
    /\ made' = [made EXCEPT ![r] = @ + 1]
    /\ Goto(r, "log")
    /\ UNCHANGED <<clock, loop, todo, left, errors, chosen, idem, log>>

\* Refused attempts are logged too, but no cooldown looks at them.
WriteLog(r) ==
    /\ pc[r] = "log"
    /\ log' = IF result[r] = "refused" THEN log
              ELSE log \cup {[target |-> chosen[r].target, at |-> clock, by |-> "cycle",
                              key |-> IdempotencyKey(r)]}
    /\ Goto(r, "complete")
    /\ UNCHANGED <<clock, loop, todo, left, errors, chosen, result, idem, changes, made>>

Complete(r) ==
    /\ pc[r] = "complete"
    /\ FinishKey(IdempotencyKey(r), "completed")
    /\ left' = [left EXCEPT ![r] = @ - 1]
    /\ NextOpportunity(r)
    /\ UNCHANGED <<clock, loop, errors, log, changes, made>>

(***************************************************************************)
(* Failures and time.                                                      *)
(***************************************************************************)

\* Mutant: failed opportunities are not counted.
HandleRaisesUncounted(r) ==
    /\ MayFail
    /\ Handling(r) \/ pc[r] \in {"claim", "decide", "log", "complete"}
    /\ UNCHANGED idem \/ (pc[r] \in {"decide", "log"} /\ FinishKey(IdempotencyKey(r), "failed"))
    /\ NextOpportunity(r)
    /\ UNCHANGED <<clock, loop, left, errors, log, changes, made>>

\* _handle raises at its next transaction: an error outcome without a result,
\* so the cap is not charged.  The wrapper tries to fail a key that it owns,
\* unless it was complete() that raised.
HandleRaises(r) ==
    /\ MayFail
    /\ Handling(r) \/ pc[r] \in {"claim", "decide", "log", "complete"}
    /\ UNCHANGED idem \/ (pc[r] \in {"decide", "log"} /\ FinishKey(IdempotencyKey(r), "failed"))
    /\ errors' = [errors EXCEPT ![r] = @ + 1]
    /\ NextOpportunity(r)
    /\ UNCHANGED <<clock, loop, left, log, changes, made>>

\* The process dies, and its database session with the lock.
Crash(r) ==
    /\ MayFail
    /\ pc[r] # "idle"
    /\ Forget(r)
    /\ Unlock(r)
    /\ UNCHANGED <<clock, tables>>

\* A worker or a reviewer executes on the target through the tool framework.
OthersAct(target) ==
    /\ Cardinality({e \in log : e.by = "other"}) < MaxOthers
    /\ log' = log \cup {[target |-> target, at |-> clock, by |-> "other", key |-> None]}
    /\ UNCHANGED <<clock, loop, pc, todo, left, errors, chosen, result, idem, changes, made>>

Tick ==
    /\ clock < MaxTime
    /\ clock' = clock + 1
    /\ UNCHANGED <<loop, pc, todo, left, errors, chosen, result, tables, made>>

(***************************************************************************)
(* Specification.                                                          *)
(***************************************************************************)
Step(r) ==
    \/ TryLock(r) \/ PreflightFails(r) \/ Detect(r) \/ Finish(r)
    \/ Attempt(r) \/ PassOver(r)
    \/ ClaimKey(r) \/ ReplayKey(r) \/ Refuse(r) \/ HoldForReview(r) \/ Change(r)
    \/ WriteLog(r) \/ Complete(r)

Next ==
    \/ \E r \in Runners :
          \/ Step(r) \/ HandleRaises(r) \/ Crash(r)
          \/ \E id \in CycleIds, md \in Modes : Start(r, id, md)
    \/ \E target \in Targets : OthersAct(target)
    \/ Tick

Spec == Init /\ [][Next]_vars

(***************************************************************************)
(* Properties.                                                             *)
(***************************************************************************)

\* Every variable keeps its type; the cap is never overdrawn.
TypeOK ==
    /\ clock \in 0..MaxTime
    /\ holder \in Runners \cup {None}
    /\ pc \in [Runners -> {"idle", "lock", "detect", "loop", "claim", "decide", "log", "complete"}]
    /\ cycle \in [Runners -> CycleIds \cup {None}]
    /\ mode \in [Runners -> Modes \cup {None}]
    /\ started \in [Runners -> 0..MaxTime]
    /\ todo \in [Runners -> Seq(Opportunities)]
    /\ left \in [Runners -> 0..MaxActions]
    /\ errors \in [Runners -> 0..MaxErrors]
    /\ result \in [Runners -> {None, "executed", "pending", "refused"}]
    /\ \A k \in DOMAIN idem : idem[k] \in {"in_progress", "completed", "failed"}
    /\ made \in [Runners -> Nat]

\* "Blast radius is bounded": whatever raises, every change a cycle has written
\* is charged to the action cap or to the error budget by the time it takes up
\* the next opportunity, so that one cycle never writes more than both allow
\* together, and none at all unless it runs in execute mode.
BlastRadiusIsBounded ==
    \A r \in Runners :
        /\ pc[r] = "loop" => made[r] + left[r] <= MaxActions + errors[r]
        /\ made[r] <= MaxActions + MaxErrors
        /\ mode[r] # "execute" => made[r] = 0

\* "Pass a stable cycle_id when retrying a cycle so idempotency keys line up and
\* nothing executes twice" (orchestrator.py), as far as it goes.  The key contains
\* the payload, so it lines up for a candidate and not for an opportunity: when a
\* retry detects the opportunity again, the price has changed, the candidate is
\* another one and has a key of its own.  Whatever raised or crashed before, no
\* candidate's change is written again; and the opportunity is executed again on
\* the target it was executed on only when the first change has no log entry (the
\* call was cut short between the two commits) or the cooldown is over.
RetriesRepeatNothingLogged ==
    [][\A r \in Runners, k \in DOMAIN changes :
          (made'[r] > made[r] /\ changes[k] > 0 /\ k[1] = cycle[r] /\ k[2] = Head(todo[r])) =>
              /\ k # IdempotencyKey(r)
              /\ Cooldown > 0 =>
                    \A e \in log :
                        (e.by = "cycle" /\ e.key = k /\ e.target = chosen[r].target) =>
                            e.at + Cooldown < clock]_vars

\* Two cycles never act on one target within the cooldown, once the first has
\* logged what it did: the lock makes the check and the change of one cycle
\* exclude those of another.  A cooldown of zero is none.
CooldownSeparatesCycles ==
    [][Cooldown > 0 =>
          \A r \in Runners :
             made'[r] > made[r] =>
                 \A e \in log :
                     e.by = "cycle" /\ e.target = chosen[r].target => e.at + Cooldown < clock]_vars

\* "One cycle at a time per tenant": the process inside the loop is the one that
\* holds the lock, and however a cycle ends (completed, aborted, skipped, failed
\* or crashed) it leaves no lock behind that would skip all later cycles.
LockFollowsTheCycle ==
    \A r \in Runners : holder = r <=> pc[r] \notin {"idle", "lock"}
=============================================================================
