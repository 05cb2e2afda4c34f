---------------------------- MODULE CycleProofs ----------------------------
(***************************************************************************)
(* For any number of processes, cycles, opportunities and failures: what a  *)
(* cycle may change, and what a retry, or another cycle, may change again.  *)
(***************************************************************************)
EXTENDS Cycle, TLAPS

(***************************************************************************)
(* The inductive invariant.                                                *)
(***************************************************************************)
Acting == {"claim", "decide", "log", "complete"}

\* A cycle that acts on an opportunity has it at the head of its list, runs in
\* execute mode and has budget left.
ActingIsAllowed ==
    \A r \in Runners : pc[r] \in Acting =>
        todo[r] # <<>> /\ left[r] > 0 /\ errors[r] < MaxErrors /\ mode[r] = "execute"

\* A change that is written is charged when its opportunity ends; until then one
\* is owed.
EveryChangeIsCharged ==
    \A r \in Runners :
        /\ pc[r] \in {"idle", "lock", "detect"} => made[r] = 0 /\ errors[r] = 0
        /\ pc[r] \in {"loop", "claim", "decide"} => made[r] + left[r] <= MaxActions + errors[r]
        /\ pc[r] \in {"log", "complete"} => made[r] + left[r] <= MaxActions + errors[r] + 1
        /\ mode[r] # "execute" => made[r] = 0

\* A key is claimed before its change and never again, and the change of a claim
\* that a cycle holds is not written yet when it decides.
ClaimedBeforeChanged ==
    /\ DOMAIN changes \subseteq DOMAIN idem
    /\ \A k \in DOMAIN changes : changes[k] \in 0..1
    /\ \A r \in Runners :
          /\ pc[r] \in {"decide", "log", "complete"} => IdempotencyKey(r) \in DOMAIN idem
          /\ pc[r] = "decide" /\ IdempotencyKey(r) \in DOMAIN changes =>
                changes[IdempotencyKey(r)] = 0

\* What a cycle read of the log before it acts stays true until it has acted.
CooledDown ==
    /\ DOMAIN chosen = Runners
    /\ \A e \in log : e.at \in Nat
    /\ \A r \in Runners :
          /\ started[r] <= clock
          /\ Cooldown > 0 /\ pc[r] \in {"claim", "decide"} =>
                \A e \in log : e.by = "cycle" /\ e.target = chosen[r].target =>
                    e.at + Cooldown < started[r]

CInv ==
    /\ TypeOK
    /\ LockFollowsTheCycle
    /\ ActingIsAllowed
    /\ EveryChangeIsCharged
    /\ ClaimedBeforeChanged
    /\ CooledDown

(***************************************************************************)
(* Frames.                                                                 *)
(***************************************************************************)
Locations == {"idle", "lock", "detect", "loop"} \cup Acting

\* The report is returned, or the process is gone.
LEMMA Forgotten ==
    ASSUME TypeOK, NEW r \in Runners, Forget(r)
    PROVE  /\ pc' \in [Runners -> Locations] /\ pc'[r] = "idle"
           /\ cycle' \in [Runners -> CycleIds \cup {None}]
           /\ mode' \in [Runners -> Modes \cup {None}]
           /\ started' \in [Runners -> 0..MaxTime] /\ started'[r] = 0
           /\ todo' \in [Runners -> Seq(Opportunities)]
           /\ left' \in [Runners -> 0..MaxActions]
           /\ errors' \in [Runners -> 0..MaxErrors] /\ errors'[r] = 0
           /\ result' \in [Runners -> {None, "executed", "pending", "refused"}]
           /\ made' \in [Runners -> Nat] /\ made'[r] = 0
           /\ DOMAIN chosen' = DOMAIN chosen
           /\ \A s \in Runners \ {r} :
                 /\ pc'[s] = pc[s] /\ cycle'[s] = cycle[s] /\ mode'[s] = mode[s]
                 /\ started'[s] = started[s] /\ todo'[s] = todo[s] /\ left'[s] = left[s]
                 /\ errors'[s] = errors[s] /\ made'[s] = made[s] /\ chosen'[s] = chosen[s]
<1> USE DEF TypeOK, Forget, Goto
<1>1. pc' \in [Runners -> Locations] /\ pc'[r] = "idle" /\ \A s \in Runners \ {r} : pc'[s] = pc[s]
  BY DEF Locations, Acting
<1>2. /\ cycle' \in [Runners -> CycleIds \cup {None}] /\ mode' \in [Runners -> Modes \cup {None}]
      /\ \A s \in Runners \ {r} : cycle'[s] = cycle[s] /\ mode'[s] = mode[s]
  OBVIOUS
<1>3. /\ started' \in [Runners -> 0..MaxTime] /\ started'[r] = 0
      /\ \A s \in Runners \ {r} : started'[s] = started[s]
  BY CycleAssumption DEF CycleAssumption
<1>4. /\ todo' \in [Runners -> Seq(Opportunities)]
      /\ \A s \in Runners \ {r} : todo'[s] = todo[s]
  OBVIOUS
<1>5. /\ left' \in [Runners -> 0..MaxActions] /\ errors' \in [Runners -> 0..MaxErrors] /\ errors'[r] = 0
      /\ \A s \in Runners \ {r} : left'[s] = left[s] /\ errors'[s] = errors[s]
  BY CycleAssumption DEF CycleAssumption
<1>6. /\ result' \in [Runners -> {None, "executed", "pending", "refused"}]
      /\ made' \in [Runners -> Nat] /\ made'[r] = 0
      /\ \A s \in Runners \ {r} : made'[s] = made[s]
  OBVIOUS
<1>7. DOMAIN chosen' = DOMAIN chosen /\ \A s \in Runners \ {r} : chosen'[s] = chosen[s]
  OBVIOUS
<1> HIDE DEF TypeOK, Forget
<1> QED BY <1>1, <1>2, <1>3, <1>4, <1>5, <1>6, <1>7

\* However a cycle ends, it gives up the lock it has and owes nothing.
LEMMA Leaving ==
    ASSUME CInv, NEW r \in Runners, Forget(r),
           Unlock(r) \/ (UNCHANGED holder /\ pc[r] = "lock"), UNCHANGED <<clock, tables>>
    PROVE  CInv'
<1> USE DEF CInv, tables
<1>1. \A s \in Runners \ {r} :
         /\ pc'[s] = pc[s] /\ cycle'[s] = cycle[s] /\ mode'[s] = mode[s]
         /\ started'[s] = started[s] /\ todo'[s] = todo[s] /\ left'[s] = left[s]
         /\ errors'[s] = errors[s] /\ made'[s] = made[s] /\ chosen'[s] = chosen[s]
  BY Forgotten
<1>2. pc'[r] = "idle" /\ started'[r] = 0 /\ errors'[r] = 0 /\ made'[r] = 0
  BY Forgotten
<1>3. \A s \in Runners : holder' = s <=> holder = s /\ s # r
  BY CycleAssumption DEF Unlock, CycleAssumption, LockFollowsTheCycle
<1>4. TypeOK'
  <2>1. holder' \in Runners \cup {None}
    BY DEF Unlock, TypeOK
  <2> QED BY <2>1, Forgotten DEF TypeOK, Locations, Acting
<1>5. LockFollowsTheCycle'
  BY <1>1, <1>2, <1>3 DEF LockFollowsTheCycle
<1>6. ActingIsAllowed'
  BY <1>1, <1>2 DEF ActingIsAllowed, Acting
<1>7. EveryChangeIsCharged'
  BY <1>1, <1>2 DEF EveryChangeIsCharged
<1>8. ClaimedBeforeChanged'
  BY <1>1, <1>2 DEF ClaimedBeforeChanged, IdempotencyKey
<1>9. CooledDown'
  <2>1. clock \in Nat
    BY CycleAssumption DEF TypeOK, CycleAssumption
  <2>2. DOMAIN chosen' = Runners
    BY Forgotten DEF CooledDown
  <2> QED BY <1>1, <1>2, <2>1, <2>2 DEF CooledDown
<1> QED BY <1>4, <1>5, <1>6, <1>7, <1>8, <1>9

\* An opportunity is done.
LEMMA Advanced ==
    ASSUME TypeOK, NEW r \in Runners, todo[r] # <<>>, NextOpportunity(r)
    PROVE  /\ pc' \in [Runners -> Locations] /\ pc'[r] = "loop"
           /\ todo' \in [Runners -> Seq(Opportunities)]
           /\ result' \in [Runners -> {None, "executed", "pending", "refused"}]
           /\ DOMAIN chosen' = DOMAIN chosen
           /\ \A s \in Runners \ {r} :
                 pc'[s] = pc[s] /\ todo'[s] = todo[s] /\ chosen'[s] = chosen[s]
<1> USE DEF TypeOK, NextOpportunity, Goto
<1>1. pc' \in [Runners -> Locations] /\ pc'[r] = "loop" /\ \A s \in Runners \ {r} : pc'[s] = pc[s]
  BY DEF Locations, Acting
<1>2. Tail(todo[r]) \in Seq(Opportunities)
  OBVIOUS
<1>3. /\ todo' \in [Runners -> Seq(Opportunities)]
      /\ \A s \in Runners \ {r} : todo'[s] = todo[s]
  BY <1>2
<1>4. /\ result' \in [Runners -> {None, "executed", "pending", "refused"}]
      /\ DOMAIN chosen' = DOMAIN chosen /\ \A s \in Runners \ {r} : chosen'[s] = chosen[s]
  OBVIOUS
<1> HIDE DEF TypeOK, NextOpportunity
<1> QED BY <1>1, <1>3, <1>4

\* The end of an opportunity by whichever way: what it has written is charged to
\* the cap or to the error budget.
LEMMA Charging ==
    ASSUME CInv, NEW r \in Runners, pc[r] \in {"loop"} \cup Acting, todo[r] # <<>>,
           NextOpportunity(r),
           UNCHANGED <<clock, loop, log, changes, made>>,
           DOMAIN idem' = DOMAIN idem,
           \A k \in DOMAIN idem : idem'[k] \in {"in_progress", "completed", "failed"},
           \/ UNCHANGED <<left, errors>> /\ pc[r] = "loop"
           \/ UNCHANGED errors /\ left' = [left EXCEPT ![r] = @ - 1] /\ left[r] > 0
           \/ UNCHANGED left /\ errors' = [errors EXCEPT ![r] = @ + 1] /\ errors[r] < MaxErrors
    PROVE  CInv'
<1> USE DEF CInv, loop
<1>1. /\ pc' \in [Runners -> Locations] /\ pc'[r] = "loop"
      /\ \A s \in Runners \ {r} : pc'[s] = pc[s] /\ todo'[s] = todo[s] /\ chosen'[s] = chosen[s]
  BY Advanced
<1>2. /\ left' \in [Runners -> 0..MaxActions] /\ errors' \in [Runners -> 0..MaxErrors]
      /\ \A s \in Runners \ {r} : left'[s] = left[s] /\ errors'[s] = errors[s]
      /\ \/ left'[r] = left[r] /\ errors'[r] = errors[r] /\ pc[r] = "loop"
         \/ left'[r] = left[r] - 1 /\ errors'[r] = errors[r]
         \/ left'[r] = left[r] /\ errors'[r] = errors[r] + 1
  <2>1. left[r] \in 0..MaxActions /\ errors[r] \in 0..MaxErrors /\ MaxActions \in Nat /\ MaxErrors \in Nat
    BY CycleAssumption DEF TypeOK, CycleAssumption
  <2>2. CASE UNCHANGED <<left, errors>> /\ pc[r] = "loop"
    BY <2>2 DEF TypeOK
  <2>3. CASE UNCHANGED errors /\ left' = [left EXCEPT ![r] = @ - 1] /\ left[r] > 0
    <3>1. left[r] - 1 \in 0..MaxActions
      BY <2>1, <2>3
    <3> QED BY <2>3, <3>1 DEF TypeOK
  <2>4. CASE UNCHANGED left /\ errors' = [errors EXCEPT ![r] = @ + 1] /\ errors[r] < MaxErrors
    <3>1. errors[r] + 1 \in 0..MaxErrors
      BY <2>1, <2>4
    <3> QED BY <2>4, <3>1 DEF TypeOK
  <2> QED BY <2>2, <2>3, <2>4
<1>3. TypeOK'
  <2>1. /\ todo' \in [Runners -> Seq(Opportunities)]
        /\ result' \in [Runners -> {None, "executed", "pending", "refused"}]
    BY Advanced
  <2> QED BY <1>1, <1>2, <2>1 DEF TypeOK, Locations, Acting
<1>4. LockFollowsTheCycle'
  BY <1>1 DEF LockFollowsTheCycle, Acting
<1>5. ActingIsAllowed'
  BY <1>1, <1>2 DEF ActingIsAllowed, Acting
<1>6. EveryChangeIsCharged'
  <2>1. made[r] + left'[r] <= MaxActions + errors'[r]
    <3>1. /\ left[r] \in Int /\ errors[r] \in Int /\ made[r] \in Int /\ MaxActions \in Int
      BY CycleAssumption DEF TypeOK, CycleAssumption
    <3>2. /\ made[r] + left[r] <= MaxActions + errors[r] + 1
          /\ pc[r] = "loop" => made[r] + left[r] <= MaxActions + errors[r]
      BY <3>1 DEF EveryChangeIsCharged, Acting
    <3>3. CASE left'[r] = left[r] /\ errors'[r] = errors[r] /\ pc[r] = "loop"
      BY <3>2, <3>3
    <3>4. CASE left'[r] = left[r] - 1 /\ errors'[r] = errors[r]
      BY <3>1, <3>2, <3>4
    <3>5. CASE left'[r] = left[r] /\ errors'[r] = errors[r] + 1
      BY <3>1, <3>2, <3>5
    <3> QED BY <1>2, <3>3, <3>4, <3>5
  <2> QED BY <1>1, <1>2, <2>1 DEF EveryChangeIsCharged
<1>7. ClaimedBeforeChanged'
  BY <1>1 DEF ClaimedBeforeChanged, IdempotencyKey
<1>8. CooledDown'
  <2>1. DOMAIN chosen' = Runners
    BY Advanced DEF CooledDown
  <2> QED BY <1>1, <2>1 DEF CooledDown
<1> QED BY <1>3, <1>4, <1>5, <1>6, <1>7, <1>8

(***************************************************************************)
(* One lemma for each kind of step.                                        *)
(***************************************************************************)
LEMMA StartStep ==
    ASSUME CInv, NEW r \in Runners, NEW id \in CycleIds, NEW md \in Modes, Start(r, id, md)
    PROVE  CInv'
<1> USE CycleAssumption DEF CInv, Start, Goto, loop, tables
<1>1. TypeOK'
  BY DEF TypeOK, LockFollowsTheCycle, CycleAssumption, ActingIsAllowed, Acting
<1>2. LockFollowsTheCycle'
  BY DEF LockFollowsTheCycle, TypeOK
<1>3. ActingIsAllowed'
  BY DEF ActingIsAllowed, TypeOK, LockFollowsTheCycle, Acting, CycleAssumption
<1>4. EveryChangeIsCharged'
  BY DEF EveryChangeIsCharged, TypeOK, LockFollowsTheCycle, CycleAssumption, ActingIsAllowed
<1>5. ClaimedBeforeChanged'
  BY SMTT(30) DEF ClaimedBeforeChanged, TypeOK, LockFollowsTheCycle, IdempotencyKey
<1>6. CooledDown'
  BY SMTT(30) DEF CooledDown, TypeOK, LockFollowsTheCycle
<1> QED BY <1>1, <1>2, <1>3, <1>4, <1>5, <1>6 DEF CInv

LEMMA TryLockStep ==
    ASSUME CInv, NEW r \in Runners, TryLock(r)
    PROVE  CInv'
<1> USE DEF CInv
<1>1. CASE holder # None
  BY <1>1, Leaving DEF TryLock
<1>2. CASE holder = None
  <2>1. /\ pc[r] = "lock" /\ holder' = r /\ pc' = [pc EXCEPT ![r] = "detect"]
        /\ UNCHANGED <<clock, cycle, mode, started, todo, left, errors, chosen, result, idem, log, changes, made>>
    BY <1>2 DEF TryLock, Goto, tables
  <2>2. pc'[r] = "detect" /\ \A s \in Runners \ {r} : pc'[s] = pc[s]
    BY <2>1 DEF TypeOK
  <2>3. TypeOK'
    BY <2>1 DEF TypeOK
  <2>4. LockFollowsTheCycle'
    BY <1>2, <2>1, <2>2, CycleAssumption DEF LockFollowsTheCycle, CycleAssumption
  <2>5. ActingIsAllowed' /\ EveryChangeIsCharged'
    BY <2>1, <2>2 DEF ActingIsAllowed, Acting, EveryChangeIsCharged
  <2>6. ClaimedBeforeChanged' /\ CooledDown'
    BY <2>1, <2>2 DEF ClaimedBeforeChanged, IdempotencyKey, CooledDown
  <2> QED BY <2>3, <2>4, <2>5, <2>6
<1> QED BY <1>1, <1>2

LEMMA LeaveStep ==
    ASSUME CInv, NEW r \in Runners, PreflightFails(r) \/ Finish(r) \/ Crash(r)
    PROVE  CInv'
BY Leaving DEF PreflightFails, Finish, Crash

LEMMA DetectStep ==
    ASSUME CInv, NEW r \in Runners, Detect(r)
    PROVE  CInv'
<1> USE CycleAssumption DEF CInv, Detect, Goto, loop, tables
<1>1. TypeOK'
  <2>1. /\ todo' \in [Runners -> Seq(Opportunities)] /\ left' \in [Runners -> 0..MaxActions]
        /\ pc' = [pc EXCEPT ![r] = "loop"]
        /\ UNCHANGED <<clock, holder, cycle, mode, started, errors, result, idem, made>>
    <3>1. PICK found \in Detections :
             todo' = [todo EXCEPT ![r] =
                        SubSeq(found, 1, IF Len(found) < MaxOpportunities
                                         THEN Len(found) ELSE MaxOpportunities)]
      OBVIOUS
    <3>2. found \in Seq(Opportunities) /\ Len(found) \in Nat /\ MaxOpportunities \in Nat
      BY DEF CycleAssumption
    <3>3. SubSeq(found, 1, IF Len(found) < MaxOpportunities
                           THEN Len(found) ELSE MaxOpportunities) \in Seq(Opportunities)
      BY <3>2
    <3>4. todo' \in [Runners -> Seq(Opportunities)]
      BY <3>1, <3>3 DEF TypeOK
    <3>5. left' \in [Runners -> 0..MaxActions]
      BY DEF TypeOK, CycleAssumption
    <3> QED BY <3>4, <3>5
  <2> HIDE DEF Detect
  <2> QED BY <2>1 DEF TypeOK
<1>2. LockFollowsTheCycle'
  BY DEF LockFollowsTheCycle, TypeOK
<1>3. ActingIsAllowed'
  BY DEF ActingIsAllowed, TypeOK, LockFollowsTheCycle, Acting, CycleAssumption
<1>4. EveryChangeIsCharged'
  <2>1. /\ pc[r] = "detect" /\ pc' = [pc EXCEPT ![r] = "loop"]
        /\ left' = [left EXCEPT ![r] = IF mode[r] = "execute" THEN MaxActions ELSE 0]
        /\ UNCHANGED <<made, errors, mode>>
    OBVIOUS
  <2>2. /\ pc'[r] = "loop" /\ left'[r] \in {0, MaxActions}
        /\ \A q \in Runners \ {r} : pc'[q] = pc[q] /\ left'[q] = left[q]
    BY <2>1 DEF TypeOK
  <2>3. made[r] = 0 /\ errors[r] = 0 /\ MaxActions \in Nat
    BY <2>1 DEF EveryChangeIsCharged, CycleAssumption
  <2> HIDE DEF Detect
  <2> QED BY <2>1, <2>2, <2>3 DEF EveryChangeIsCharged
<1>5. ClaimedBeforeChanged'
  BY DEF ClaimedBeforeChanged, TypeOK, LockFollowsTheCycle, IdempotencyKey
<1>6. CooledDown'
  BY DEF CooledDown, TypeOK, LockFollowsTheCycle
<1> QED BY <1>1, <1>2, <1>3, <1>4, <1>5, <1>6 DEF CInv

LEMMA AttemptStep ==
    ASSUME CInv, NEW r \in Runners, Attempt(r)
    PROVE  CInv'
<1> USE CycleAssumption DEF CInv, Attempt, Handling, MayAttempt, InCooldown, Goto, loop, tables
<1>1. TypeOK'
  BY DEF TypeOK, LockFollowsTheCycle, CycleAssumption, ActingIsAllowed, Acting
<1>2. LockFollowsTheCycle'
  BY DEF LockFollowsTheCycle, TypeOK
<1>3. ActingIsAllowed'
  BY DEF ActingIsAllowed, TypeOK, LockFollowsTheCycle, Acting, CycleAssumption
<1>4. EveryChangeIsCharged'
  BY DEF EveryChangeIsCharged, TypeOK, LockFollowsTheCycle, CycleAssumption, ActingIsAllowed
<1>5. ClaimedBeforeChanged'
  <2>1. /\ pc' = [pc EXCEPT ![r] = "claim"] /\ UNCHANGED tables
        /\ \A q \in Runners \ {r} : IdempotencyKey(q)' = IdempotencyKey(q)
    BY DEF CooledDown, TypeOK, IdempotencyKey
  <2>2. pc'[r] = "claim" /\ \A q \in Runners \ {r} : pc'[q] = pc[q]
    BY <2>1 DEF TypeOK
  <2> HIDE DEF Attempt
  <2> QED BY <2>1, <2>2 DEF ClaimedBeforeChanged
<1>6. CooledDown'
  <2>1. PICK s : /\ chosen' = [chosen EXCEPT ![r] = s]
                 /\ ~InCooldown(s.target, started[r])
    OBVIOUS
  <2>2. pc[r] = "loop" /\ pc' = [pc EXCEPT ![r] = "claim"] /\ UNCHANGED <<clock, started, log>>
    OBVIOUS
  <2>3. chosen'[r] = s /\ DOMAIN chosen' = Runners /\ \A q \in Runners \ {r} : chosen'[q] = chosen[q]
    BY <2>1 DEF CooledDown
  <2>4. pc'[r] = "claim" /\ \A q \in Runners \ {r} : pc'[q] = pc[q]
    BY <2>2 DEF TypeOK
  <2>5. ASSUME Cooldown > 0, NEW e \in log, e.target = s.target
        PROVE  e.at + Cooldown < started[r]
    <3>1. ~(e.at >= started[r] - Cooldown)
      BY <2>1, <2>5
    <3>2. e.at \in Nat /\ started[r] \in Int /\ Cooldown \in Nat
      BY DEF CooledDown, TypeOK, CycleAssumption
    <3> QED BY <3>1, <3>2
  <2> HIDE DEF Attempt
  <2> QED BY <2>2, <2>3, <2>4, <2>5 DEF CooledDown
<1> QED BY <1>1, <1>2, <1>3, <1>4, <1>5, <1>6 DEF CInv

LEMMA PassOverStep ==
    ASSUME CInv, NEW r \in Runners, PassOver(r)
    PROVE  CInv'
<1>1. /\ pc[r] = "loop" /\ todo[r] # <<>> /\ NextOpportunity(r)
      /\ UNCHANGED <<clock, loop, left, errors, idem, log, changes, made>>
  BY DEF PassOver, Handling, tables
<1>2. \A k \in DOMAIN idem : idem'[k] \in {"in_progress", "completed", "failed"}
  BY <1>1 DEF CInv, TypeOK
<1> QED BY <1>1, <1>2, Charging

LEMMA ClaimStep ==
    ASSUME CInv, NEW r \in Runners, ClaimKey(r)
    PROVE  CInv'
<1> USE CycleAssumption DEF CInv, ClaimKey, SetKey, Claimed, Goto, loop
<1>1. TypeOK'
  BY DEF TypeOK, LockFollowsTheCycle, CycleAssumption, ActingIsAllowed, Acting
<1>2. LockFollowsTheCycle'
  BY DEF LockFollowsTheCycle, TypeOK
<1>3. ActingIsAllowed'
  BY DEF ActingIsAllowed, TypeOK, LockFollowsTheCycle, Acting, CycleAssumption
<1>4. EveryChangeIsCharged'
  BY DEF EveryChangeIsCharged, TypeOK, LockFollowsTheCycle, CycleAssumption, ActingIsAllowed
<1>5. ClaimedBeforeChanged'
  BY DEF ClaimedBeforeChanged, TypeOK, LockFollowsTheCycle, IdempotencyKey
<1>6. CooledDown'
  BY DEF CooledDown, TypeOK, LockFollowsTheCycle
<1> QED BY <1>1, <1>2, <1>3, <1>4, <1>5, <1>6 DEF CInv

\* The wrapper writes the status of a key only while it is in progress.
LEMMA Finished ==
    ASSUME CInv, NEW k \in DOMAIN idem, NEW status \in {"completed", "failed"},
           FinishKey(k, status) \/ UNCHANGED idem
    PROVE  /\ DOMAIN idem' = DOMAIN idem
           /\ \A x \in DOMAIN idem : idem'[x] \in {"in_progress", "completed", "failed"}
<1>1. \A x \in DOMAIN idem : idem[x] \in {"in_progress", "completed", "failed"}
  BY DEF CInv, TypeOK
<1> QED BY <1>1 DEF FinishKey

LEMMA ReplayStep ==
    ASSUME CInv, NEW r \in Runners, ReplayKey(r)
    PROVE  CInv'
<1>1. /\ pc[r] = "claim" /\ Claimed(IdempotencyKey(r))
      /\ FinishKey(IdempotencyKey(r), "failed") \/ UNCHANGED idem
      /\ left' = [left EXCEPT ![r] = @ - 1] /\ NextOpportunity(r)
      /\ UNCHANGED <<clock, loop, errors, log, changes, made>>
  BY DEF ReplayKey
<1>2. todo[r] # <<>> /\ left[r] > 0
  BY <1>1 DEF CInv, ActingIsAllowed, Acting
<1>3. /\ DOMAIN idem' = DOMAIN idem
      /\ \A k \in DOMAIN idem : idem'[k] \in {"in_progress", "completed", "failed"}
  BY <1>1, Finished DEF Claimed
<1> QED BY <1>1, <1>2, <1>3, Charging DEF Acting

LEMMA CompleteStep ==
    ASSUME CInv, NEW r \in Runners, Complete(r)
    PROVE  CInv'
<1>1. /\ pc[r] = "complete" /\ FinishKey(IdempotencyKey(r), "completed")
      /\ left' = [left EXCEPT ![r] = @ - 1] /\ NextOpportunity(r)
      /\ UNCHANGED <<clock, loop, errors, log, changes, made>>
  BY DEF Complete
<1>2. todo[r] # <<>> /\ left[r] > 0 /\ IdempotencyKey(r) \in DOMAIN idem
  BY <1>1 DEF CInv, ActingIsAllowed, Acting, ClaimedBeforeChanged
<1>3. /\ DOMAIN idem' = DOMAIN idem
      /\ \A k \in DOMAIN idem : idem'[k] \in {"in_progress", "completed", "failed"}
  BY <1>1, <1>2, Finished
<1> QED BY <1>1, <1>2, <1>3, Charging DEF Acting

LEMMA RaiseStep ==
    ASSUME CInv, NEW r \in Runners, HandleRaises(r)
    PROVE  CInv'
<1>1. /\ Handling(r) \/ pc[r] \in Acting
      /\ UNCHANGED idem \/ (pc[r] \in {"decide", "log"} /\ FinishKey(IdempotencyKey(r), "failed"))
      /\ errors' = [errors EXCEPT ![r] = @ + 1] /\ NextOpportunity(r)
      /\ UNCHANGED <<clock, loop, left, log, changes, made>>
  BY DEF HandleRaises, Acting
<1>2. pc[r] \in {"loop"} \cup Acting /\ todo[r] # <<>> /\ errors[r] < MaxErrors
  BY <1>1 DEF CInv, ActingIsAllowed, Handling
<1>3. /\ DOMAIN idem' = DOMAIN idem
      /\ \A k \in DOMAIN idem : idem'[k] \in {"in_progress", "completed", "failed"}
  <2>1. CASE UNCHANGED idem
    BY <2>1 DEF CInv, TypeOK
  <2>2. CASE pc[r] \in {"decide", "log"} /\ FinishKey(IdempotencyKey(r), "failed")
    BY <2>2, Finished DEF CInv, ClaimedBeforeChanged
  <2> QED BY <1>1, <2>1, <2>2
<1> QED BY <1>1, <1>2, <1>3, Charging

LEMMA RefuseStep ==
    ASSUME CInv, NEW r \in Runners, Refuse(r) \/ HoldForReview(r)
    PROVE  CInv'
<1> USE CycleAssumption DEF CInv, Refuse, HoldForReview, Goto, loop, tables
<1>1. TypeOK'
  BY DEF TypeOK, LockFollowsTheCycle, CycleAssumption, ActingIsAllowed, Acting
<1>2. LockFollowsTheCycle'
  BY DEF LockFollowsTheCycle, TypeOK
<1>3. ActingIsAllowed'
  BY DEF ActingIsAllowed, TypeOK, LockFollowsTheCycle, Acting, CycleAssumption
<1>4. EveryChangeIsCharged'
  <2>1. /\ pc[r] = "decide" /\ pc'[r] = "log" /\ \A s \in Runners \ {r} : pc'[s] = pc[s]
        /\ UNCHANGED <<left, errors, mode>>
    BY DEF TypeOK
  <2>2. made'[r] \in {made[r], made[r] + 1} /\ \A s \in Runners \ {r} : made'[s] = made[s]
    BY DEF TypeOK
  <2>3. mode[r] = "execute"
    BY <2>1 DEF ActingIsAllowed, Acting
  <2>4. made[r] \in Nat /\ left[r] \in Nat /\ errors[r] \in Nat /\ MaxActions \in Nat
    BY DEF TypeOK, CycleAssumption
  <2>5. made'[r] + left[r] <= MaxActions + errors[r] + 1
    <3>1. made[r] + left[r] <= MaxActions + errors[r]
      BY <2>1 DEF EveryChangeIsCharged
    <3> QED BY <2>2, <2>4, <3>1
  <2> QED BY <2>1, <2>2, <2>3, <2>5 DEF EveryChangeIsCharged
<1>5. ClaimedBeforeChanged'
  BY DEF ClaimedBeforeChanged, TypeOK, LockFollowsTheCycle, IdempotencyKey
<1>6. CooledDown'
  <2>1. UNCHANGED <<clock, started, chosen, log>>
    OBVIOUS
  <2>2. pc[r] = "decide" /\ \A s \in Runners : pc'[s] \in {"claim", "decide"} => pc'[s] = pc[s]
    BY DEF TypeOK
  <2> QED BY <2>1, <2>2 DEF CooledDown
<1> QED BY <1>1, <1>2, <1>3, <1>4, <1>5, <1>6 DEF CInv

LEMMA ChangeStep ==
    ASSUME CInv, NEW r \in Runners, Change(r)
    PROVE  CInv'
<1> USE CycleAssumption DEF CInv, Change, Goto, loop
<1>1. TypeOK'
  BY SMTT(30) DEF TypeOK, LockFollowsTheCycle, CycleAssumption, ActingIsAllowed, Acting
<1>2. LockFollowsTheCycle'
  BY DEF LockFollowsTheCycle, TypeOK
<1>3. ActingIsAllowed'
  BY DEF ActingIsAllowed, TypeOK, LockFollowsTheCycle, Acting, CycleAssumption
<1>4. EveryChangeIsCharged'
  <2>1. /\ pc[r] = "decide" /\ pc'[r] = "log" /\ \A s \in Runners \ {r} : pc'[s] = pc[s]
        /\ UNCHANGED <<left, errors, mode>>
    BY DEF TypeOK
  <2>2. made'[r] \in {made[r], made[r] + 1} /\ \A s \in Runners \ {r} : made'[s] = made[s]
    BY DEF TypeOK
  <2>3. mode[r] = "execute"
    BY <2>1 DEF ActingIsAllowed, Acting
  <2>4. made[r] \in Nat /\ left[r] \in Nat /\ errors[r] \in Nat /\ MaxActions \in Nat
    BY DEF TypeOK, CycleAssumption
  <2>5. made'[r] + left[r] <= MaxActions + errors[r] + 1
    <3>1. made[r] + left[r] <= MaxActions + errors[r]
      BY <2>1 DEF EveryChangeIsCharged
    <3> QED BY <2>2, <2>4, <3>1
  <2> QED BY <2>1, <2>2, <2>3, <2>5 DEF EveryChangeIsCharged
<1>5. ClaimedBeforeChanged'
  <2> DEFINE k == IdempotencyKey(r)
  <2>1. /\ pc[r] = "decide" /\ UNCHANGED <<cycle, todo, chosen, idem>>
        /\ changes' = [x \in DOMAIN idem |->
                        (IF x \in DOMAIN changes THEN changes[x] ELSE 0) + IF x = k THEN 1 ELSE 0]
    OBVIOUS
  <2>2. \A s \in Runners : pc'[s] # "decide" /\ (pc'[s] \in {"log", "complete"} => s = r)
    BY DEF TypeOK, LockFollowsTheCycle
  <2>3. \A s \in Runners : IdempotencyKey(s)' = IdempotencyKey(s)
    BY <2>1 DEF IdempotencyKey
  <2>4. k \in DOMAIN idem /\ (k \in DOMAIN changes => changes[k] = 0)
    BY <2>1 DEF ClaimedBeforeChanged
  <2> HIDE DEF k, Change
  <2>5. \A x \in DOMAIN changes : changes[x] \in 0..1
    BY DEF ClaimedBeforeChanged
  <2>6. DOMAIN changes' = DOMAIN idem' /\ \A x \in DOMAIN changes' : changes'[x] \in 0..1
    BY <2>1, <2>4, <2>5
  <2>7. \A s \in Runners : pc'[s] \in {"decide", "log", "complete"} => IdempotencyKey(s)' \in DOMAIN idem'
    BY <2>1, <2>2, <2>3, <2>4 DEF k
  <2> QED BY <2>2, <2>6, <2>7 DEF ClaimedBeforeChanged
<1>6. CooledDown'
  <2>1. UNCHANGED <<clock, started, chosen, log>>
    OBVIOUS
  <2>2. pc[r] = "decide" /\ \A s \in Runners : pc'[s] \in {"claim", "decide"} => pc'[s] = pc[s]
    BY DEF TypeOK
  <2> QED BY <2>1, <2>2 DEF CooledDown
<1> QED BY <1>1, <1>2, <1>3, <1>4, <1>5, <1>6 DEF CInv

LEMMA LogStep ==
    ASSUME CInv, NEW r \in Runners, WriteLog(r)
    PROVE  CInv'
<1> USE CycleAssumption DEF CInv, WriteLog, Goto, loop
<1>1. TypeOK'
  BY DEF TypeOK, LockFollowsTheCycle, CycleAssumption, ActingIsAllowed, Acting
<1>2. LockFollowsTheCycle'
  BY DEF LockFollowsTheCycle, TypeOK
<1>3. ActingIsAllowed'
  BY DEF ActingIsAllowed, TypeOK, LockFollowsTheCycle, Acting, CycleAssumption
<1>4. EveryChangeIsCharged'
  BY DEF EveryChangeIsCharged, TypeOK, LockFollowsTheCycle, CycleAssumption, ActingIsAllowed
<1>5. ClaimedBeforeChanged'
  BY DEF ClaimedBeforeChanged, TypeOK, LockFollowsTheCycle, IdempotencyKey
<1>6. CooledDown'
  <2>1. UNCHANGED <<clock, started, chosen>> /\ pc[r] = "log"
    OBVIOUS
  <2>2. \A s \in Runners : pc'[s] \notin {"claim", "decide"}
    BY <2>1 DEF TypeOK, LockFollowsTheCycle
  <2>3. \A e \in log' : e \in log \/ e.at = clock
    OBVIOUS
  <2>4. clock \in Nat
    BY DEF TypeOK, CycleAssumption
  <2> HIDE DEF WriteLog
  <2> QED BY <2>1, <2>2, <2>3, <2>4 DEF CooledDown
<1> QED BY <1>1, <1>2, <1>3, <1>4, <1>5, <1>6 DEF CInv

\* Time passes, and workers and reviewers execute on the same targets.
LEMMA WorldStep ==
    ASSUME CInv, Tick \/ \E target \in Targets : OthersAct(target)
    PROVE  CInv'
<1>1. /\ UNCHANGED <<loop, pc, todo, left, errors, chosen, result, idem, changes, made>>
      /\ clock' \in 0..MaxTime /\ clock' >= clock
      /\ \A e \in log' : e \in log \/ (e.at = clock /\ e.by = "other")
  <2>1. clock \in 0..MaxTime /\ MaxTime \in Nat
    BY CycleAssumption DEF CInv, TypeOK, CycleAssumption
  <2>2. CASE Tick
    BY <2>1, <2>2 DEF Tick, tables
  <2>3. CASE \E target \in Targets : OthersAct(target)
    <3>1. PICK target \in Targets :
             log' = log \cup {[target |-> target, at |-> clock, by |-> "other", key |-> None]}
      BY <2>3 DEF OthersAct
    <3>2. /\ UNCHANGED <<loop, pc, todo, left, errors, chosen, result, idem, changes, made>>
          /\ clock' = clock
      BY <2>3 DEF OthersAct
    <3> QED BY <2>1, <3>1, <3>2
  <2> QED BY <2>2, <2>3
<1> USE <1>1 DEF CInv, loop
<1>2. TypeOK' /\ LockFollowsTheCycle' /\ ActingIsAllowed' /\ EveryChangeIsCharged'
  BY DEF TypeOK, LockFollowsTheCycle, ActingIsAllowed, EveryChangeIsCharged
<1>3. ClaimedBeforeChanged'
  BY DEF ClaimedBeforeChanged, IdempotencyKey
<1>4. CooledDown'
  <2>1. clock \in Nat /\ started \in [Runners -> 0..MaxTime]
    BY DEF TypeOK
  <2> QED BY <2>1 DEF CooledDown
<1> QED BY <1>2, <1>3, <1>4

(***************************************************************************)
(* The invariant, and what follows from it.                                *)
(***************************************************************************)
LEMMA Initially ==
    ASSUME Init
    PROVE  CInv
<1> USE CycleAssumption DEF CycleAssumption, Init
<1>1. TypeOK /\ LockFollowsTheCycle
  BY DEF TypeOK, LockFollowsTheCycle
<1>2. ActingIsAllowed /\ EveryChangeIsCharged /\ CooledDown
  BY DEF ActingIsAllowed, Acting, EveryChangeIsCharged, CooledDown
<1>3. ClaimedBeforeChanged
  BY DEF ClaimedBeforeChanged
<1> QED BY <1>1, <1>2, <1>3 DEF CInv

LEMMA Invariance == Spec => []CInv
<1>1. ASSUME CInv, [Next]_vars PROVE CInv'
  <2>1. CASE UNCHANGED vars
    BY <1>1, <2>1 DEF vars, CInv, TypeOK, LockFollowsTheCycle, ActingIsAllowed,
                      EveryChangeIsCharged, ClaimedBeforeChanged, IdempotencyKey, CooledDown
  <2>2. ASSUME NEW r \in Runners, Step(r) PROVE CInv'
    BY <1>1, <2>2, TryLockStep, LeaveStep, DetectStep, AttemptStep, PassOverStep, ClaimStep,
       ReplayStep, RefuseStep, ChangeStep, LogStep, CompleteStep DEF Step
  <2>3. ASSUME NEW r \in Runners, HandleRaises(r) \/ Crash(r) PROVE CInv'
    BY <1>1, <2>3, RaiseStep, LeaveStep
  <2>4. ASSUME NEW r \in Runners, NEW id \in CycleIds, NEW md \in Modes, Start(r, id, md)
        PROVE  CInv'
    BY <1>1, <2>4, StartStep
  <2>5. CASE Tick \/ \E target \in Targets : OthersAct(target)
    BY <1>1, <2>5, WorldStep
  <2> QED BY <1>1, <2>1, <2>2, <2>3, <2>4, <2>5 DEF Next
<1> QED BY Initially, <1>1, PTL DEF Spec

\* Every variable of the loop keeps its type; in particular run_cycle never
\* overdraws its action cap or its error budget.
THEOREM TypeCorrect == Spec => []TypeOK
<1>1. CInv => TypeOK
  BY DEF CInv
<1> QED BY <1>1, Invariance, PTL

\* However run_cycle ends, the advisory lock of the tenant is held exactly while
\* a process is inside the loop.
THEOREM LockIsReleased == Spec => []LockFollowsTheCycle
<1>1. CInv => LockFollowsTheCycle
  BY DEF CInv
<1> QED BY <1>1, Invariance, PTL

\* One cycle never writes more changes than the action cap and the error budget
\* of run_cycle allow together, whatever _handle raises and wherever it does.
THEOREM BlastRadius == Spec => []BlastRadiusIsBounded
<1>1. ASSUME CInv, NEW r \in Runners PROVE made[r] <= MaxActions + MaxErrors
  <2>1. /\ made[r] \in Nat /\ left[r] \in 0..MaxActions /\ errors[r] \in 0..MaxErrors
        /\ MaxActions \in Nat /\ MaxErrors \in Nat
    BY <1>1, CycleAssumption DEF CInv, TypeOK, CycleAssumption
  <2>2. CASE pc[r] \in Acting
    <3>1. left[r] > 0 /\ made[r] + left[r] <= MaxActions + errors[r] + 1
      BY <1>1, <2>1, <2>2 DEF CInv, ActingIsAllowed, EveryChangeIsCharged, Acting
    <3> QED BY <2>1, <3>1
  <2>3. CASE pc[r] \notin Acting
    <3>1. made[r] = 0 \/ made[r] + left[r] <= MaxActions + errors[r]
      BY <1>1, <2>3 DEF CInv, TypeOK, EveryChangeIsCharged, Acting
    <3> QED BY <2>1, <3>1
  <2> QED BY <2>2, <2>3
<1>2. CInv => BlastRadiusIsBounded
  BY <1>1 DEF CInv, EveryChangeIsCharged, BlastRadiusIsBounded
<1> QED BY <1>2, Invariance, PTL

\* A cycle writes by one step of its own, of a key whose change is not written
\* yet, after the cooldown of the logged changes of its target.
LEMMA WritesOnce ==
    ASSUME CInv, [Next]_vars, NEW r \in Runners, made'[r] > made[r]
    PROVE  /\ IdempotencyKey(r) \in DOMAIN changes => changes[IdempotencyKey(r)] = 0
           /\ Cooldown > 0 =>
                 \A e \in log :
                     (e.by = "cycle" /\ e.target = chosen[r].target) => e.at + Cooldown < clock
<1>1. made \in [Runners -> Nat]
  BY DEF CInv, TypeOK
<1>2. PICK s \in Runners : Change(s)
  <2>1. ASSUME NEW s \in Runners, Forget(s) PROVE made'[r] = made[r] \/ made'[r] = 0
    BY <1>1, <2>1 DEF Forget
  <2>2. made'[r] # made[r] /\ made'[r] # 0
    BY <1>1
  <2>3. ~UNCHANGED made /\ \A s \in Runners : ~Forget(s)
    BY <2>1, <2>2
  <2> QED BY <2>3 DEF Next, Step, vars, TryLock, PreflightFails, Detect, Finish,
             Attempt, PassOver, ClaimKey, ReplayKey, Refuse, HoldForReview, WriteLog,
             Complete, HandleRaises, Crash, Start, OthersAct, Tick, tables, loop
<1>3. s = r
  BY <1>1, <1>2 DEF Change
<1>4. pc[r] = "decide"
  BY <1>2, <1>3 DEF Change
<1>5. IdempotencyKey(r) \in DOMAIN changes => changes[IdempotencyKey(r)] = 0
  BY <1>4 DEF CInv, ClaimedBeforeChanged
<1>6. ASSUME Cooldown > 0, NEW e \in log, e.by = "cycle", e.target = chosen[r].target
      PROVE  e.at + Cooldown < clock
  <2>1. e.at + Cooldown < started[r] /\ started[r] <= clock
    BY <1>4, <1>6 DEF CInv, CooledDown
  <2>2. e.at \in Int /\ Cooldown \in Int /\ started[r] \in Int /\ clock \in Int
    <3>1. e.at \in Nat
      BY <1>6 DEF CInv, CooledDown
    <3>2. started[r] \in Nat /\ clock \in Nat
      BY CycleAssumption DEF CInv, TypeOK, CycleAssumption
    <3> QED BY <3>1, <3>2, CycleAssumption DEF CycleAssumption
  <2> QED BY <2>1, <2>2
<1> QED BY <1>5, <1>6

\* A retry with the same cycle_id never writes the change of a candidate again,
\* although the first run crashed or raised at any point: the key of the candidate
\* is claimed before the change and never again.  The opportunity is executed
\* again, with another candidate, on the target of a change that is in the
\* execution log only after the cooldown; one that is not there holds nothing back.
THEOREM RetriesAreSafe == Spec => RetriesRepeatNothingLogged
<1>1. ASSUME CInv, [Next]_vars, NEW r \in Runners, NEW k \in DOMAIN changes,
             made'[r] > made[r], changes[k] > 0, k[1] = cycle[r], k[2] = Head(todo[r])
      PROVE  /\ k # IdempotencyKey(r)
             /\ Cooldown > 0 =>
                   \A e \in log :
                       (e.by = "cycle" /\ e.key = k /\ e.target = chosen[r].target) =>
                           e.at + Cooldown < clock
  BY <1>1, WritesOnce
<1>2. CInv /\ [Next]_vars =>
        [\A r \in Runners, k \in DOMAIN changes :
            (made'[r] > made[r] /\ changes[k] > 0 /\ k[1] = cycle[r] /\ k[2] = Head(todo[r])) =>
                /\ k # IdempotencyKey(r)
                /\ Cooldown > 0 =>
                      \A e \in log :
                          (e.by = "cycle" /\ e.key = k /\ e.target = chosen[r].target) =>
                              e.at + Cooldown < clock]_vars
  BY <1>1
<1> QED BY <1>2, Invariance, PTL DEF Spec, RetriesRepeatNothingLogged

\* Within the cooldown after the log entry of a cycle's change, no cycle changes
\* the same target.  A change whose entry was never written (the process died
\* between the two commits) separates nothing.
THEOREM CyclesAreSeparated == Spec => CooldownSeparatesCycles
<1>1. ASSUME CInv, [Next]_vars, Cooldown > 0, NEW r \in Runners, made'[r] > made[r],
             NEW e \in log, e.by = "cycle", e.target = chosen[r].target
      PROVE  e.at + Cooldown < clock
  BY <1>1, WritesOnce
<1>2. CInv /\ [Next]_vars =>
        [Cooldown > 0 =>
            \A r \in Runners :
               made'[r] > made[r] =>
                   \A e \in log :
                       e.by = "cycle" /\ e.target = chosen[r].target =>
                           e.at + Cooldown < clock]_vars
  BY <1>1
<1> QED BY <1>2, Invariance, PTL DEF Spec, CooldownSeparatesCycles
=============================================================================
