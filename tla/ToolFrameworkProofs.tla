------------------------ MODULE ToolFrameworkProofs ------------------------
(***************************************************************************)
(* Proofs about ToolFramework for any number of callers, keys, decisions,   *)
(* targets and requests: IndInv is inductive, and from it follow the type   *)
(* invariant, AtMostOncePerKey, ExecutedWithAuthority, BigChangesAreApproved *)
(* and the implementation of ActionLedger; with AnswerInv, that what        *)
(* callers are told is true and logged.                                    *)
(***************************************************************************)
EXTENDS ToolFrameworkInv, TLAPS

(***************************************************************************)
(* The gates.                                                              *)
(***************************************************************************)

\* classify_risk lets a call run without a human only for a price change of at
\* most the small-change limit, predicted with autonomous confidence.
LEMMA LowRisk ==
    ASSUME NEW type \in ActionTypes, NEW ok \in BOOLEAN, NEW new \in Int,
           NEW cur \in Int, NEW conf \in Int,
           ~RequiresApproval(ClassifyRisk(type, ok, new, cur, conf))
    PROVE  /\ type = "price_change"
           /\ conf >= MIN_CONFIDENCE_FOR_AUTONOMOUS_ACTION
           /\ 100 * Abs(new - cur) <= SMALL_PRICE_CHANGE_PCT * cur
  <1>1. ClassifyRisk(type, ok, new, cur, conf) = "LOW"
    BY DEF RequiresApproval
  <1>2. ~(conf < MIN_CONFIDENCE_FOR_AUTONOMOUS_ACTION)
    BY <1>1 DEF ClassifyRisk
  <1>3. ClassifySupplierSwitch(ok, new, cur) # "LOW" /\ ClassifyStaffingChange(ok) # "LOW"
    BY DEF ClassifySupplierSwitch, ClassifyStaffingChange
  <1>4. type = "price_change" /\ ClassifyPriceChange(ok, new, cur) = "LOW"
    BY <1>1, <1>2, <1>3 DEF ClassifyRisk, ActionTypes
  <1>5. 100 * Abs(new - cur) <= SMALL_PRICE_CHANGE_PCT * cur
    BY <1>4 DEF ClassifyPriceChange
  <1>6. QED
    BY <1>2, <1>4, <1>5 DEF MIN_CONFIDENCE_FOR_AUTONOMOUS_ACTION

\* The simulator reports a confidence that clears the gate only for price and
\* supplier changes; staffing and menu changes are always held.
LEMMA ConfidenceFacts ==
    ASSUME NEW type \in ActionTypes, NEW new \in Int, NEW cur \in Int,
           type = "price_change" => cur > 0,
           NEW conf \in Confidences(type, new, cur)
    PROVE  /\ conf \in Int
           /\ Cleared(conf) => type \in {"price_change", "supplier_switch"}
  BY DEF Confidences, PriceConfidences, SupplierConfidences, MenuConfidences,
         StaffingConfidences, PriceConfidence, RoundedRatio, AtLeast, AtMost, Abs, Cleared,
         CONFIDENCE_THRESHOLD, ActionTypes

(***************************************************************************)
(* What a step does to idempotency_keys when it claims no key.             *)
(***************************************************************************)
KeepsBindings ==
    /\ idem' \in [Keys -> Claims]
    /\ \A k \in Keys : idem'[k].req = idem[k].req
    /\ \A k \in Keys : idem'[k].status = "none" <=> idem[k].status = "none"
    /\ \A k \in Keys : idem'[k].status = "completed" => idem'[k].result \in Results

LEMMA UnchangedKeepsBindings ==
    ASSUME IndInv, UNCHANGED idem PROVE KeepsBindings
  BY DEF IndInv, TypeOK, KeysAreBound, KeepsBindings

(***************************************************************************)
(* Steps that change no table.                                             *)
(***************************************************************************)

\* A call that ends without touching a table, by return, exception or crash.
LEMMA ForgetPreserves ==
    ASSUME IndInv, NEW c \in Callers,
           Forget(c), holds' = holds \ {c}, KeepsBindings,
           UNCHANGED <<decision, approval, execLog, value, applied>>
    PROVE  IndInv'
  <1> USE RequestsAssumption, TargetsAssumption, NoneAssumption DEF IndInv
  <1>1. TypeOK'
    BY DEF Forget, Goto, KeepsBindings, TypeOK, FramesAgree, Claims, DecisionRows,
      Results, Deciding, Recorded, Locations
  <1>2. FramesAgree'
    BY DEF Forget, Goto, KeepsBindings, TypeOK, FramesAgree, KeysAreBound,
      GatesHeld, AuthorityOfCalls, OneExecution, Serialized, Owner, Deciding,
      Recorded, Claims, DecisionRows, Results
  <1>3. KeysAreBound'
    BY DEF Forget, Goto, KeepsBindings, TypeOK, FramesAgree, KeysAreBound,
      GatesHeld, AuthorityOfCalls, OneExecution, Serialized, Owner, Deciding,
      Recorded, Claims, DecisionRows, Results
  <1>4. GatesHeld'
    BY DEF Forget, Goto, KeepsBindings, TypeOK, FramesAgree, KeysAreBound,
      GatesHeld, AuthorityOfCalls, OneExecution, Serialized, Owner, Deciding,
      Recorded, Claims, DecisionRows, Results
  <1>5. AuthorityOfCalls'
    BY DEF Forget, Goto, KeepsBindings, TypeOK, FramesAgree, KeysAreBound,
      GatesHeld, AuthorityOfCalls, OneExecution, Serialized, Owner, Deciding,
      Recorded, Claims, DecisionRows, Results
  <1>6. OneExecution'
    BY DEF Forget, Goto, KeepsBindings, TypeOK, FramesAgree, KeysAreBound,
      GatesHeld, AuthorityOfCalls, OneExecution, Serialized, Owner, Deciding,
      Recorded, Claims, DecisionRows, Results
  <1>7. Serialized'
    BY DEF Forget, Goto, KeepsBindings, TypeOK, FramesAgree, KeysAreBound,
      GatesHeld, AuthorityOfCalls, OneExecution, Serialized, Owner, Deciding,
      Recorded, Claims, DecisionRows, Results
  <1>8. QED
    BY <1>1, <1>2, <1>3, <1>4, <1>5, <1>6, <1>7 DEF IndInv

\* The idempotent wrapper catches what execute_tool_call raised.
LEMMA ToFailPreserves ==
    ASSUME IndInv, NEW c \in Callers,
           Goto(c, "fail"), path[c] = "tool",
           pc[c] \in {"propose", "lock", "critique", "request", "execute", "observe",
                      "apply", "log"},
           holds' = holds \ {c}, UNCHANGED local,
           UNCHANGED <<idem, decision, approval, execLog, value, applied>>
    PROVE  IndInv'
  <1> USE RequestsAssumption, TargetsAssumption, NoneAssumption DEF IndInv
  <1>1. TypeOK'
    BY DEF Goto, local, TypeOK, FramesAgree, Claims, DecisionRows, Results,
      Deciding, Recorded, Locations
  <1>2. FramesAgree'
    BY DEF Goto, local, TypeOK, FramesAgree, KeysAreBound, GatesHeld,
      AuthorityOfCalls, OneExecution, Serialized, Owner, Deciding, Recorded, Claims,
      DecisionRows, Results
  <1>3. KeysAreBound'
    BY DEF Goto, local, TypeOK, FramesAgree, KeysAreBound, GatesHeld,
      AuthorityOfCalls, OneExecution, Serialized, Owner, Deciding, Recorded, Claims,
      DecisionRows, Results
  <1>4. GatesHeld'
    BY DEF Goto, local, TypeOK, FramesAgree, KeysAreBound, GatesHeld,
      AuthorityOfCalls, OneExecution, Serialized, Owner, Deciding, Recorded, Claims,
      DecisionRows, Results
  <1>5. AuthorityOfCalls'
    BY DEF Goto, local, TypeOK, FramesAgree, KeysAreBound, GatesHeld,
      AuthorityOfCalls, OneExecution, Serialized, Owner, Deciding, Recorded, Claims,
      DecisionRows, Results
  <1>6. OneExecution'
    BY DEF Goto, local, TypeOK, FramesAgree, KeysAreBound, GatesHeld,
      AuthorityOfCalls, OneExecution, Serialized, Owner, Deciding, Recorded, Claims,
      DecisionRows, Results
  <1>7. Serialized'
    BY DEF Goto, local, TypeOK, FramesAgree, KeysAreBound, GatesHeld,
      AuthorityOfCalls, OneExecution, Serialized, Owner, Deciding, Recorded, Claims,
      DecisionRows, Results
  <1>8. QED
    BY <1>1, <1>2, <1>3, <1>4, <1>5, <1>6, <1>7 DEF IndInv

\* A refusal on its way to the log.
LEMMA ToLogPreserves ==
    ASSUME IndInv, NEW c \in Callers,
           NEW result \in Results, LogResult(c, result), UNCHANGED dec,
           path[c] = "tool", pc[c] \in {"lock", "critique"}, UNCHANGED holds,
           UNCHANGED <<idem, decision, approval, execLog, value, applied>>
    PROVE  IndInv'
  <1> USE RequestsAssumption, TargetsAssumption, NoneAssumption DEF IndInv
  <1>1. TypeOK'
    BY DEF LogResult, Goto, TypeOK, FramesAgree, Claims, DecisionRows, Results,
      Deciding, Recorded, Locations
  <1>2. FramesAgree'
    BY DEF LogResult, Goto, TypeOK, FramesAgree, KeysAreBound, GatesHeld,
      AuthorityOfCalls, OneExecution, Serialized, Owner, Deciding, Recorded, Claims,
      DecisionRows, Results
  <1>3. KeysAreBound'
    BY DEF LogResult, Goto, TypeOK, FramesAgree, KeysAreBound, GatesHeld,
      AuthorityOfCalls, OneExecution, Serialized, Owner, Deciding, Recorded, Claims,
      DecisionRows, Results
  <1>4. GatesHeld'
    BY DEF LogResult, Goto, TypeOK, FramesAgree, KeysAreBound, GatesHeld,
      AuthorityOfCalls, OneExecution, Serialized, Owner, Deciding, Recorded, Claims,
      DecisionRows, Results
  <1>5. AuthorityOfCalls'
    BY DEF LogResult, Goto, TypeOK, FramesAgree, KeysAreBound, GatesHeld,
      AuthorityOfCalls, OneExecution, Serialized, Owner, Deciding, Recorded, Claims,
      DecisionRows, Results
  <1>6. OneExecution'
    BY DEF LogResult, Goto, TypeOK, FramesAgree, KeysAreBound, GatesHeld,
      AuthorityOfCalls, OneExecution, Serialized, Owner, Deciding, Recorded, Claims,
      DecisionRows, Results
  <1>7. Serialized'
    BY DEF LogResult, Goto, TypeOK, FramesAgree, KeysAreBound, GatesHeld,
      AuthorityOfCalls, OneExecution, Serialized, Owner, Deciding, Recorded, Claims,
      DecisionRows, Results
  <1>8. QED
    BY <1>1, <1>2, <1>3, <1>4, <1>5, <1>6, <1>7 DEF IndInv

\* Steps that only move on.
LEMMA MovePreserves ==
    ASSUME IndInv, NEW c \in Callers,
           NEW l \in Locations, Goto(c, l), UNCHANGED local, UNCHANGED holds,
           UNCHANGED <<idem, decision, approval, execLog, value, applied>>,
           \/ pc[c] = "claim" /\ l = "abandon" /\ idem[key[c]].status # "none"
           \/ pc[c] = "critique" /\ l = "request"
           \/ pc[c] = "revalidate" /\ l = "approve"
    PROVE  IndInv'
  <1> USE RequestsAssumption, TargetsAssumption, NoneAssumption DEF IndInv
  <1>1. TypeOK'
    BY DEF Goto, local, TypeOK, FramesAgree, Claims, DecisionRows, Results,
      Deciding, Recorded, Locations
  <1>2. FramesAgree'
    BY DEF Goto, local, TypeOK, FramesAgree, KeysAreBound, GatesHeld,
      AuthorityOfCalls, OneExecution, Serialized, Owner, Deciding, Recorded, Claims,
      DecisionRows, Results
  <1>3. KeysAreBound'
    BY DEF Goto, local, TypeOK, FramesAgree, KeysAreBound, GatesHeld,
      AuthorityOfCalls, OneExecution, Serialized, Owner, Deciding, Recorded, Claims,
      DecisionRows, Results
  <1>4. GatesHeld'
    BY DEF Goto, local, TypeOK, FramesAgree, KeysAreBound, GatesHeld,
      AuthorityOfCalls, OneExecution, Serialized, Owner, Deciding, Recorded, Claims,
      DecisionRows, Results
  <1>5. AuthorityOfCalls'
    BY DEF Goto, local, TypeOK, FramesAgree, KeysAreBound, GatesHeld,
      AuthorityOfCalls, OneExecution, Serialized, Owner, Deciding, Recorded, Claims,
      DecisionRows, Results
  <1>6. OneExecution'
    BY DEF Goto, local, TypeOK, FramesAgree, KeysAreBound, GatesHeld,
      AuthorityOfCalls, OneExecution, Serialized, Owner, Deciding, Recorded, Claims,
      DecisionRows, Results
  <1>7. Serialized'
    BY DEF Goto, local, TypeOK, FramesAgree, KeysAreBound, GatesHeld,
      AuthorityOfCalls, OneExecution, Serialized, Owner, Deciding, Recorded, Claims,
      DecisionRows, Results
  <1>8. QED
    BY <1>1, <1>2, <1>3, <1>4, <1>5, <1>6, <1>7 DEF IndInv

(***************************************************************************)
(* Raising, and answering without owning the key.                          *)
(***************************************************************************)

\* An exception at any point of a call in flight.
LEMMA RaisedPreserves ==
    ASSUME IndInv, NEW c \in Callers, Raised(c), pc[c] \notin {"idle", "return"},
           UNCHANGED <<idem, decision, approval, execLog, value, applied>>
    PROVE  IndInv'
  <1>1. CASE path[c] = "tool" /\ pc[c] \notin {"claim", "abandon", "complete", "fail"}
    <2>1. pc[c] \in {"propose", "lock", "critique", "request", "execute", "observe",
                     "apply", "log"}
      BY <1>1 DEF IndInv, TypeOK, FramesAgree, Locations
    <2>2. Goto(c, "fail") /\ UNCHANGED local /\ holds' = holds \ {c}
      BY <1>1 DEF Raised
    <2>3. QED
      BY <1>1, <2>1, <2>2, ToFailPreserves
  <1>2. CASE ~(path[c] = "tool" /\ pc[c] \notin {"claim", "abandon", "complete", "fail"})
    BY <1>2, UnchangedKeepsBindings, ForgetPreserves DEF Raised
  <1>3. QED
    BY <1>1, <1>2

\* A call that is not inside the locked block ends.
LEMMA UnlockedForgetPreserves ==
    ASSUME IndInv, NEW c \in Callers, Forget(c), UNCHANGED holds, KeepsBindings,
           pc[c] \notin {"critique", "request", "execute", "observe", "apply", "log"},
           UNCHANGED <<decision, approval, execLog, value, applied>>
    PROVE  IndInv'
  <1>1. holds' = holds \ {c}
    BY DEF IndInv, Serialized
  <1>2. QED
    BY <1>1, ForgetPreserves

\* claim() answers for the owner of the key.
LEMMA ReturnAnswerPreserves ==
    ASSUME IndInv, NEW c \in Callers,
           NEW result \in Results, NEW d \in Decisions \cup {None},
           pc[c] \in {"claim", "abandon"}, Goto(c, "return"),
           res' = [res EXCEPT ![c] = result], dec' = [dec EXCEPT ![c] = d],
           KeepsBindings,
           UNCHANGED <<path, key, req, holds, decision, approval, execLog, value, applied>>
    PROVE  IndInv'
  <1> USE RequestsAssumption, TargetsAssumption, NoneAssumption DEF IndInv
  <1>1. TypeOK'
    BY DEF Goto, KeepsBindings, TypeOK, FramesAgree, Claims, DecisionRows, Results,
      Deciding, Recorded, Locations
  <1>2. FramesAgree'
    BY DEF Goto, KeepsBindings, TypeOK, FramesAgree, KeysAreBound, GatesHeld,
      AuthorityOfCalls, OneExecution, Serialized, Owner, Deciding, Recorded, Claims,
      DecisionRows, Results
  <1>3. KeysAreBound'
    BY DEF Goto, KeepsBindings, TypeOK, FramesAgree, KeysAreBound, GatesHeld,
      AuthorityOfCalls, OneExecution, Serialized, Owner, Deciding, Recorded, Claims,
      DecisionRows, Results
  <1>4. GatesHeld'
    BY DEF Goto, KeepsBindings, TypeOK, FramesAgree, KeysAreBound, GatesHeld,
      AuthorityOfCalls, OneExecution, Serialized, Owner, Deciding, Recorded, Claims,
      DecisionRows, Results
  <1>5. AuthorityOfCalls'
    BY DEF Goto, KeepsBindings, TypeOK, FramesAgree, KeysAreBound, GatesHeld,
      AuthorityOfCalls, OneExecution, Serialized, Owner, Deciding, Recorded, Claims,
      DecisionRows, Results
  <1>6. OneExecution'
    BY DEF Goto, KeepsBindings, TypeOK, FramesAgree, KeysAreBound, GatesHeld,
      AuthorityOfCalls, OneExecution, Serialized, Owner, Deciding, Recorded, Claims,
      DecisionRows, Results
  <1>7. Serialized'
    BY DEF Goto, KeepsBindings, TypeOK, FramesAgree, KeysAreBound, GatesHeld,
      AuthorityOfCalls, OneExecution, Serialized, Owner, Deciding, Recorded, Claims,
      DecisionRows, Results
  <1>8. QED
    BY <1>1, <1>2, <1>3, <1>4, <1>5, <1>6, <1>7 DEF IndInv

\* complete() has written the row, or found it abandoned.
LEMMA CompletedPreserves ==
    ASSUME IndInv, NEW c \in Callers,
           pc[c] = "complete", Goto(c, "return"), KeepsBindings,
           UNCHANGED local, UNCHANGED <<holds, decision, approval, execLog, value, applied>>
    PROVE  IndInv'
  <1> USE RequestsAssumption, TargetsAssumption, NoneAssumption DEF IndInv
  <1>1. TypeOK'
    BY DEF Goto, local, KeepsBindings, TypeOK, FramesAgree, Claims, DecisionRows,
      Results, Deciding, Recorded, Locations
  <1>2. FramesAgree'
    BY DEF Goto, local, KeepsBindings, TypeOK, FramesAgree, KeysAreBound, GatesHeld,
      AuthorityOfCalls, OneExecution, Serialized, Owner, Deciding, Recorded, Claims,
      DecisionRows, Results
  <1>3. KeysAreBound'
    BY DEF Goto, local, KeepsBindings, TypeOK, FramesAgree, KeysAreBound, GatesHeld,
      AuthorityOfCalls, OneExecution, Serialized, Owner, Deciding, Recorded, Claims,
      DecisionRows, Results
  <1>4. GatesHeld'
    BY DEF Goto, local, KeepsBindings, TypeOK, FramesAgree, KeysAreBound, GatesHeld,
      AuthorityOfCalls, OneExecution, Serialized, Owner, Deciding, Recorded, Claims,
      DecisionRows, Results
  <1>5. AuthorityOfCalls'
    BY DEF Goto, local, KeepsBindings, TypeOK, FramesAgree, KeysAreBound, GatesHeld,
      AuthorityOfCalls, OneExecution, Serialized, Owner, Deciding, Recorded, Claims,
      DecisionRows, Results
  <1>6. OneExecution'
    BY DEF Goto, local, KeepsBindings, TypeOK, FramesAgree, KeysAreBound, GatesHeld,
      AuthorityOfCalls, OneExecution, Serialized, Owner, Deciding, Recorded, Claims,
      DecisionRows, Results
  <1>7. Serialized'
    BY DEF Goto, local, KeepsBindings, TypeOK, FramesAgree, KeysAreBound, GatesHeld,
      AuthorityOfCalls, OneExecution, Serialized, Owner, Deciding, Recorded, Claims,
      DecisionRows, Results
  <1>8. QED
    BY <1>1, <1>2, <1>3, <1>4, <1>5, <1>6, <1>7 DEF IndInv

\* A claim row changes and no call moves.
LEMMA AgedPreserves ==
    ASSUME IndInv,
           KeepsBindings,
           UNCHANGED <<pc, path, key, req, dec, res, holds, decision, approval, execLog,
                       value, applied>>
    PROVE  IndInv'
  <1> USE RequestsAssumption, TargetsAssumption, NoneAssumption DEF IndInv
  <1>1. TypeOK'
    BY DEF KeepsBindings, TypeOK, FramesAgree, Claims, DecisionRows, Results,
      Deciding, Recorded, Locations
  <1>2. FramesAgree'
    BY DEF KeepsBindings, TypeOK, FramesAgree, KeysAreBound, GatesHeld,
      AuthorityOfCalls, OneExecution, Serialized, Owner, Deciding, Recorded, Claims,
      DecisionRows, Results
  <1>3. KeysAreBound'
    BY DEF KeepsBindings, TypeOK, FramesAgree, KeysAreBound, GatesHeld,
      AuthorityOfCalls, OneExecution, Serialized, Owner, Deciding, Recorded, Claims,
      DecisionRows, Results
  <1>4. GatesHeld'
    BY DEF KeepsBindings, TypeOK, FramesAgree, KeysAreBound, GatesHeld,
      AuthorityOfCalls, OneExecution, Serialized, Owner, Deciding, Recorded, Claims,
      DecisionRows, Results
  <1>5. AuthorityOfCalls'
    BY DEF KeepsBindings, TypeOK, FramesAgree, KeysAreBound, GatesHeld,
      AuthorityOfCalls, OneExecution, Serialized, Owner, Deciding, Recorded, Claims,
      DecisionRows, Results
  <1>6. OneExecution'
    BY DEF KeepsBindings, TypeOK, FramesAgree, KeysAreBound, GatesHeld,
      AuthorityOfCalls, OneExecution, Serialized, Owner, Deciding, Recorded, Claims,
      DecisionRows, Results
  <1>7. Serialized'
    BY DEF KeepsBindings, TypeOK, FramesAgree, KeysAreBound, GatesHeld,
      AuthorityOfCalls, OneExecution, Serialized, Owner, Deciding, Recorded, Claims,
      DecisionRows, Results
  <1>8. QED
    BY <1>1, <1>2, <1>3, <1>4, <1>5, <1>6, <1>7 DEF IndInv

\* Taking the advisory lock.
LEMMA AcquireLockPreserves ==
    ASSUME IndInv, NEW c \in Callers,
           AcquireLock(c)
    PROVE  IndInv'
  <1> USE RequestsAssumption, TargetsAssumption, NoneAssumption DEF IndInv
  <1>1. TypeOK'
    BY DEF AcquireLock, Goto, LockFree, local, TypeOK, FramesAgree, Claims,
      DecisionRows, Results, Deciding, Recorded, Locations
  <1>2. FramesAgree'
    BY DEF AcquireLock, Goto, LockFree, local, TypeOK, FramesAgree, KeysAreBound,
      GatesHeld, AuthorityOfCalls, OneExecution, Serialized, Owner, Deciding,
      Recorded, Claims, DecisionRows, Results
  <1>3. KeysAreBound'
    BY DEF AcquireLock, Goto, LockFree, local, TypeOK, FramesAgree, KeysAreBound,
      GatesHeld, AuthorityOfCalls, OneExecution, Serialized, Owner, Deciding,
      Recorded, Claims, DecisionRows, Results
  <1>4. GatesHeld'
    BY DEF AcquireLock, Goto, LockFree, local, TypeOK, FramesAgree, KeysAreBound,
      GatesHeld, AuthorityOfCalls, OneExecution, Serialized, Owner, Deciding,
      Recorded, Claims, DecisionRows, Results
  <1>5. AuthorityOfCalls'
    BY DEF AcquireLock, Goto, LockFree, local, TypeOK, FramesAgree, KeysAreBound,
      GatesHeld, AuthorityOfCalls, OneExecution, Serialized, Owner, Deciding,
      Recorded, Claims, DecisionRows, Results
  <1>6. OneExecution'
    BY DEF AcquireLock, Goto, LockFree, local, TypeOK, FramesAgree, KeysAreBound,
      GatesHeld, AuthorityOfCalls, OneExecution, Serialized, Owner, Deciding,
      Recorded, Claims, DecisionRows, Results
  <1>7. Serialized'
    BY DEF AcquireLock, Goto, LockFree, local, TypeOK, FramesAgree, KeysAreBound,
      GatesHeld, AuthorityOfCalls, OneExecution, Serialized, Owner, Deciding,
      Recorded, Claims, DecisionRows, Results
  <1>8. QED
    BY <1>1, <1>2, <1>3, <1>4, <1>5, <1>6, <1>7 DEF IndInv

\* The request for approval is made by the only call that knows the decision.
LEMMA RequestApprovalPreserves ==
    ASSUME IndInv, NEW c \in Callers,
           RequestApproval(c)
    PROVE  IndInv'
  <1> USE RequestsAssumption, TargetsAssumption, NoneAssumption DEF IndInv
  <1>1. TypeOK'
    BY DEF RequestApproval, Goto, LogResult, TypeOK, FramesAgree, Claims,
      DecisionRows, Results, Deciding, Recorded, Locations
  <1>2. FramesAgree'
    BY DEF RequestApproval, Goto, LogResult, TypeOK, FramesAgree, KeysAreBound,
      GatesHeld, AuthorityOfCalls, OneExecution, Serialized, Owner, Deciding,
      Recorded, Claims, DecisionRows, Results
  <1>3. KeysAreBound'
    BY DEF RequestApproval, Goto, LogResult, TypeOK, FramesAgree, KeysAreBound,
      GatesHeld, AuthorityOfCalls, OneExecution, Serialized, Owner, Deciding,
      Recorded, Claims, DecisionRows, Results
  <1>4. GatesHeld'
    BY DEF RequestApproval, Goto, LogResult, TypeOK, FramesAgree, KeysAreBound,
      GatesHeld, AuthorityOfCalls, OneExecution, Serialized, Owner, Deciding,
      Recorded, Claims, DecisionRows, Results
  <1>5. AuthorityOfCalls'
    BY DEF RequestApproval, Goto, LogResult, TypeOK, FramesAgree, KeysAreBound,
      GatesHeld, AuthorityOfCalls, OneExecution, Serialized, Owner, Deciding,
      Recorded, Claims, DecisionRows, Results
  <1>6. OneExecution'
    BY DEF RequestApproval, Goto, LogResult, TypeOK, FramesAgree, KeysAreBound,
      GatesHeld, AuthorityOfCalls, OneExecution, Serialized, Owner, Deciding,
      Recorded, Claims, DecisionRows, Results
  <1>7. Serialized'
    BY DEF RequestApproval, Goto, LogResult, TypeOK, FramesAgree, KeysAreBound,
      GatesHeld, AuthorityOfCalls, OneExecution, Serialized, Owner, Deciding,
      Recorded, Claims, DecisionRows, Results
  <1>8. QED
    BY <1>1, <1>2, <1>3, <1>4, <1>5, <1>6, <1>7 DEF IndInv

\* Phases 2 and 3 of execute_and_observe.
LEMMA EvaluatePreserves ==
    ASSUME IndInv, NEW c \in Callers,
           Evaluate(c)
    PROVE  IndInv'
  <1> USE RequestsAssumption, TargetsAssumption, NoneAssumption DEF IndInv
  <1>1. TypeOK'
    <2>1. decision' \in [Decisions -> DecisionRows]
      <3>1. decision' = [decision EXCEPT ![dec[c]].status = "evaluated"]
        BY DEF Evaluate
      <3>2. \A row \in DecisionRows : [row EXCEPT !.status = "evaluated"] \in DecisionRows
        BY DEF DecisionRows
      <3> QED BY <3>1, <3>2 DEF TypeOK
    <2>2. pc' \in [Callers -> Locations]
      BY DEF Evaluate, Goto, TypeOK, Locations
    <2> QED BY <2>1, <2>2 DEF Evaluate, local, TypeOK
  <1>2. FramesAgree'
    BY DEF Evaluate, Goto, local, TypeOK, FramesAgree, KeysAreBound, GatesHeld,
      AuthorityOfCalls, OneExecution, Serialized, Owner, Deciding, Recorded, Claims,
      DecisionRows, Results
  <1>3. KeysAreBound'
    BY DEF Evaluate, Goto, local, TypeOK, FramesAgree, KeysAreBound, GatesHeld,
      AuthorityOfCalls, OneExecution, Serialized, Owner, Deciding, Recorded, Claims,
      DecisionRows, Results
  <1>4. GatesHeld'
    BY DEF Evaluate, Goto, local, TypeOK, FramesAgree, KeysAreBound, GatesHeld,
      AuthorityOfCalls, OneExecution, Serialized, Owner, Deciding, Recorded, Claims,
      DecisionRows, Results
  <1>5. AuthorityOfCalls'
    BY DEF Evaluate, Goto, local, TypeOK, FramesAgree, KeysAreBound, GatesHeld,
      AuthorityOfCalls, OneExecution, Serialized, Owner, Deciding, Recorded, Claims,
      DecisionRows, Results
  <1>6. OneExecution'
    BY DEF Evaluate, Goto, local, TypeOK, FramesAgree, KeysAreBound, GatesHeld,
      AuthorityOfCalls, OneExecution, Serialized, Owner, Deciding, Recorded, Claims,
      DecisionRows, Results
  <1>7. Serialized'
    BY DEF Evaluate, Goto, local, TypeOK, FramesAgree, KeysAreBound, GatesHeld,
      AuthorityOfCalls, OneExecution, Serialized, Owner, Deciding, Recorded, Claims,
      DecisionRows, Results
  <1>8. QED
    BY <1>1, <1>2, <1>3, <1>4, <1>5, <1>6, <1>7 DEF IndInv

\* The execution log, and the end of the locked block.
LEMMA WriteLogPreserves ==
    ASSUME IndInv, NEW c \in Callers,
           WriteLog(c)
    PROVE  IndInv'
  <1> USE RequestsAssumption, TargetsAssumption, NoneAssumption DEF IndInv
  <1>1. TypeOK'
    BY DEF WriteLog, Goto, local, TypeOK, FramesAgree, Claims, DecisionRows,
      Results, Deciding, Recorded, Locations
  <1>2. FramesAgree'
    BY DEF WriteLog, Goto, local, TypeOK, FramesAgree, KeysAreBound, GatesHeld,
      AuthorityOfCalls, OneExecution, Serialized, Owner, Deciding, Recorded, Claims,
      DecisionRows, Results
  <1>3. KeysAreBound'
    BY DEF WriteLog, Goto, local, TypeOK, FramesAgree, KeysAreBound, GatesHeld,
      AuthorityOfCalls, OneExecution, Serialized, Owner, Deciding, Recorded, Claims,
      DecisionRows, Results
  <1>4. GatesHeld'
    BY DEF WriteLog, Goto, local, TypeOK, FramesAgree, KeysAreBound, GatesHeld,
      AuthorityOfCalls, OneExecution, Serialized, Owner, Deciding, Recorded, Claims,
      DecisionRows, Results
  <1>5. AuthorityOfCalls'
    BY DEF WriteLog, Goto, local, TypeOK, FramesAgree, KeysAreBound, GatesHeld,
      AuthorityOfCalls, OneExecution, Serialized, Owner, Deciding, Recorded, Claims,
      DecisionRows, Results
  <1>6. OneExecution'
    BY DEF WriteLog, Goto, local, TypeOK, FramesAgree, KeysAreBound, GatesHeld,
      AuthorityOfCalls, OneExecution, Serialized, Owner, Deciding, Recorded, Claims,
      DecisionRows, Results
  <1>7. Serialized'
    BY DEF WriteLog, Goto, local, TypeOK, FramesAgree, KeysAreBound, GatesHeld,
      AuthorityOfCalls, OneExecution, Serialized, Owner, Deciding, Recorded, Claims,
      DecisionRows, Results
  <1>8. QED
    BY <1>1, <1>2, <1>3, <1>4, <1>5, <1>6, <1>7 DEF IndInv

\* Phase 1 of execute_and_observe.
LEMMA ClaimDecisionPreserves ==
    ASSUME IndInv, NEW c \in Callers,
           ClaimDecision(c)
    PROVE  IndInv'
  <1> USE RequestsAssumption, TargetsAssumption, NoneAssumption DEF IndInv
  <1>1. TypeOK'
    <2>1. dec[c] \in Decisions /\ decision[dec[c]] \in DecisionRows
      BY DEF ClaimDecision, TypeOK, FramesAgree, Deciding
    <2>2. decision' \in [Decisions -> DecisionRows]
      BY <2>1 DEF ClaimDecision, TypeOK, DecisionRows
    <2>3. pc' \in [Callers -> Locations]
      BY DEF ClaimDecision, Goto, TypeOK, Locations
    <2>4. QED
      BY <2>2, <2>3 DEF ClaimDecision, TypeOK, local
  <1>2. FramesAgree'
    BY DEF ClaimDecision, Goto, Executable, local, TypeOK, FramesAgree,
      KeysAreBound, GatesHeld, AuthorityOfCalls, OneExecution, Serialized, Owner,
      Deciding, Recorded, Claims, DecisionRows, Results
  <1>3. KeysAreBound'
    BY DEF ClaimDecision, Goto, Executable, local, TypeOK, FramesAgree,
      KeysAreBound, GatesHeld, AuthorityOfCalls, OneExecution, Serialized, Owner,
      Deciding, Recorded, Claims, DecisionRows, Results
  <1>4. GatesHeld'
    BY DEF ClaimDecision, Goto, Executable, local, TypeOK, FramesAgree,
      KeysAreBound, GatesHeld, AuthorityOfCalls, OneExecution, Serialized, Owner,
      Deciding, Recorded, Claims, DecisionRows, Results
  <1>5. AuthorityOfCalls'
    BY DEF ClaimDecision, Goto, Executable, local, TypeOK, FramesAgree,
      KeysAreBound, GatesHeld, AuthorityOfCalls, OneExecution, Serialized, Owner,
      Deciding, Recorded, Claims, DecisionRows, Results
  <1>6. OneExecution'
    BY DEF ClaimDecision, Goto, Executable, local, TypeOK, FramesAgree,
      KeysAreBound, GatesHeld, AuthorityOfCalls, OneExecution, Serialized, Owner,
      Deciding, Recorded, Claims, DecisionRows, Results
  <1>7. Serialized'
    BY DEF ClaimDecision, Goto, Executable, local, TypeOK, FramesAgree,
      KeysAreBound, GatesHeld, AuthorityOfCalls, OneExecution, Serialized, Owner,
      Deciding, Recorded, Claims, DecisionRows, Results
  <1>8. QED
    BY <1>1, <1>2, <1>3, <1>4, <1>5, <1>6, <1>7 DEF IndInv

(***************************************************************************)
(* Entering.                                                               *)
(***************************************************************************)

\* A caller submits a request under a key.
LEMMA StartPreserves ==
    ASSUME IndInv, NEW c \in Callers,
           NEW k \in Keys, NEW r \in Requests, Start(c, k, r)
    PROVE  IndInv'
  <1> USE RequestsAssumption, TargetsAssumption, NoneAssumption DEF IndInv
  <1>1. TypeOK'
    BY DEF Start, Goto, TypeOK, FramesAgree, Claims, DecisionRows, Results,
      Deciding, Recorded, Locations
  <1>2. FramesAgree'
    BY DEF Start, Goto, TypeOK, FramesAgree, KeysAreBound, GatesHeld,
      AuthorityOfCalls, OneExecution, Serialized, Owner, Deciding, Recorded, Claims,
      DecisionRows, Results
  <1>3. KeysAreBound'
    BY DEF Start, Goto, TypeOK, FramesAgree, KeysAreBound, GatesHeld,
      AuthorityOfCalls, OneExecution, Serialized, Owner, Deciding, Recorded, Claims,
      DecisionRows, Results
  <1>4. GatesHeld'
    BY DEF Start, Goto, TypeOK, FramesAgree, KeysAreBound, GatesHeld,
      AuthorityOfCalls, OneExecution, Serialized, Owner, Deciding, Recorded, Claims,
      DecisionRows, Results
  <1>5. AuthorityOfCalls'
    BY DEF Start, Goto, TypeOK, FramesAgree, KeysAreBound, GatesHeld,
      AuthorityOfCalls, OneExecution, Serialized, Owner, Deciding, Recorded, Claims,
      DecisionRows, Results
  <1>6. OneExecution'
    BY DEF Start, Goto, TypeOK, FramesAgree, KeysAreBound, GatesHeld,
      AuthorityOfCalls, OneExecution, Serialized, Owner, Deciding, Recorded, Claims,
      DecisionRows, Results
  <1>7. Serialized'
    BY DEF Start, Goto, TypeOK, FramesAgree, KeysAreBound, GatesHeld,
      AuthorityOfCalls, OneExecution, Serialized, Owner, Deciding, Recorded, Claims,
      DecisionRows, Results
  <1>8. QED
    BY <1>1, <1>2, <1>3, <1>4, <1>5, <1>6, <1>7 DEF IndInv

\* A reviewer resolves a request, or an approved one is carried out.
LEMMA EnterApprovedPreserves ==
    ASSUME IndInv, NEW c \in Callers,
           NEW d \in Decisions, NEW l \in {"revalidate", "reject", "lock"},
           approval[d] # "none", l = "lock" => approval[d] = "approved",
           EnterApproved(c, d, l)
    PROVE  IndInv'
  <1> USE RequestsAssumption, TargetsAssumption, NoneAssumption DEF IndInv
  <1>1. TypeOK'
    BY DEF EnterApproved, Goto, TypeOK, FramesAgree, Claims, DecisionRows, Results,
      Deciding, Recorded, Locations
  <1>2. FramesAgree'
    BY DEF EnterApproved, Goto, TypeOK, FramesAgree, KeysAreBound, GatesHeld,
      AuthorityOfCalls, OneExecution, Serialized, Owner, Deciding, Recorded, Claims,
      DecisionRows, Results
  <1>3. KeysAreBound'
    BY DEF EnterApproved, Goto, TypeOK, FramesAgree, KeysAreBound, GatesHeld,
      AuthorityOfCalls, OneExecution, Serialized, Owner, Deciding, Recorded, Claims,
      DecisionRows, Results
  <1>4. GatesHeld'
    BY DEF EnterApproved, Goto, TypeOK, FramesAgree, KeysAreBound, GatesHeld,
      AuthorityOfCalls, OneExecution, Serialized, Owner, Deciding, Recorded, Claims,
      DecisionRows, Results
  <1>5. AuthorityOfCalls'
    BY DEF EnterApproved, Goto, TypeOK, FramesAgree, KeysAreBound, GatesHeld,
      AuthorityOfCalls, OneExecution, Serialized, Owner, Deciding, Recorded, Claims,
      DecisionRows, Results
  <1>6. OneExecution'
    BY DEF EnterApproved, Goto, TypeOK, FramesAgree, KeysAreBound, GatesHeld,
      AuthorityOfCalls, OneExecution, Serialized, Owner, Deciding, Recorded, Claims,
      DecisionRows, Results
  <1>7. Serialized'
    BY DEF EnterApproved, Goto, TypeOK, FramesAgree, KeysAreBound, GatesHeld,
      AuthorityOfCalls, OneExecution, Serialized, Owner, Deciding, Recorded, Claims,
      DecisionRows, Results
  <1>8. QED
    BY <1>1, <1>2, <1>3, <1>4, <1>5, <1>6, <1>7 DEF IndInv

(***************************************************************************)
(* The claim.                                                              *)
(***************************************************************************)

\* The insert won: the caller becomes the only owner of the key.
LEMMA ClaimedPreserves ==
    ASSUME IndInv, NEW c \in Callers,
           NEW l \in {"propose", "log"}, NEW r \in Results \cup {None},
           l = "log" => r \in Results,
           pc[c] = "claim", idem[key[c]].status = "none",
           idem' = [idem EXCEPT ![key[c]] =
                      [status |-> "in_progress", req |-> req[c], result |-> None,
                       dec |-> None, stale |-> FALSE]],
           Goto(c, l), res' = [res EXCEPT ![c] = r],
           UNCHANGED <<path, key, req, dec, holds, decision, approval, execLog, value,
                       applied>>
    PROVE  IndInv'
  <1> USE RequestsAssumption, TargetsAssumption, NoneAssumption DEF IndInv
  <1>1. TypeOK'
    BY DEF Goto, TypeOK, FramesAgree, Claims, DecisionRows, Results, Deciding,
      Recorded, Locations
  <1>2. FramesAgree'
    BY DEF Goto, TypeOK, FramesAgree, KeysAreBound, GatesHeld, AuthorityOfCalls,
      OneExecution, Serialized, Owner, Deciding, Recorded, Claims, DecisionRows,
      Results
  <1>3. KeysAreBound'
    BY DEF Goto, TypeOK, FramesAgree, KeysAreBound, GatesHeld, AuthorityOfCalls,
      OneExecution, Serialized, Owner, Deciding, Recorded, Claims, DecisionRows,
      Results
  <1>4. GatesHeld'
    BY DEF Goto, TypeOK, FramesAgree, KeysAreBound, GatesHeld, AuthorityOfCalls,
      OneExecution, Serialized, Owner, Deciding, Recorded, Claims, DecisionRows,
      Results
  <1>5. AuthorityOfCalls'
    BY DEF Goto, TypeOK, FramesAgree, KeysAreBound, GatesHeld, AuthorityOfCalls,
      OneExecution, Serialized, Owner, Deciding, Recorded, Claims, DecisionRows,
      Results
  <1>6. OneExecution'
    BY DEF Goto, TypeOK, FramesAgree, KeysAreBound, GatesHeld, AuthorityOfCalls,
      OneExecution, Serialized, Owner, Deciding, Recorded, Claims, DecisionRows,
      Results
  <1>7. Serialized'
    BY DEF Goto, TypeOK, FramesAgree, KeysAreBound, GatesHeld, AuthorityOfCalls,
      OneExecution, Serialized, Owner, Deciding, Recorded, Claims, DecisionRows,
      Results
  <1>8. QED
    BY <1>1, <1>2, <1>3, <1>4, <1>5, <1>6, <1>7 DEF IndInv

\* ClaimInsert, with and without the early refusal of a menu addition.
LEMMA ClaimInsertPreserves ==
    ASSUME IndInv, NEW c \in Callers, ClaimInsert(c)
    PROVE  IndInv'
  <1>1. CASE req[c].type = "menu_add"
    <2>1. Goto(c, "log") /\ res' = [res EXCEPT ![c] = "unsupported_action"]
      BY <1>1 DEF ClaimInsert, LogResult
    <2>2. UNCHANGED <<path, key, req, dec>>
      BY <1>1 DEF ClaimInsert, LogResult
    <2>3. "unsupported_action" \in Results
      BY DEF Results
    <2>4. QED
      BY <2>1, <2>2, <2>3, ClaimedPreserves DEF ClaimInsert
  <1>2. CASE req[c].type # "menu_add"
    <2>1. Goto(c, "propose") /\ UNCHANGED <<path, key, req, dec, res>>
      BY <1>2 DEF ClaimInsert, local
    <2>2. res' = [res EXCEPT ![c] = res[c]] /\ res[c] \in Results \cup {None}
      BY <2>1 DEF IndInv, TypeOK
    <2>3. QED
      BY <2>1, <2>2, ClaimedPreserves DEF ClaimInsert
  <1>3. QED
    BY <1>1, <1>2

\* claim() answers or raises, and does not unbind a key.
LEMMA AnswerPreserves ==
    ASSUME IndInv, NEW c \in Callers, NEW result \in Results,
           NEW d \in Decisions \cup {None}, pc[c] \in {"claim", "abandon"},
           Answer(c, result, d), KeepsBindings, UNCHANGED holds,
           UNCHANGED <<decision, approval, execLog, value, applied>>
    PROVE  IndInv'
  <1>1. CASE idem[key[c]].req # req[c]
    BY <1>1, UnlockedForgetPreserves DEF Answer
  <1>2. CASE idem[key[c]].req = req[c]
    BY <1>2, ReturnAnswerPreserves DEF Answer
  <1>3. QED
    BY <1>1, <1>2

\* A conflicting claim reads the row.
LEMMA ClaimConflictPreserves ==
    ASSUME IndInv, NEW c \in Callers, ClaimConflict(c)
    PROVE  IndInv'
  <1> DEFINE row == idem[key[c]]
  <1>1. /\ pc[c] = "claim"
        /\ UNCHANGED holds
        /\ UNCHANGED <<idem, decision, approval, execLog, value, applied>>
    BY DEF ClaimConflict
  <1>2. KeepsBindings
    BY <1>1, UnchangedKeepsBindings
  <1>3. key[c] \in Keys /\ row \in Claims
    BY <1>1 DEF IndInv, TypeOK, FramesAgree
  <1>4. "previous_attempt_incomplete" \in Results /\ "request_in_progress" \in Results
    BY DEF Results
  <1>5. CASE row.status = "completed"
    <2>1. Answer(c, row.result, row.dec)
      BY <1>5 DEF ClaimConflict
    <2>2. row.result \in Results /\ row.dec \in Decisions \cup {None}
      BY <1>3, <1>5 DEF Claims, IndInv, KeysAreBound
    <2>3. QED
      BY <1>1, <1>2, <2>1, <2>2, AnswerPreserves
  <1>6. CASE row.status = "failed"
    <2>1. Answer(c, "previous_attempt_incomplete", None)
      BY <1>6 DEF ClaimConflict
    <2>2. QED
      BY <1>1, <1>2, <1>4, <2>1, AnswerPreserves
  <1>7. CASE row.status = "in_progress" /\ row.stale
    <2>1. Goto(c, "abandon") /\ UNCHANGED local
      BY <1>7 DEF ClaimConflict
    <2>2. QED
      BY <1>1, <1>7, <2>1, MovePreserves DEF Locations
  <1>8. CASE row.status = "in_progress" /\ ~row.stale
    <2>1. Answer(c, "request_in_progress", None)
      BY <1>8 DEF ClaimConflict
    <2>2. QED
      BY <1>1, <1>2, <1>4, <2>1, AnswerPreserves
  <1>9. QED
    BY <1>3, <1>5, <1>6, <1>7, <1>8 DEF ClaimConflict, Claims

\* A stale claim is overwritten, whatever became of it since it was read.
LEMMA AbandonPreserves ==
    ASSUME IndInv, NEW c \in Callers, Abandon(c)
    PROVE  IndInv'
  <1>1. key[c] \in Keys /\ idem \in [Keys -> Claims]
    BY DEF Abandon, IndInv, TypeOK, FramesAgree
  <1>2. "previous_attempt_incomplete" \in Results /\ "abandoned" \in Results
    BY DEF Results
  <1>3. idem[key[c]].status # "none"
    BY DEF Abandon, IndInv, FramesAgree
  <1>4. KeepsBindings
    <2>1. idem[key[c]] \in Claims
      BY <1>1
    <2>2. idem' = [idem EXCEPT ![key[c]] =
                     [idem[key[c]] EXCEPT !.status = "failed", !.result = "abandoned"]]
      BY <1>1, <2>1 DEF Abandon, Claims
    <2>3. [idem[key[c]] EXCEPT !.status = "failed", !.result = "abandoned"] \in Claims
      BY <1>2, <2>1 DEF Claims
    <2>4. QED
      BY <1>1, <1>2, <1>3, <2>1, <2>2, <2>3 DEF KeepsBindings, Claims, IndInv, KeysAreBound
  <1>5. QED
    BY <1>2, <1>4, AnswerPreserves DEF Abandon

(***************************************************************************)
(* The gates.                                                              *)
(***************************************************************************)

\* A decision row is inserted by the only owner of its key.
LEMMA ProposedPreserves ==
    ASSUME IndInv, NEW c \in Callers,
           NEW d \in Decisions, NEW conf \in Int, pc[c] = "propose",
           NEW l \in {"lock", "log"}, NEW r \in Results \cup {None},
           NEW status \in {"simulated", "held"},
           l = "log" => r \in Results, l = "lock" => status = "simulated",
           status = "simulated" => /\ Cleared(conf)
                                   /\ req[c].type \in {"price_change", "supplier_switch"}
                                   /\ req[c].new > 0,
           decision[d].status = "none",
           decision' = [decision EXCEPT ![d] =
                          [status |-> status, req |-> req[c], key |-> key[c],
                           confidence |-> conf]],
           dec' = [dec EXCEPT ![c] = d], Goto(c, l), res' = [res EXCEPT ![c] = r],
           UNCHANGED <<path, key, req, holds, idem, approval, execLog, value, applied>>
    PROVE  IndInv'
  <1> USE RequestsAssumption, TargetsAssumption, NoneAssumption DEF IndInv
  <1>1. TypeOK'
    BY DEF Goto, TypeOK, FramesAgree, Claims, DecisionRows, Results, Deciding,
      Recorded, Locations
  <1>2. FramesAgree'
    BY DEF Goto, TypeOK, FramesAgree, KeysAreBound, GatesHeld, AuthorityOfCalls,
      OneExecution, Serialized, Owner, Deciding, Recorded, Claims, DecisionRows,
      Results
  <1>3. KeysAreBound'
    BY DEF Goto, TypeOK, FramesAgree, KeysAreBound, GatesHeld, AuthorityOfCalls,
      OneExecution, Serialized, Owner, Deciding, Recorded, Claims, DecisionRows,
      Results
  <1>4. GatesHeld'
    BY DEF Goto, TypeOK, FramesAgree, KeysAreBound, GatesHeld, AuthorityOfCalls,
      OneExecution, Serialized, Owner, Deciding, Recorded, Claims, DecisionRows,
      Results
  <1>5. AuthorityOfCalls'
    BY DEF Goto, TypeOK, FramesAgree, KeysAreBound, GatesHeld, AuthorityOfCalls,
      OneExecution, Serialized, Owner, Deciding, Recorded, Claims, DecisionRows,
      Results
  <1>6. OneExecution'
    BY DEF Goto, TypeOK, FramesAgree, KeysAreBound, GatesHeld, AuthorityOfCalls,
      OneExecution, Serialized, Owner, Deciding, Recorded, Claims, DecisionRows,
      Results
  <1>7. Serialized'
    BY DEF Goto, TypeOK, FramesAgree, KeysAreBound, GatesHeld, AuthorityOfCalls,
      OneExecution, Serialized, Owner, Deciding, Recorded, Claims, DecisionRows,
      Results
  <1>8. QED
    BY <1>1, <1>2, <1>3, <1>4, <1>5, <1>6, <1>7 DEF IndInv

\* propose_and_simulate.
LEMMA ProposeAndSimulatePreserves ==
    ASSUME IndInv, NEW c \in Callers, ProposeAndSimulate(c)
    PROVE  IndInv'
  <1>1. PICK d \in Decisions,
             conf \in Confidences(req[c].type, req[c].new, value[req[c].target]) :
           /\ decision[d].status = "none"
           /\ decision' = [decision EXCEPT ![d] =
                            [status |-> IF Cleared(conf) THEN "simulated" ELSE "held",
                             req |-> req[c], key |-> key[c], confidence |-> conf]]
           /\ dec' = [dec EXCEPT ![c] = d]
           /\ IF Cleared(conf)
              THEN Goto(c, "lock") /\ UNCHANGED <<path, key, req, res>>
              ELSE LogResult(c, "held_low_confidence")
    BY DEF ProposeAndSimulate
  <1>2. /\ req[c].type \in ActionTypes /\ req[c].new \in Int /\ req[c].target \in Targets
        /\ value[req[c].target] \in Int
    BY RequestsAssumption DEF ProposeAndSimulate, IndInv, TypeOK, FramesAgree
  <1>3. req[c].type \in {"price_change", "supplier_switch"} =>
          req[c].new > 0 /\ value[req[c].target] > 0
    BY DEF ProposeAndSimulate, Simulatable
  <1>4. conf \in Int /\ (Cleared(conf) => req[c].type \in {"price_change", "supplier_switch"})
    BY <1>1, <1>2, <1>3, ConfidenceFacts
  <1>5. CASE Cleared(conf)
    <2>1. res' = [res EXCEPT ![c] = res[c]] /\ res[c] \in Results \cup {None}
      BY <1>1, <1>5 DEF IndInv, TypeOK
    <2>2. Goto(c, "lock") /\ UNCHANGED <<path, key, req>>
      BY <1>1, <1>5
    <2>3. decision' = [decision EXCEPT ![d] =
                         [status |-> "simulated", req |-> req[c], key |-> key[c],
                          confidence |-> conf]]
      BY <1>1, <1>5
    <2>4. QED
      BY <1>1, <1>3, <1>4, <1>5, <2>1, <2>2, <2>3, ProposedPreserves DEF ProposeAndSimulate
  <1>6. CASE ~Cleared(conf)
    <2>1. Goto(c, "log") /\ UNCHANGED <<path, key, req>>
      BY <1>1, <1>6 DEF LogResult
    <2>2. /\ res' = [res EXCEPT ![c] = "held_low_confidence"]
          /\ "held_low_confidence" \in Results
      BY <1>1, <1>6 DEF LogResult, Results
    <2>3. decision' = [decision EXCEPT ![d] =
                         [status |-> "held", req |-> req[c], key |-> key[c],
                          confidence |-> conf]]
      BY <1>1, <1>6
    <2>4. QED
      BY <1>1, <1>4, <2>1, <2>2, <2>3, ProposedPreserves DEF ProposeAndSimulate
  <1>7. QED
    BY <1>5, <1>6

\* The lock timed out: a result for a tool call, an exception for an approved one.
LEMMA LockTimeoutPreserves ==
    ASSUME IndInv, NEW c \in Callers, LockTimeout(c)
    PROVE  IndInv'
  <1>1. CASE path[c] = "tool"
    <2>1. "concurrent_change_in_progress" \in Results
      BY DEF Results
    <2>2. QED
      BY <1>1, <2>1, ToLogPreserves DEF LockTimeout
  <1>2. CASE path[c] # "tool"
    BY <1>2, UnchangedKeepsBindings, UnlockedForgetPreserves DEF LockTimeout
  <1>3. QED
    BY <1>1, <1>2

\* A low-risk change goes on under the lock.
LEMMA PassedPreserves ==
    ASSUME IndInv, NEW c \in Callers,
           pc[c] = "critique", Goto(c, "execute"), UNCHANGED local, UNCHANGED holds,
           UNCHANGED <<idem, decision, approval, execLog, value, applied>>,
           req[c].type = "price_change",
           decision[dec[c]].confidence >= MIN_CONFIDENCE_FOR_AUTONOMOUS_ACTION,
           100 * Abs(req[c].new - value[req[c].target])
               <= SMALL_PRICE_CHANGE_PCT * value[req[c].target]
    PROVE  IndInv'
  <1> USE RequestsAssumption, TargetsAssumption, NoneAssumption DEF IndInv
  <1>1. TypeOK'
    BY DEF Goto, local, TypeOK, FramesAgree, Claims, DecisionRows, Results,
      Deciding, Recorded, Locations
  <1>2. FramesAgree'
    BY DEF Goto, local, TypeOK, FramesAgree, KeysAreBound, GatesHeld,
      AuthorityOfCalls, OneExecution, Serialized, Owner, Deciding, Recorded, Claims,
      DecisionRows, Results
  <1>3. KeysAreBound'
    BY DEF Goto, local, TypeOK, FramesAgree, KeysAreBound, GatesHeld,
      AuthorityOfCalls, OneExecution, Serialized, Owner, Deciding, Recorded, Claims,
      DecisionRows, Results
  <1>4. GatesHeld'
    BY DEF Goto, local, TypeOK, FramesAgree, KeysAreBound, GatesHeld,
      AuthorityOfCalls, OneExecution, Serialized, Owner, Deciding, Recorded, Claims,
      DecisionRows, Results
  <1>5. AuthorityOfCalls'
    BY DEF Goto, local, TypeOK, FramesAgree, KeysAreBound, GatesHeld,
      AuthorityOfCalls, OneExecution, Serialized, Owner, Deciding, Recorded, Claims,
      DecisionRows, Results
  <1>6. OneExecution'
    BY DEF Goto, local, TypeOK, FramesAgree, KeysAreBound, GatesHeld,
      AuthorityOfCalls, OneExecution, Serialized, Owner, Deciding, Recorded, Claims,
      DecisionRows, Results
  <1>7. Serialized'
    BY DEF Goto, local, TypeOK, FramesAgree, KeysAreBound, GatesHeld,
      AuthorityOfCalls, OneExecution, Serialized, Owner, Deciding, Recorded, Claims,
      DecisionRows, Results
  <1>8. QED
    BY <1>1, <1>2, <1>3, <1>4, <1>5, <1>6, <1>7 DEF IndInv

\* The critic and the risk classifier, on the baseline read under the lock.
LEMMA CritiquePreserves ==
    ASSUME IndInv, NEW c \in Callers, Critique(c)
    PROVE  IndInv'
  <1>1. PICK approved \in Verdicts(req[c]) :
          IF ~approved
          THEN LogResult(c, "blocked_by_critic") /\ UNCHANGED dec
          ELSE /\ Goto(c, IF RequiresApproval(Risk(req[c], dec[c]))
                          THEN "request" ELSE "execute")
               /\ UNCHANGED local
    BY DEF Critique
  <1>2. path[c] = "tool" /\ pc[c] = "critique" /\ dec[c] \in Decisions /\ req[c] \in Requests
    BY DEF Critique, IndInv, FramesAgree, Deciding
  <1>3. CASE ~approved
    <2>1. "blocked_by_critic" \in Results
      BY DEF Results
    <2>2. QED
      BY <1>1, <1>2, <1>3, <2>1, ToLogPreserves DEF Critique
  <1>4. CASE approved /\ RequiresApproval(Risk(req[c], dec[c]))
    <2>1. Goto(c, "request") /\ UNCHANGED local
      BY <1>1, <1>4
    <2>2. QED
      BY <1>2, <2>1, MovePreserves DEF Critique, Locations
  <1>5. CASE approved /\ ~RequiresApproval(Risk(req[c], dec[c]))
    <2>1. Goto(c, "execute") /\ UNCHANGED local
      BY <1>1, <1>5
    <2>2. /\ req[c].type \in ActionTypes /\ req[c].ok \in BOOLEAN /\ req[c].new \in Int
          /\ value[req[c].target] \in Int /\ decision[dec[c]].confidence \in Int
      BY <1>2, RequestsAssumption DEF IndInv, TypeOK, DecisionRows
    <2>3. /\ req[c].type = "price_change"
          /\ decision[dec[c]].confidence >= MIN_CONFIDENCE_FOR_AUTONOMOUS_ACTION
          /\ 100 * Abs(req[c].new - value[req[c].target])
                <= SMALL_PRICE_CHANGE_PCT * value[req[c].target]
      BY <1>5, <2>2, LowRisk DEF Risk
    <2>4. QED
      BY <1>2, <2>1, <2>3, PassedPreserves DEF Critique
  <1>6. QED
    BY <1>3, <1>4, <1>5

(***************************************************************************)
(* Execution and the end of a call.                                        *)
(***************************************************************************)

\* The state change is written under the lock, so no other autonomous call's
\* baseline moves.
LEMMA ApplyStateChangePreserves ==
    ASSUME IndInv, NEW c \in Callers, ApplyStateChange(c)
    PROVE  IndInv'
  <1> USE RequestsAssumption, TargetsAssumption, NoneAssumption DEF IndInv
  <1>a. /\ pc[c] = "apply" /\ dec[c] \in Decisions /\ req[c] \in Requests
        /\ decision[dec[c]].status = "evaluated" /\ decision[dec[c]].req = req[c]
        /\ applied[dec[c]] = 0 /\ c \in holds
    BY DEF ApplyStateChange, FramesAgree, Deciding, OneExecution, Serialized
  <1>b. /\ req[c].type \in {"price_change", "supplier_switch"}
        /\ req[c].new \in Nat /\ req[c].target \in Targets
    BY <1>a DEF GatesHeld
  <1>c. value' = [value EXCEPT ![req[c].target] = req[c].new]
    BY <1>b DEF ApplyStateChange, NewValue
  <1>d. applied' = [applied EXCEPT ![dec[c]] = 1]
    BY <1>a DEF ApplyStateChange
  <1>e. holds' \subseteq holds /\ holds \ {c} \subseteq holds'
    BY DEF ApplyStateChange
  <1>1. TypeOK'
    BY <1>a, <1>b, <1>c, <1>d, <1>e DEF ApplyStateChange, LogResult, Goto, TypeOK,
      Locations, Results
  <1>2. FramesAgree'
    BY <1>a, <1>d DEF ApplyStateChange, LogResult, Goto, TypeOK, FramesAgree,
      KeysAreBound, GatesHeld, AuthorityOfCalls, OneExecution, Serialized, Owner,
      Deciding, Recorded, Claims, DecisionRows, Results
  <1>3. KeysAreBound'
    BY <1>a, <1>d DEF ApplyStateChange, LogResult, Goto, TypeOK, FramesAgree,
      KeysAreBound, GatesHeld, AuthorityOfCalls, OneExecution, Serialized, Owner,
      Deciding, Recorded, Claims, DecisionRows, Results
  <1>4. GatesHeld'
    BY <1>a, <1>d DEF ApplyStateChange, LogResult, Goto, TypeOK, FramesAgree,
      KeysAreBound, GatesHeld, AuthorityOfCalls, OneExecution, Serialized, Owner,
      Deciding, Recorded, Claims, DecisionRows, Results
  <1>5. AuthorityOfCalls'
    BY <1>a, <1>d DEF ApplyStateChange, LogResult, Goto, TypeOK, FramesAgree,
      KeysAreBound, GatesHeld, AuthorityOfCalls, OneExecution, Serialized, Owner,
      Deciding, Recorded, Claims, DecisionRows, Results
  <1>6. OneExecution'
    BY <1>a, <1>d DEF ApplyStateChange, LogResult, Goto, TypeOK, FramesAgree,
      KeysAreBound, GatesHeld, AuthorityOfCalls, OneExecution, Serialized, Owner,
      Deciding, Recorded, Claims, DecisionRows, Results
  <1>7. Serialized'
    <2>1. \A x \in Callers \ {c} :
            path[x] = "tool" /\ pc[x] \in {"execute", "observe", "apply"} =>
              req[x].target # req[c].target
      <3> SUFFICES ASSUME NEW x \in Callers \ {c}, path[x] = "tool",
                          pc[x] \in {"execute", "observe", "apply"},
                          req[x].target = req[c].target
                   PROVE  FALSE
        OBVIOUS
      <3>1. req[x].type = "price_change" /\ req[x] \in Requests /\ x \in holds
        BY DEF AuthorityOfCalls, FramesAgree, Serialized
      <3>2. req[c].type = "price_change"
        BY <1>a, <1>b, <3>1
      <3>3. SerializationKey(req[x]) = SerializationKey(req[c])
        BY <3>1, <3>2 DEF SerializationKey
      <3>4. QED
        BY <1>a, <3>1, <3>3 DEF Serialized
    <2>2. /\ pc' = [pc EXCEPT ![c] = "log"]
          /\ UNCHANGED <<path, key, req>>
      BY DEF ApplyStateChange, LogResult, Goto
    <2>3. \A x \in Callers \ {c} :
            path[x] = "tool" /\ pc[x] \in {"execute", "observe", "apply"} =>
              value'[req[x].target] = value[req[x].target]
      BY <1>b, <1>c, <2>1 DEF FramesAgree, TypeOK
    <2>4. \A x \in Callers :
            path'[x] = "tool" /\ pc'[x] \in {"execute", "observe", "apply"} =>
              100 * Abs(req'[x].new - value'[req'[x].target])
                  <= SMALL_PRICE_CHANGE_PCT * value'[req'[x].target]
      BY <2>2, <2>3 DEF TypeOK, Serialized
    <2>5. \A x \in Callers :
            /\ x \in holds' =>
                  pc'[x] \in {"critique", "request", "execute", "observe", "apply", "log"}
            /\ pc'[x] \in {"critique", "request", "execute", "observe", "apply"} =>
                  x \in holds'
      BY <1>e, <2>2 DEF TypeOK, Serialized
    <2>6. \A x, y \in holds' :
            SerializationKey(req'[x]) = SerializationKey(req'[y]) => x = y
      BY <1>e, <2>2 DEF Serialized
    <2>7. QED
      BY <2>4, <2>5, <2>6 DEF Serialized
  <1>8. QED
    BY <1>1, <1>2, <1>3, <1>4, <1>5, <1>6, <1>7 DEF IndInv

\* _finish touches an in_progress row only, and never unbinds it.
LEMMA FinishKeepsBindings ==
    ASSUME IndInv, NEW c \in Callers, key[c] \in Keys,
           NEW status \in {"completed", "failed"}, NEW result \in Results \cup {None},
           NEW d \in Decisions \cup {None}, status = "completed" => result \in Results,
           Finish(c, status, result, d)
    PROVE  KeepsBindings
  <1> DEFINE row == idem[key[c]]
             new == [row EXCEPT !.status = status, !.result = result, !.dec = d]
  <1>1. row \in Claims /\ idem \in [Keys -> Claims]
    BY DEF IndInv, TypeOK
  <1>2. new \in Claims /\ new.req = row.req /\ new.status = status /\ new.result = result
    BY <1>1 DEF Claims
  <1>3. CASE row.status = "in_progress"
    <2>1. idem' = [idem EXCEPT ![key[c]] = new]
      BY <1>3 DEF Finish
    <2>2. QED
      BY <1>1, <1>2, <1>3, <2>1 DEF KeepsBindings, IndInv, KeysAreBound
  <1>4. CASE row.status # "in_progress"
    <2>1. idem' = idem
      BY <1>1, <1>4 DEF Finish
    <2>2. QED
      BY <2>1, UnchangedKeepsBindings
  <1>5. QED
    BY <1>3, <1>4

\* complete().
LEMMA CompletePreserves ==
    ASSUME IndInv, NEW c \in Callers, Complete(c)
    PROVE  IndInv'
  <1>1. /\ key[c] \in Keys /\ res[c] \in Results
        /\ dec[c] \in Decisions \cup {None} /\ pc[c] = "complete"
    BY DEF Complete, IndInv, FramesAgree, TypeOK
  <1>2. KeepsBindings
    BY <1>1, FinishKeepsBindings DEF Complete
  <1>3. QED
    BY <1>1, <1>2, CompletedPreserves DEF Complete

\* fail().
LEMMA FailPreserves ==
    ASSUME IndInv, NEW c \in Callers, Fail(c)
    PROVE  IndInv'
  <1>1. key[c] \in Keys /\ pc[c] = "fail"
    BY DEF Fail, IndInv, FramesAgree
  <1>2. KeepsBindings
    BY <1>1, FinishKeepsBindings DEF Fail
  <1>3. QED
    BY <1>1, <1>2, UnlockedForgetPreserves DEF Fail

\* Handing the answer to the caller.
LEMMA ReturnPreserves ==
    ASSUME IndInv, NEW c \in Callers, Return(c)
    PROVE  IndInv'
  BY UnchangedKeepsBindings, UnlockedForgetPreserves DEF Return

(***************************************************************************)
(* The human step.                                                         *)
(***************************************************************************)

\* _stale_approval_reason.
LEMMA RevalidatePreserves ==
    ASSUME IndInv, NEW c \in Callers, Revalidate(c)
    PROVE  IndInv'
  <1>1. CASE Goto(c, "approve") /\ UNCHANGED local
    BY <1>1, MovePreserves DEF Revalidate, Locations
  <1>2. CASE Forget(c)
    BY <1>2, UnchangedKeepsBindings, UnlockedForgetPreserves DEF Revalidate
  <1>3. QED
    BY <1>1, <1>2 DEF Revalidate

\* The reviewer approved: nothing has run yet, and now it may.
LEMMA ApprovedPreserves ==
    ASSUME IndInv, NEW c \in Callers,
           pc[c] = "approve", approval[dec[c]] = "pending",
           approval' = [approval EXCEPT ![dec[c]] = "approved"],
           Goto(c, "lock"), UNCHANGED local,
           UNCHANGED <<holds, idem, decision, execLog, value, applied>>
    PROVE  IndInv'
  <1> USE RequestsAssumption, TargetsAssumption, NoneAssumption DEF IndInv
  <1>1. TypeOK'
    BY DEF Goto, local, TypeOK, FramesAgree, Claims, DecisionRows, Results,
      Deciding, Recorded, Locations
  <1>2. FramesAgree'
    BY DEF Goto, local, TypeOK, FramesAgree, KeysAreBound, GatesHeld,
      AuthorityOfCalls, OneExecution, Serialized, Owner, Deciding, Recorded, Claims,
      DecisionRows, Results
  <1>3. KeysAreBound'
    BY DEF Goto, local, TypeOK, FramesAgree, KeysAreBound, GatesHeld,
      AuthorityOfCalls, OneExecution, Serialized, Owner, Deciding, Recorded, Claims,
      DecisionRows, Results
  <1>4. GatesHeld'
    BY DEF Goto, local, TypeOK, FramesAgree, KeysAreBound, GatesHeld,
      AuthorityOfCalls, OneExecution, Serialized, Owner, Deciding, Recorded, Claims,
      DecisionRows, Results
  <1>5. AuthorityOfCalls'
    BY DEF Goto, local, TypeOK, FramesAgree, KeysAreBound, GatesHeld,
      AuthorityOfCalls, OneExecution, Serialized, Owner, Deciding, Recorded, Claims,
      DecisionRows, Results
  <1>6. OneExecution'
    BY DEF Goto, local, TypeOK, FramesAgree, KeysAreBound, GatesHeld,
      AuthorityOfCalls, OneExecution, Serialized, Owner, Deciding, Recorded, Claims,
      DecisionRows, Results
  <1>7. Serialized'
    BY DEF Goto, local, TypeOK, FramesAgree, KeysAreBound, GatesHeld,
      AuthorityOfCalls, OneExecution, Serialized, Owner, Deciding, Recorded, Claims,
      DecisionRows, Results
  <1>8. QED
    BY <1>1, <1>2, <1>3, <1>4, <1>5, <1>6, <1>7 DEF IndInv

\* The reviewer rejected: no call was allowed to run it.
LEMMA RejectedPreserves ==
    ASSUME IndInv, NEW c \in Callers,
           pc[c] = "reject", approval[dec[c]] = "pending",
           approval' = [approval EXCEPT ![dec[c]] = "rejected"], Forget(c),
           UNCHANGED <<holds, idem, decision, execLog, value, applied>>
    PROVE  IndInv'
  <1> USE RequestsAssumption, TargetsAssumption, NoneAssumption DEF IndInv
  <1>1. TypeOK'
    BY DEF Goto, Forget, TypeOK, FramesAgree, Claims, DecisionRows, Results,
      Deciding, Recorded, Locations
  <1>2. FramesAgree'
    BY DEF Goto, Forget, TypeOK, FramesAgree, KeysAreBound, GatesHeld,
      AuthorityOfCalls, OneExecution, Serialized, Owner, Deciding, Recorded, Claims,
      DecisionRows, Results
  <1>3. KeysAreBound'
    BY DEF Goto, Forget, TypeOK, FramesAgree, KeysAreBound, GatesHeld,
      AuthorityOfCalls, OneExecution, Serialized, Owner, Deciding, Recorded, Claims,
      DecisionRows, Results
  <1>4. GatesHeld'
    BY DEF Goto, Forget, TypeOK, FramesAgree, KeysAreBound, GatesHeld,
      AuthorityOfCalls, OneExecution, Serialized, Owner, Deciding, Recorded, Claims,
      DecisionRows, Results
  <1>5. AuthorityOfCalls'
    BY DEF Goto, Forget, TypeOK, FramesAgree, KeysAreBound, GatesHeld,
      AuthorityOfCalls, OneExecution, Serialized, Owner, Deciding, Recorded, Claims,
      DecisionRows, Results
  <1>6. OneExecution'
    BY DEF Goto, Forget, TypeOK, FramesAgree, KeysAreBound, GatesHeld,
      AuthorityOfCalls, OneExecution, Serialized, Owner, Deciding, Recorded, Claims,
      DecisionRows, Results
  <1>7. Serialized'
    BY DEF Goto, Forget, TypeOK, FramesAgree, KeysAreBound, GatesHeld,
      AuthorityOfCalls, OneExecution, Serialized, Owner, Deciding, Recorded, Claims,
      DecisionRows, Results
  <1>8. QED
    BY <1>1, <1>2, <1>3, <1>4, <1>5, <1>6, <1>7 DEF IndInv

\* ApprovalWorkflow.resolve, won.
LEMMA ResolvePreserves ==
    ASSUME IndInv, NEW c \in Callers, Resolve(c)
    PROVE  IndInv'
  <1>1. CASE pc[c] = "approve"
    BY <1>1, ApprovedPreserves DEF Resolve
  <1>2. CASE pc[c] = "reject"
    BY <1>2, RejectedPreserves DEF Resolve
  <1>3. QED
    BY <1>1, <1>2 DEF Resolve

(***************************************************************************)
(* The invariant is inductive.                                             *)
(***************************************************************************)

\* Init establishes the invariant.
LEMMA InitEstablishes == Init => IndInv
  <1> SUFFICES ASSUME Init PROVE IndInv
    OBVIOUS
  <1> USE TargetsAssumption, NoneAssumption DEF Init
  <1>1. TypeOK
    BY DEF TypeOK, Locations, Claims, DecisionRows, NoClaim, NoDecision
  <1>2. FramesAgree /\ AuthorityOfCalls /\ Serialized
    BY DEF FramesAgree, AuthorityOfCalls, Serialized, Deciding
  <1>3. KeysAreBound /\ GatesHeld /\ OneExecution
    BY DEF KeysAreBound, GatesHeld, OneExecution, Owner, Recorded, NoClaim, NoDecision
  <1>4. QED
    BY <1>1, <1>2, <1>3 DEF IndInv

\* Every step of a call preserves it.
LEMMA StepPreserves ==
    ASSUME IndInv, NEW c \in Callers, Step(c)
    PROVE  IndInv'
  <1>1. CASE ClaimInsert(c) \/ ClaimConflict(c) \/ Abandon(c)
    BY <1>1, ClaimInsertPreserves, ClaimConflictPreserves, AbandonPreserves
  <1>2. CASE ProposeAndSimulate(c)
    BY <1>2, ProposeAndSimulatePreserves
  <1>3. CASE ProposalRefused(c)
    BY <1>3, RaisedPreserves DEF ProposalRefused
  <1>4. CASE AcquireLock(c) \/ LockTimeout(c)
    BY <1>4, AcquireLockPreserves, LockTimeoutPreserves
  <1>5. CASE Critique(c) \/ RequestApproval(c)
    BY <1>5, CritiquePreserves, RequestApprovalPreserves
  <1>6. CASE ClaimDecision(c) \/ Evaluate(c)
    BY <1>6, ClaimDecisionPreserves, EvaluatePreserves
  <1>7. CASE ClaimDecisionRefused(c)
    BY <1>7, RaisedPreserves DEF ClaimDecisionRefused
  <1>8. CASE ApplyStateChange(c) \/ WriteLog(c)
    BY <1>8, ApplyStateChangePreserves, WriteLogPreserves
  <1>12. CASE ApplyRefused(c)
    BY <1>12, RaisedPreserves DEF ApplyRefused
  <1>9. CASE Complete(c) \/ Fail(c) \/ Return(c)
    BY <1>9, CompletePreserves, FailPreserves, ReturnPreserves
  <1>10. CASE Revalidate(c) \/ Resolve(c)
    BY <1>10, RevalidatePreserves, ResolvePreserves
  <1>11. CASE ResolveLost(c)
    BY <1>11, UnchangedKeepsBindings, UnlockedForgetPreserves DEF ResolveLost
  <1>13. QED
    BY <1>1, <1>2, <1>3, <1>4, <1>5, <1>6, <1>7, <1>8, <1>9, <1>10, <1>11, <1>12 DEF Step

\* Entering, failing, crashing and the passing of time preserve it too.
LEMMA NextPreserves == IndInv /\ [Next]_vars => IndInv'
  <1> SUFFICES ASSUME IndInv, [Next]_vars PROVE IndInv'
    OBVIOUS
  <1>1. ASSUME NEW c \in Callers, Step(c) PROVE IndInv'
    BY <1>1, StepPreserves
  <1>2. ASSUME NEW c \in Callers, NEW k \in Keys, NEW r \in Requests, Start(c, k, r)
        PROVE  IndInv'
    BY <1>2, StartPreserves
  <1>3. ASSUME NEW c \in Callers, NEW d \in Decisions, NEW approved \in BOOLEAN,
               ResolveApproval(c, d, approved)
        PROVE  IndInv'
    <2>1. CASE approved
      BY <1>3, <2>1, EnterApprovedPreserves DEF ResolveApproval
    <2>2. CASE ~approved
      BY <1>3, <2>2, EnterApprovedPreserves DEF ResolveApproval
    <2>3. QED
      BY <2>1, <2>2
  <1>4. ASSUME NEW c \in Callers, NEW d \in Decisions, CallApproved(c, d) PROVE IndInv'
    BY <1>4, EnterApprovedPreserves DEF CallApproved
  <1>5. ASSUME NEW c \in Callers, Raise(c) PROVE IndInv'
    BY <1>5, RaisedPreserves DEF Raise
  <1>6. ASSUME NEW c \in Callers, Crash(c) PROVE IndInv'
    BY <1>6, UnchangedKeepsBindings, ForgetPreserves DEF Crash
  <1>7. ASSUME NEW k \in Keys, Age(k) PROVE IndInv'
    <2>1. idem[k] \in Claims /\ idem \in [Keys -> Claims]
      BY DEF IndInv, TypeOK
    <2>2. idem' = [idem EXCEPT ![k] = [idem[k] EXCEPT !.stale = TRUE]]
      BY <1>7, <2>1 DEF Age
    <2> DEFINE row == [idem[k] EXCEPT !.stale = TRUE]
    <2>a. /\ row \in Claims /\ row.req = idem[k].req
          /\ row.status = idem[k].status /\ row.result = idem[k].result
      BY <2>1 DEF Claims
    <2>b. idem' \in [Keys -> Claims]
      BY <2>1, <2>2, <2>a
    <2>c. \A x \in Keys : /\ idem'[x].req = idem[x].req
                         /\ idem'[x].status = idem[x].status
                         /\ idem'[x].result = idem[x].result
      BY <2>1, <2>2, <2>a
    <2>3. KeepsBindings
      BY <2>b, <2>c DEF KeepsBindings, IndInv, KeysAreBound
    <2>4. QED
      BY <1>7, <2>3, AgedPreserves DEF Age, local
  <1>8. CASE UNCHANGED vars
    BY <1>8, UnchangedKeepsBindings, AgedPreserves DEF vars
  <1>9. QED
    BY <1>1, <1>2, <1>3, <1>4, <1>5, <1>6, <1>7, <1>8 DEF Next, Enter

(***************************************************************************)
(* Theorems.                                                               *)
(***************************************************************************)

\* The inductive invariant holds in every reachable state.
THEOREM Invariance == Spec => []IndInv
  BY InitEstablishes, NextPreserves, PTL DEF Spec

\* Types: no handler writes a value outside its column, for any instance.
THEOREM TypeCorrect == Spec => []TypeOK
  <1>1. IndInv => TypeOK
    BY DEF IndInv
  <1>2. QED
    BY <1>1, Invariance, PTL

\* A key's request changes the restaurant at most once, however calls, retries,
\* abandonment, crashes and approvals interleave.
THEOREM AtMostOnce == Spec => []AtMostOncePerKey
  <1>1. IndInv => AtMostOncePerKey
    BY DEF IndInv, TypeOK, KeysAreBound, OneExecution, Recorded, AtMostOncePerKey
  <1>2. QED
    BY <1>1, Invariance, PTL

\* Nothing runs that the gates and, where they ask for one, a human did not allow.
THEOREM Authority == Spec => []ExecutedWithAuthority
  <1>1. IndInv => ExecutedWithAuthority
    BY DEF IndInv, TypeOK, GatesHeld, OneExecution, ExecutedWithAuthority
  <1>2. QED
    BY <1>1, Invariance, PTL

(***************************************************************************)
(* From the invariance of IndInv: the bound on what changes without a human *)
(* and the refinement of ActionLedger.  Both rest on one observation: two   *)
(* actions matter from outside, ClaimInsert, which binds a key, and         *)
(* ApplyStateChange, which writes a value.                                  *)
(***************************************************************************)

\* Nothing the outside sees changes.
Quiet ==
    /\ UNCHANGED <<value, applied>>
    /\ \A k \in Keys : idem'[k].req = idem[k].req
    /\ \A d \in Decisions : applied[d] > 0 => decision'[d].key = decision[d].key

\* A step that leaves these tables alone is quiet.
LEMMA UnchangedIsQuiet ==
    ASSUME UNCHANGED <<value, applied, idem, decision>>
    PROVE  Quiet
  BY DEF Quiet

\* So is a step that rewrites claim rows without unbinding them.
LEMMA RewriteIsQuiet ==
    ASSUME KeepsBindings, UNCHANGED <<value, applied, decision>>
    PROVE  Quiet
  BY DEF Quiet, KeepsBindings

\* Every step is quiet, binds a key, or writes a value.
LEMMA StepKinds ==
    ASSUME IndInv, NEW c \in Callers, Step(c)
    PROVE  Quiet \/ ClaimInsert(c) \/ ApplyStateChange(c)
  <1>1. CASE ClaimConflict(c) \/ ProposalRefused(c) \/ AcquireLock(c) \/ LockTimeout(c)
             \/ Critique(c) \/ RequestApproval(c) \/ ClaimDecisionRefused(c)
             \/ ApplyRefused(c)
    BY <1>1, UnchangedIsQuiet
       DEF ClaimConflict, ProposalRefused, AcquireLock, LockTimeout, Critique,
           RequestApproval, ClaimDecisionRefused, ApplyRefused
  <1>2. CASE WriteLog(c) \/ Return(c) \/ Revalidate(c) \/ Resolve(c) \/ ResolveLost(c)
    BY <1>2, UnchangedIsQuiet DEF WriteLog, Return, Revalidate, Resolve, ResolveLost
  <1>3. CASE Abandon(c)
    <2>1. key[c] \in Keys /\ idem[key[c]] \in Claims /\ idem \in [Keys -> Claims]
      BY <1>3 DEF Abandon, IndInv, TypeOK, FramesAgree
    <2>2. \A k \in Keys : idem'[k].req = idem[k].req
      BY <1>3, <2>1 DEF Abandon, Claims
    <2>3. QED
      BY <1>3, <2>2 DEF Quiet, Abandon
  <1>4. CASE ProposeAndSimulate(c)
    <2>1. UNCHANGED <<value, applied, idem>>
      BY <1>4 DEF ProposeAndSimulate
    <2>2. PICK d \in Decisions : /\ decision[d].status = "none"
                                 /\ \A x \in Decisions \ {d} : decision'[x] = decision[x]
      BY <1>4 DEF ProposeAndSimulate, IndInv, TypeOK
    <2>3. applied[d] = 0
      BY <2>2 DEF IndInv, OneExecution, TypeOK
    <2>4. QED
      BY <2>1, <2>2, <2>3 DEF Quiet
  <1>5. CASE ClaimDecision(c) \/ Evaluate(c)
    <2>1. UNCHANGED <<value, applied, idem>>
      BY <1>5 DEF ClaimDecision, Evaluate
    <2>2. \A d \in Decisions : decision'[d].key = decision[d].key
      BY <1>5 DEF ClaimDecision, Evaluate, IndInv, TypeOK, DecisionRows
    <2>3. QED
      BY <2>1, <2>2 DEF Quiet
  <1>6. CASE Complete(c)
    <2>1. /\ key[c] \in Keys /\ res[c] \in Results /\ dec[c] \in Decisions \cup {None}
      BY <1>6 DEF Complete, IndInv, FramesAgree, TypeOK
    <2>2. KeepsBindings
      BY <1>6, <2>1, FinishKeepsBindings DEF Complete
    <2>3. QED
      BY <1>6, <2>2, RewriteIsQuiet DEF Complete
  <1>7. CASE Fail(c)
    <2>1. key[c] \in Keys
      BY <1>7 DEF Fail, IndInv, FramesAgree
    <2>2. KeepsBindings
      BY <1>7, <2>1, FinishKeepsBindings DEF Fail
    <2>3. QED
      BY <1>7, <2>2, RewriteIsQuiet DEF Fail
  <1>8. QED
    BY <1>1, <1>2, <1>3, <1>4, <1>5, <1>6, <1>7 DEF Step

\* The same for the whole next-state relation.
LEMMA NextKinds ==
    ASSUME IndInv, [Next]_vars
    PROVE  \/ Quiet
           \/ \E c \in Callers : ClaimInsert(c) \/ ApplyStateChange(c)
  <1>1. ASSUME NEW c \in Callers, Step(c)
        PROVE  Quiet \/ ClaimInsert(c) \/ ApplyStateChange(c)
    BY <1>1, StepKinds
  <1>2. ASSUME NEW c \in Callers, Enter(c) PROVE Quiet
    BY <1>2, UnchangedIsQuiet DEF Enter, Start, ResolveApproval, CallApproved, EnterApproved
  <1>3. ASSUME NEW c \in Callers, Raise(c) \/ Crash(c) PROVE Quiet
    BY <1>3, UnchangedIsQuiet DEF Raise, Crash
  <1>4. ASSUME NEW k \in Keys, Age(k) PROVE Quiet
    <2>1. idem[k] \in Claims /\ idem \in [Keys -> Claims]
      BY DEF IndInv, TypeOK
    <2>2. \A x \in Keys : idem'[x].req = idem[x].req
      BY <1>4, <2>1 DEF Age, Claims
    <2>3. QED
      BY <1>4, <2>2 DEF Age, Quiet
  <1>5. CASE UNCHANGED vars
    BY <1>5, UnchangedIsQuiet DEF vars
  <1>6. QED
    BY <1>1, <1>2, <1>3, <1>4, <1>5 DEF Next

\* What an applying call knows: it writes its request's number, once.
LEMMA ApplyFacts ==
    ASSUME IndInv, NEW c \in Callers, ApplyStateChange(c)
    PROVE  /\ dec[c] \in Decisions /\ req[c] \in Requests
           /\ decision[dec[c]].req = req[c] /\ decision[dec[c]].key \in Keys
           /\ idem[decision[dec[c]].key].req = req[c]
           /\ Recorded(dec[c])
           /\ req[c].type \in {"price_change", "supplier_switch"}
           /\ req[c].target \in Targets /\ req[c].new \in Nat
           /\ value' = [value EXCEPT ![req[c].target] = req[c].new]
           /\ applied[dec[c]] = 0
           /\ applied' = [applied EXCEPT ![dec[c]] = 1]
           /\ UNCHANGED <<idem, decision, approval>>
  <1>1. /\ pc[c] = "apply" /\ dec[c] \in Decisions /\ req[c] \in Requests /\ Recorded(dec[c])
        /\ decision[dec[c]].status = "evaluated" /\ decision[dec[c]].req = req[c]
        /\ applied[dec[c]] = 0
    BY DEF IndInv, ApplyStateChange, FramesAgree, Deciding, OneExecution
  <1>2. /\ req[c].type \in {"price_change", "supplier_switch"}
        /\ req[c].target \in Targets /\ req[c].new \in Nat
    BY <1>1, RequestsAssumption DEF IndInv, GatesHeld
  <1>3. decision[dec[c]].key \in Keys /\ idem[decision[dec[c]].key].req = req[c]
    BY <1>1 DEF IndInv, KeysAreBound
  <1>4. value' = [value EXCEPT ![req[c].target] = req[c].new]
    BY <1>2 DEF ApplyStateChange, NewValue
  <1>5. applied' = [applied EXCEPT ![dec[c]] = 1] /\ UNCHANGED <<idem, decision, approval>>
    BY <1>1 DEF ApplyStateChange
  <1>6. QED
    BY <1>1, <1>2, <1>3, <1>4, <1>5

\* A price or cost moves by more than the small-change limit only when a human
\* approved that very change, measured at the moment of the write.
THEOREM BigChanges == Spec => BigChangesAreApproved
  <1>1. ASSUME IndInv, [Next]_vars,
               NEW t \in MenuItems \cup Ingredients,
               100 * Abs(value'[t] - value[t]) > SMALL_PRICE_CHANGE_PCT * value[t]
        PROVE  \E d \in Decisions : /\ applied'[d] = applied[d] + 1
                                    /\ decision[d].req.target = t
                                    /\ approval[d] = "approved"
    <2>1. value[t] \in Nat /\ t \in Targets /\ value \in [Targets -> Nat]
      BY <1>1 DEF IndInv, TypeOK, Targets
    <2>2. value'[t] # value[t]
      BY <1>1, <2>1 DEF Abs, SMALL_PRICE_CHANGE_PCT
    <2>3. PICK c \in Callers : ApplyStateChange(c)
      BY <1>1, <2>2, NextKinds DEF Quiet, ClaimInsert
    <2>4. req[c].target = t /\ value'[t] = req[c].new
      BY <1>1, <2>1, <2>2, <2>3, ApplyFacts
    <2>5. path[c] # "tool"
      <3> SUFFICES ASSUME path[c] = "tool" PROVE FALSE
        OBVIOUS
      <3>1. 100 * Abs(req[c].new - value[t]) <= SMALL_PRICE_CHANGE_PCT * value[t]
        BY <1>1, <2>3, <2>4 DEF IndInv, Serialized, ApplyStateChange
      <3>2. req[c].new \in Int
        BY <1>1, <2>3, ApplyFacts
      <3>3. QED
        BY <1>1, <2>1, <2>4, <3>1, <3>2 DEF SMALL_PRICE_CHANGE_PCT, Abs
    <2>6. approval[dec[c]] = "approved"
      BY <1>1, <2>3, <2>5 DEF IndInv, AuthorityOfCalls, TypeOK, Deciding, ApplyStateChange
    <2>7. QED
      BY <1>1, <2>3, <2>4, <2>6, ApplyFacts DEF IndInv, TypeOK
  <1>2. IndInv /\ [Next]_vars =>
          [\A t \in MenuItems \cup Ingredients :
              100 * Abs(value'[t] - value[t]) > SMALL_PRICE_CHANGE_PCT * value[t] =>
                  \E d \in Decisions :
                      /\ applied'[d] = applied[d] + 1
                      /\ decision[d].req.target = t
                      /\ approval[d] = "approved"]_vars
    BY <1>1
  <1>3. QED
    BY <1>2, Invariance, PTL DEF Spec, BigChangesAreApproved

(***************************************************************************)
(* Refinement.                                                             *)
(***************************************************************************)
Asked == [k \in Keys |-> idem[k].req]
Done == {k \in Keys : \E d \in Decisions : applied[d] > 0 /\ decision[d].key = k}

\* A quiet step is a stutter of the ledger.
LEMMA QuietStutters ==
    ASSUME Quiet PROVE Asked' = Asked /\ Done' = Done /\ value' = value
  BY DEF Quiet, Asked, Done

\* Winning the insert binds the key.
LEMMA InsertBinds ==
    ASSUME IndInv, NEW c \in Callers, ClaimInsert(c)
    PROVE  /\ key[c] \in Keys /\ req[c] \in Requests
           /\ Asked[key[c]] = None
           /\ Asked' = [Asked EXCEPT ![key[c]] = req[c]]
           /\ Done' = Done /\ value' = value
  <1>1. key[c] \in Keys /\ req[c] \in Requests
    BY DEF ClaimInsert, IndInv, FramesAgree
  <1>2. idem[key[c]].req = None
    BY <1>1 DEF ClaimInsert, IndInv, KeysAreBound
  <1>3. /\ idem'[key[c]].req = req[c]
        /\ \A k \in Keys \ {key[c]} : idem'[k] = idem[k]
    BY <1>1 DEF ClaimInsert, IndInv, TypeOK
  <1>4. UNCHANGED <<decision, applied, value>>
    BY DEF ClaimInsert
  <1>5. QED
    BY <1>1, <1>2, <1>3, <1>4 DEF Asked, Done

\* Writing the value carries out the key's request, for the first time.
LEMMA ApplyCarriesOut ==
    ASSUME IndInv, NEW c \in Callers, ApplyStateChange(c)
    PROVE  \E k \in Keys :
              /\ Asked[k] # None /\ k \notin Done
              /\ Done' = Done \cup {k} /\ Asked' = Asked
              /\ value' = [value EXCEPT ![Asked[k].target] =
                             NewValue(Asked[k], value[Asked[k].target])]
  <1> DEFINE k == decision[dec[c]].key
  <1>1. /\ k \in Keys /\ Asked[k] = req[c] /\ dec[c] \in Decisions /\ Recorded(dec[c])
        /\ req[c] \in Requests
    BY ApplyFacts DEF Asked
  <1>2. Asked[k] # None
    BY <1>1, NoneAssumption
  <1>3. \A d \in Decisions : applied[d] > 0 => Recorded(d)
    BY DEF IndInv, OneExecution, Recorded
  <1>4. k \notin Done
    BY <1>1, <1>3, ApplyFacts DEF Done, IndInv, KeysAreBound
  <1>5. Asked' = Asked
    BY ApplyFacts DEF Asked
  <1>6. Done' = Done \cup {k}
    <2>1. \A d \in Decisions : applied'[d] > 0 <=> applied[d] > 0 \/ d = dec[c]
      BY ApplyFacts DEF IndInv, TypeOK
    <2>2. UNCHANGED decision
      BY ApplyFacts
    <2>3. QED
      BY <1>1, <2>1, <2>2 DEF Done
  <1>7. NewValue(req[c], value[req[c].target]) = req[c].new
    BY ApplyFacts DEF NewValue
  <1>8. value' = [value EXCEPT ![Asked[k].target] =
                    NewValue(Asked[k], value[Asked[k].target])]
    BY <1>1, <1>7, ApplyFacts
  <1>9. QED
    BY <1>1, <1>2, <1>4, <1>5, <1>6, <1>8

\* The framework implements the ledger: seen through its keys and values, every
\* step binds a free key, carries out a bound request that was not carried out
\* before, or changes nothing.
THEOREM Refinement == Spec => ImplementsLedger
  <1>1. Init => Ledger!Init
    BY DEF Init, Ledger!Init, NoClaim, NoDecision
  <1>2. ASSUME IndInv, [Next]_vars PROVE [Ledger!Next]_(Ledger!ledger)
    <2>1. CASE Quiet
      BY <2>1, QuietStutters DEF Ledger!ledger, Asked, Done
    <2>2. ASSUME NEW c \in Callers, ClaimInsert(c) PROVE Ledger!Next
      BY <1>2, <2>2, InsertBinds DEF Ledger!Next, Ledger!Bind, Asked, Done
    <2>3. ASSUME NEW c \in Callers, ApplyStateChange(c) PROVE Ledger!Next
      BY <1>2, <2>3, ApplyCarriesOut
         DEF Ledger!Next, Ledger!CarryOut, Ledger!NewValue, NewValue,
             Ledger!AtLeast, AtLeast, Asked, Done
    <2>4. QED
      BY <1>2, <2>1, <2>2, <2>3, NextKinds
  <1>3. QED
    BY <1>1, <1>2, Invariance, PTL DEF Spec, ImplementsLedger, Ledger!Spec

(***************************************************************************)
(* Answers.  What backs a result is never taken back: events stay, requests *)
(* for approval stay, and nobody takes up a decision that was dropped.      *)
(***************************************************************************)
KeepsDecisions ==
    \A d \in Decisions :
        /\ applied[d] = 1 => applied'[d] = 1 /\ decision'[d].req = decision[d].req
                                            /\ decision'[d].key = decision[d].key
        /\ approval[d] # "none" => approval'[d] # "none"
        /\ Spent(d) => Spent(d)'

\* A step that leaves the tables alone, and in which nobody takes up a decision
\* but by the authority of a human.
LEMMA NobodyTakesUp ==
    ASSUME UNCHANGED <<decision, approval, applied>>,
           \A x \in Callers : Deciding(x)' =>
               \/ Deciding(x) /\ dec'[x] = dec[x]
               \/ approval[dec'[x]] # "none"
    PROVE  KeepsDecisions
  BY DEF KeepsDecisions, Spent, Deciding

\* A decision that was just made, or that is being carried out, was not dropped.
LEMMA KeptByStep ==
    ASSUME IndInv, NEW c \in Callers, Step(c)
    PROVE  KeepsDecisions
  <1> USE DEF IndInv
  <1>1. CASE ClaimInsert(c) \/ ClaimConflict(c) \/ Abandon(c)
    BY <1>1, NobodyTakesUp
       DEF ClaimInsert, ClaimConflict, Abandon, Answer, Forget, LogResult, Goto, Deciding,
           TypeOK, local
  <1>2. CASE ProposeAndSimulate(c)
    <2>1. PICK d \in Decisions :
             /\ decision[d].status = "none"
             /\ \A x \in Decisions \ {d} : decision'[x] = decision[x]
             /\ dec' = [dec EXCEPT ![c] = d]
      BY <1>2 DEF ProposeAndSimulate, TypeOK
    <2>2. UNCHANGED <<approval, applied>> /\ applied[d] = 0 /\ ~Spent(d)
      BY <1>2, <2>1 DEF ProposeAndSimulate, OneExecution, Spent, TypeOK
    <2>3. \A x \in Callers \ {c} : pc'[x] = pc[x] /\ dec'[x] = dec[x]
      BY <1>2, <2>1 DEF ProposeAndSimulate, Goto, LogResult, TypeOK
    <2>4. dec'[c] = d
      BY <2>1 DEF TypeOK
    <2> QED BY <2>1, <2>2, <2>3, <2>4 DEF KeepsDecisions, Spent, Deciding
  <1>3. CASE ProposalRefused(c) \/ ClaimDecisionRefused(c) \/ ApplyRefused(c)
    BY <1>3, NobodyTakesUp
       DEF ProposalRefused, ClaimDecisionRefused, ApplyRefused, Raised, Forget, Goto, Deciding,
           TypeOK, local
  <1>4. CASE AcquireLock(c) \/ LockTimeout(c) \/ Critique(c)
    BY <1>4, NobodyTakesUp
       DEF AcquireLock, LockTimeout, Critique, Forget, LogResult, Goto, Deciding, TypeOK, local
  <1>5. CASE RequestApproval(c)
    <2>1. dec[c] \in Decisions /\ ~Spent(dec[c])
      BY <1>5 DEF RequestApproval, FramesAgree, Deciding, Spent
    <2>2. /\ \A d \in Decisions \ {dec[c]} : approval'[d] = approval[d]
          /\ approval'[dec[c]] # "none" /\ UNCHANGED <<decision, applied>>
      BY <1>5, <2>1 DEF RequestApproval, TypeOK
    <2>3. \A x \in Callers : Deciding(x)' => Deciding(x) /\ dec'[x] = dec[x]
      BY <1>5 DEF RequestApproval, LogResult, Goto, Deciding, TypeOK
    <2> QED BY <2>1, <2>2, <2>3 DEF KeepsDecisions, Spent
  <1>6. CASE ClaimDecision(c) \/ Evaluate(c)
    <2>1. dec[c] \in Decisions /\ ~Spent(dec[c])
      BY <1>6 DEF ClaimDecision, Evaluate, FramesAgree, Deciding, Spent
    <2>2. /\ \A d \in Decisions \ {dec[c]} : decision'[d] = decision[d]
          /\ decision'[dec[c]].req = decision[dec[c]].req
          /\ decision'[dec[c]].key = decision[dec[c]].key
          /\ UNCHANGED <<approval, applied>>
      BY <1>6, <2>1 DEF ClaimDecision, Evaluate, TypeOK, DecisionRows
    <2>3. \A x \in Callers : Deciding(x)' => Deciding(x) /\ dec'[x] = dec[x]
      BY <1>6 DEF ClaimDecision, Evaluate, Goto, Deciding, TypeOK, local
    <2> QED BY <2>1, <2>2, <2>3 DEF KeepsDecisions, Spent
  <1>7. CASE ApplyStateChange(c)
    <2>1. \A d \in Decisions : applied[d] = 1 => applied'[d] = 1
      BY <1>7, ApplyFacts DEF TypeOK
    <2>2. UNCHANGED <<decision, approval>>
      BY <1>7 DEF ApplyStateChange
    <2>3. \A x \in Callers : Deciding(x)' => Deciding(x) /\ dec'[x] = dec[x]
      BY <1>7 DEF ApplyStateChange, LogResult, Goto, Deciding, TypeOK
    <2> QED BY <2>1, <2>2, <2>3 DEF KeepsDecisions, Spent
  <1>8. CASE WriteLog(c) \/ Complete(c) \/ Fail(c) \/ Return(c) \/ Revalidate(c) \/ ResolveLost(c)
    BY <1>8, NobodyTakesUp
       DEF WriteLog, Complete, Fail, Return, Revalidate, ResolveLost, Forget, Goto, Deciding,
           TypeOK, local
  <1>9. CASE Resolve(c)
    <2>1. dec[c] \in Decisions
      BY <1>9 DEF Resolve, FramesAgree
    <2>2. /\ approval[dec[c]] # "none" /\ approval'[dec[c]] # "none"
          /\ \A d \in Decisions \ {dec[c]} : approval'[d] = approval[d]
          /\ UNCHANGED <<decision, applied>>
      BY <1>9, <2>1 DEF Resolve, TypeOK
    <2>3. \A x \in Callers : Deciding(x)' =>
            (Deciding(x) /\ dec'[x] = dec[x]) \/ dec'[x] = dec[c]
      BY <1>9 DEF Resolve, Forget, Goto, Deciding, TypeOK, local
    <2> QED BY <2>1, <2>2, <2>3 DEF KeepsDecisions, Spent
  <1> QED
    BY <1>1, <1>2, <1>3, <1>4, <1>5, <1>6, <1>7, <1>8, <1>9 DEF Step

LEMMA KeptByNext ==
    ASSUME IndInv, [Next]_vars
    PROVE  KeepsDecisions
  <1> USE DEF IndInv
  <1>1. ASSUME NEW c \in Callers, Step(c) PROVE KeepsDecisions
    BY <1>1, KeptByStep
  <1>2. ASSUME NEW c \in Callers, Enter(c) PROVE KeepsDecisions
    BY <1>2, NobodyTakesUp
       DEF Enter, Start, ResolveApproval, CallApproved, EnterApproved, Goto, Deciding, TypeOK
  <1>3. ASSUME NEW c \in Callers, Raise(c) \/ Crash(c) PROVE KeepsDecisions
    BY <1>3, NobodyTakesUp DEF Raise, Crash, Raised, Forget, Goto, Deciding, TypeOK, local
  <1>4. ASSUME NEW k \in Keys, Age(k) PROVE KeepsDecisions
    BY <1>4, NobodyTakesUp DEF Age, Deciding, local
  <1>5. CASE UNCHANGED vars
    BY <1>5, NobodyTakesUp DEF vars, Deciding
  <1> QED BY <1>1, <1>2, <1>3, <1>4, <1>5 DEF Next

\* A result keeps its backing.
LEMMA BackingStays ==
    ASSUME KeepsDecisions,
           NEW result, NEW d, NEW r, NEW k, NEW p, Backed(result, d, r, k, p)
    PROVE  /\ result = "executed" =>
                 /\ d \in Decisions
                 /\ applied'[d] = 1
                 /\ decision'[d].req = r
                 /\ p = "tool" => decision'[d].key = k
           /\ result = "pending_human_approval" => d \in Decisions /\ approval'[d] # "none"
           /\ result \in {"held_low_confidence", "blocked_by_critic",
                          "concurrent_change_in_progress"} => d \in Decisions /\ Spent(d)'
  BY DEF KeepsDecisions, Backed

\* A call that does not move.
LEMMA CallStands ==
    ASSUME AnswerInv, KeepsDecisions, execLog \subseteq execLog', NEW x \in Callers,
           pc'[x] = pc[x], path'[x] = path[x], key'[x] = key[x], req'[x] = req[x],
           dec'[x] = dec[x], res'[x] = res[x]
    PROVE  CallIsBacked(x)' /\ CallIsLogged(x)'
  <1>1. CallIsLogged(x)'
    BY DEF AnswerInv, CallIsLogged
  <1>2. CASE pc[x] \notin {"log", "complete", "return"}
    BY <1>1, <1>2 DEF CallIsBacked
  <1>3. CASE pc[x] \in {"log", "complete", "return"}
    <2>1. Backed(res[x], dec[x], req[x], key[x], path[x])
      BY <1>3 DEF AnswerInv, CallIsBacked
    <2>2. CallIsBacked(x)'
      BY <2>1, BackingStays DEF CallIsBacked, Backed
    <2> QED BY <1>1, <2>2
  <1> QED BY <1>2, <1>3

\* A call that moves, but not with a result.
LEMMA CallWithoutResult ==
    ASSUME NEW x \in Callers, pc'[x] \notin {"log", "complete", "return"}
    PROVE  CallIsBacked(x)' /\ CallIsLogged(x)'
  BY DEF CallIsBacked, CallIsLogged

\* A row that keeps its result, or says nothing.
LEMMA RowStands ==
    ASSUME AnswerInv, KeepsDecisions, execLog \subseteq execLog', NEW k \in Keys,
           \/ idem'[k].status # "completed"
           \/ /\ idem'[k].status = idem[k].status
              /\ idem'[k].req = idem[k].req
              /\ idem'[k].result = idem[k].result
              /\ idem'[k].dec = idem[k].dec
    PROVE  RowIsBacked(k)' /\ RowIsLogged(k)'
  <1>1. CASE idem'[k].status # "completed"
    BY <1>1 DEF RowIsBacked, RowIsLogged
  <1>2. CASE idem'[k].status = "completed"
    <2>1. Backed(idem[k].result, idem[k].dec, idem[k].req, k, "tool")
      BY <1>2 DEF AnswerInv, RowIsBacked
    <2>2. RowIsBacked(k)'
      BY <1>2, <2>1, BackingStays, SMTT(30) DEF RowIsBacked, Backed
    <2>3. RowIsLogged(k)'
      BY <1>2 DEF AnswerInv, RowIsLogged
    <2> QED BY <2>2, <2>3
  <1> QED BY <1>1, <1>2

OthersStand(c) ==
    \A x \in Callers \ {c} :
        /\ pc'[x] = pc[x] /\ path'[x] = path[x] /\ key'[x] = key[x]
        /\ req'[x] = req[x] /\ dec'[x] = dec[x] /\ res'[x] = res[x]

RowsStand ==
    \A k \in Keys :
        \/ idem'[k].status # "completed"
        \/ /\ idem'[k].status = idem[k].status
           /\ idem'[k].req = idem[k].req
           /\ idem'[k].result = idem[k].result
           /\ idem'[k].dec = idem[k].dec

\* Each transaction moves one call.
LEMMA OneCallMoves ==
    ASSUME TypeOK, NEW c \in Callers, Step(c) \/ Enter(c) \/ Raise(c) \/ Crash(c)
    PROVE  OthersStand(c)
  <1> USE DEF Goto, Forget, LogResult, local, OthersStand, TypeOK
  <1>1. CASE ClaimInsert(c) \/ ClaimConflict(c) \/ Abandon(c)
    BY <1>1 DEF ClaimInsert, ClaimConflict, Abandon, Answer
  <1>2. CASE ProposeAndSimulate(c) \/ ProposalRefused(c) \/ ClaimDecisionRefused(c)
             \/ ApplyRefused(c) \/ Raise(c) \/ Crash(c)
    BY <1>2 DEF ProposeAndSimulate, ProposalRefused, ClaimDecisionRefused, ApplyRefused,
                Raise, Crash, Raised
  <1>3. CASE AcquireLock(c) \/ LockTimeout(c) \/ Critique(c) \/ RequestApproval(c)
             \/ ClaimDecision(c) \/ Evaluate(c) \/ ApplyStateChange(c) \/ WriteLog(c)
    BY <1>3 DEF AcquireLock, LockTimeout, Critique, RequestApproval, ClaimDecision, Evaluate,
                ApplyStateChange, WriteLog
  <1>4. CASE Complete(c) \/ Fail(c) \/ Return(c) \/ Revalidate(c) \/ Resolve(c)
             \/ ResolveLost(c)
    BY <1>4 DEF Complete, Fail, Return, Revalidate, Resolve, ResolveLost
  <1>5. CASE Enter(c)
    BY <1>5 DEF Enter, Start, ResolveApproval, CallApproved, EnterApproved
  <1> QED BY <1>1, <1>2, <1>3, <1>4, <1>5 DEF Step

\* The mover's own result remains to be looked at.
LEMMA MoverDecides ==
    ASSUME AnswerInv, KeepsDecisions, execLog \subseteq execLog', NEW c \in Callers,
           OthersStand(c), RowsStand, CallIsBacked(c)', CallIsLogged(c)'
    PROVE  AnswerInv'
  <1>1. ASSUME NEW x \in Callers \ {c} PROVE CallIsBacked(x)' /\ CallIsLogged(x)'
    BY CallStands DEF OthersStand
  <1>2. ASSUME NEW k \in Keys PROVE RowIsBacked(k)' /\ RowIsLogged(k)'
    BY RowStands DEF RowsStand
  <1> QED BY <1>1, <1>2 DEF AnswerInv

\* The gates' results, as they go to the log.
LEMMA GateResults ==
    ASSUME IndInv, NEW c \in Callers, KeepsDecisions, OthersStand(c),
           \/ ClaimInsert(c) \/ ProposeAndSimulate(c) \/ LockTimeout(c) \/ Critique(c)
           \/ RequestApproval(c) \/ ApplyStateChange(c)
    PROVE  CallIsBacked(c)' /\ CallIsLogged(c)'
  <1> USE DEF IndInv
  <1>1. CASE ClaimInsert(c)
    BY <1>1 DEF ClaimInsert, LogResult, Goto, local, TypeOK, CallIsBacked, CallIsLogged, Backed
  <1>2. CASE ProposeAndSimulate(c)
    <2>1. PICK d \in Decisions,
               conf \in Confidences(req[c].type, req[c].new, value[req[c].target]) :
             /\ decision[d].status = "none"
             /\ decision' = [decision EXCEPT ![d] =
                               [status |-> IF Cleared(conf) THEN "simulated" ELSE "held",
                                req |-> req[c], key |-> key[c], confidence |-> conf]]
             /\ dec' = [dec EXCEPT ![c] = d]
             /\ IF Cleared(conf)
                THEN Goto(c, "lock") /\ UNCHANGED <<path, key, req, res>>
                ELSE LogResult(c, "held_low_confidence")
      BY <1>2 DEF ProposeAndSimulate
    <2>2. CASE Cleared(conf)
      BY <2>1, <2>2, CallWithoutResult DEF Goto, TypeOK
    <2>3. CASE ~Cleared(conf)
      <3>1. /\ pc'[c] = "log" /\ res'[c] = "held_low_confidence" /\ dec'[c] = d
            /\ decision'[d].status = "held"
        BY <2>1, <2>3 DEF LogResult, Goto, TypeOK
      <3>2. approval'[d] = "none"
        BY <1>2, <2>1 DEF ProposeAndSimulate, GatesHeld
      <3>3. ASSUME NEW x \in Callers, Deciding(x)' PROVE dec'[x] # d
        BY <2>1, <3>1, <3>3 DEF OthersStand, Deciding, FramesAgree, Recorded
      <3>4. Spent(d)'
        BY <3>1, <3>2, <3>3 DEF Spent
      <3> QED BY <3>1, <3>4 DEF CallIsBacked, CallIsLogged, Backed
    <2> QED BY <2>2, <2>3
  <1>3. CASE LockTimeout(c) \/ Critique(c)
    <2>1. CASE pc'[c] \notin {"log", "complete", "return"}
      BY <2>1, CallWithoutResult
    <2>2. CASE pc'[c] \in {"log", "complete", "return"}
      <3>1. /\ path[c] = "tool" /\ pc[c] \in {"lock", "critique"} /\ pc'[c] = "log"
            /\ res'[c] \in {"blocked_by_critic", "concurrent_change_in_progress"}
            /\ dec'[c] = dec[c] /\ UNCHANGED <<decision, approval>>
        BY <1>3, <2>2 DEF LockTimeout, Critique, LogResult, Forget, Goto, local, TypeOK,
                          FramesAgree
      <3>2. /\ dec[c] \in Decisions /\ decision[dec[c]].status = "simulated"
            /\ approval[dec[c]] = "none" /\ Deciding(c)
        BY <3>1 DEF Deciding, FramesAgree, AuthorityOfCalls
      <3>3. ASSUME NEW x \in Callers, Deciding(x)', dec'[x] = dec[c] PROVE FALSE
        <4>1. x # c
          BY <3>1, <3>3 DEF Deciding
        <4>2. Deciding(x) /\ dec[x] = dec[c]
          BY <3>3, <4>1 DEF OthersStand, Deciding
        <4>3. path[x] = "tool"
          BY <3>2, <4>2 DEF AuthorityOfCalls, TypeOK
        <4>4. Owner(x) /\ Owner(c) /\ key[x] = key[c]
          BY <3>1, <3>2, <4>2, <4>3 DEF Owner, Deciding, FramesAgree
        <4> QED BY <4>1, <4>4 DEF KeysAreBound
      <3>4. Spent(dec[c])'
        BY <3>1, <3>2, <3>3 DEF Spent
      <3> QED BY <3>1, <3>2, <3>4 DEF CallIsBacked, CallIsLogged, Backed
    <2> QED BY <2>1, <2>2
  <1>4. CASE RequestApproval(c)
    <2>1. dec[c] \in Decisions
      BY <1>4 DEF RequestApproval, FramesAgree, Deciding
    <2>2. /\ pc'[c] = "log" /\ res'[c] = "pending_human_approval" /\ dec'[c] = dec[c]
          /\ approval'[dec[c]] # "none"
      BY <1>4, <2>1 DEF RequestApproval, LogResult, Goto, TypeOK
    <2> QED BY <2>1, <2>2 DEF CallIsBacked, CallIsLogged, Backed
  <1>5. CASE ApplyStateChange(c)
    <2>1. /\ pc'[c] = "log" /\ res'[c] = "executed" /\ dec'[c] = dec[c]
          /\ req'[c] = req[c] /\ key'[c] = key[c] /\ path'[c] = path[c]
      BY <1>5 DEF ApplyStateChange, LogResult, Goto, TypeOK
    <2>2. /\ dec[c] \in Decisions /\ applied'[dec[c]] = 1 /\ decision' = decision
          /\ decision[dec[c]].req = req[c]
      BY <1>5, ApplyFacts DEF TypeOK
    <2>3. path[c] = "tool" => decision[dec[c]].key = key[c]
      BY <1>5 DEF ApplyStateChange, FramesAgree, Deciding
    <2> QED BY <2>1, <2>2, <2>3 DEF CallIsBacked, CallIsLogged, Backed
  <1> QED BY <1>1, <1>2, <1>3, <1>4, <1>5

\* The log is written before the call answers, and says what the call will say.
LEMMA LoggedResult ==
    ASSUME IndInv, AnswerInv, KeepsDecisions, NEW c \in Callers, WriteLog(c)
    PROVE  CallIsBacked(c)' /\ CallIsLogged(c)'
  <1>1. /\ pc[c] = "log" /\ pc'[c] \in {"complete", "return"}
        /\ UNCHANGED <<path, key, req, dec, res>>
        /\ execLog' = execLog \cup {[req |-> req[c], dec |-> dec[c], res |-> res[c]]}
    BY DEF WriteLog, Goto, local, IndInv, TypeOK
  <1>2. CallIsLogged(c)'
    BY <1>1 DEF CallIsLogged
  <1>3. Backed(res[c], dec[c], req[c], key[c], path[c])
    BY <1>1 DEF AnswerInv, CallIsBacked
  <1>4. /\ pc'[c] # "log" /\ path'[c] = path[c] /\ key'[c] = key[c] /\ req'[c] = req[c]
        /\ dec'[c] = dec[c] /\ res'[c] = res[c]
    BY <1>1
  <1>5. UNCHANGED <<decision, approval, applied>>
    BY DEF WriteLog
  <1>6. ASSUME dec[c] \in Decisions, Spent(dec[c]) PROVE Spent(dec[c])'
    BY <1>4, <1>6 DEF KeepsDecisions, Spent
  <1>7. CallIsBacked(c)'
    BY <1>3, <1>4, <1>5, <1>6 DEF CallIsBacked, Backed
  <1> QED BY <1>2, <1>7

\* claim() answers from the row, which must be for the same request.
LEMMA AnsweredResult ==
    ASSUME IndInv, AnswerInv, KeepsDecisions, NEW c \in Callers,
           ClaimConflict(c) \/ Abandon(c)
    PROVE  CallIsBacked(c)' /\ CallIsLogged(c)'
  <1> USE DEF IndInv
  <1>1. CASE pc'[c] \notin {"log", "complete", "return"}
    BY <1>1, CallWithoutResult
  <1>2. CASE pc'[c] \in {"log", "complete", "return"} /\ res'[c] \in
             {"previous_attempt_incomplete", "request_in_progress"}
    BY <1>2 DEF CallIsBacked, CallIsLogged, Backed, ToolResults
  <1>3. CASE /\ pc'[c] \in {"log", "complete", "return"}
             /\ res'[c] \notin {"previous_attempt_incomplete", "request_in_progress"}
    <2> DEFINE row == idem[key[c]]
    <2>1. /\ ClaimConflict(c) /\ row.status = "completed" /\ row.req = req[c]
          /\ Answer(c, row.result, row.dec)
      BY <1>3 DEF ClaimConflict, Abandon, Answer, Forget, Goto, local, TypeOK
    <2>2. /\ pc[c] = "claim" /\ key[c] \in Keys /\ path[c] = "tool" /\ execLog' = execLog
      BY <2>1 DEF ClaimConflict, FramesAgree
    <2>3. /\ pc'[c] = "return" /\ res'[c] = row.result /\ dec'[c] = row.dec
          /\ path'[c] = path[c] /\ key'[c] = key[c] /\ req'[c] = row.req
      BY <2>1 DEF Answer, Goto, TypeOK
    <2>4. Backed(row.result, row.dec, row.req, key[c], "tool")
      BY <2>1, <2>2 DEF AnswerInv, RowIsBacked
    <2>5. CallIsBacked(c)'
      BY <2>2, <2>3, <2>4, BackingStays, SMTT(30) DEF CallIsBacked, Backed
    <2>6. CallIsLogged(c)'
      BY <2>1, <2>2, <2>3 DEF AnswerInv, RowIsLogged, CallIsLogged
    <2> QED BY <2>5, <2>6
  <1> QED BY <1>1, <1>2, <1>3

\* complete() stores for the retries what the call answers itself.
LEMMA StoredResult ==
    ASSUME IndInv, AnswerInv, KeepsDecisions, NEW c \in Callers, Complete(c), OthersStand(c)
    PROVE  AnswerInv'
  <1> USE DEF IndInv
  <1>1. /\ pc[c] = "complete" /\ pc'[c] = "return" /\ key[c] \in Keys /\ path[c] = "tool"
        /\ UNCHANGED <<path, key, req, dec, res, execLog>> /\ idem[key[c]].req = req[c]
    BY DEF Complete, Goto, local, TypeOK, FramesAgree, KeysAreBound, Owner
  <1>2. Backed(res[c], dec[c], req[c], key[c], path[c])
    BY <1>1 DEF AnswerInv, CallIsBacked
  <1>3. CallIsBacked(c)'
    BY <1>1, <1>2, BackingStays DEF CallIsBacked, Backed
  <1>4. CallIsLogged(c)'
    BY <1>1 DEF AnswerInv, CallIsLogged
  <1>5. \A k \in Keys \ {key[c]} : idem'[k] = idem[k]
    BY <1>1 DEF Complete, Finish, TypeOK
  <1>6. \/ idem'[key[c]] = idem[key[c]]
        \/ /\ idem'[key[c]].req = req[c] /\ idem'[key[c]].result = res[c]
           /\ idem'[key[c]].dec = dec[c]
    BY <1>1 DEF Complete, Finish, TypeOK, Claims
  <1>7. ASSUME NEW x \in Callers \ {c} PROVE CallIsBacked(x)' /\ CallIsLogged(x)'
    BY <1>1, CallStands DEF OthersStand
  <1>8. ASSUME NEW k \in Keys, idem'[k] = idem[k] PROVE RowIsBacked(k)' /\ RowIsLogged(k)'
    BY <1>1, <1>8, RowStands
  <1>9. ASSUME idem'[key[c]].req = req[c], idem'[key[c]].result = res[c],
               idem'[key[c]].dec = dec[c]
        PROVE  RowIsBacked(key[c])' /\ RowIsLogged(key[c])'
    <2>1. RowIsBacked(key[c])'
      BY <1>1, <1>2, <1>9, BackingStays, SMTT(30) DEF RowIsBacked, Backed
    <2>2. RowIsLogged(key[c])'
      BY <1>1, <1>9 DEF AnswerInv, CallIsLogged, RowIsLogged
    <2> QED BY <2>1, <2>2
  <1>10. ASSUME NEW k \in Keys PROVE RowIsBacked(k)' /\ RowIsLogged(k)'
    <2>1. CASE k = key[c]
      BY <1>1, <1>6, <1>8, <1>9, <2>1
    <2>2. CASE k # key[c]
      BY <1>5, <1>8, <2>2
    <2> QED BY <2>1, <2>2
  <1> QED BY <1>3, <1>4, <1>7, <1>10 DEF AnswerInv

\* Every transaction leaves the answers backed and logged.
LEMMA StepAnswers ==
    ASSUME IndInv, AnswerInv, NEW c \in Callers, Step(c)
    PROVE  AnswerInv'
  <1> USE DEF IndInv
  <1>1. KeepsDecisions
    BY KeptByStep
  <1>2. OthersStand(c)
    BY OneCallMoves
  <1>3. CASE Complete(c)
    BY <1>1, <1>2, <1>3, StoredResult
  <1>4. CASE ~Complete(c)
    <2>1. RowsStand
      <3>1. CASE ClaimInsert(c) \/ Abandon(c) \/ Fail(c)
        <4>1. /\ key[c] \in Keys
              /\ \A k \in Keys \ {key[c]} : idem'[k] = idem[k]
          BY <3>1 DEF ClaimInsert, Abandon, Fail, Finish, TypeOK, FramesAgree
        <4>2. idem'[key[c]] = idem[key[c]] \/ idem'[key[c]].status # "completed"
          <5>1. CASE ClaimInsert(c)
            BY <4>1, <5>1 DEF ClaimInsert, TypeOK, Claims
          <5>2. CASE Abandon(c)
            BY <4>1, <5>2 DEF Abandon, TypeOK, Claims
          <5>3. CASE Fail(c)
            BY <4>1, <5>3 DEF Fail, Finish, TypeOK, Claims
          <5> QED BY <3>1, <5>1, <5>2, <5>3
        <4> QED BY <4>1, <4>2 DEF RowsStand
      <3>2. CASE UNCHANGED idem
        BY <3>2 DEF RowsStand
      <3> QED BY <1>4, <3>1, <3>2
              DEF Step, ClaimConflict, ProposeAndSimulate, ProposalRefused, AcquireLock,
                  LockTimeout, Critique, RequestApproval, ClaimDecision, ClaimDecisionRefused,
                  Evaluate, ApplyStateChange, ApplyRefused, WriteLog, Return, Revalidate,
                  Resolve, ResolveLost
    <2>2. execLog \subseteq execLog'
      BY DEF Step, ClaimInsert, ClaimConflict, Abandon, Complete, Fail, ProposeAndSimulate,
             ProposalRefused, AcquireLock, LockTimeout, Critique, RequestApproval,
             ClaimDecision, ClaimDecisionRefused, Evaluate, ApplyStateChange, ApplyRefused,
             WriteLog, Return, Revalidate, Resolve, ResolveLost
    <2>3. CASE ClaimInsert(c) \/ ProposeAndSimulate(c) \/ LockTimeout(c) \/ Critique(c)
               \/ RequestApproval(c) \/ ApplyStateChange(c)
      BY <1>1, <1>2, <2>1, <2>2, <2>3, GateResults, MoverDecides
    <2>4. CASE WriteLog(c)
      BY <1>1, <1>2, <2>1, <2>2, <2>4, LoggedResult, MoverDecides
    <2>5. CASE ClaimConflict(c) \/ Abandon(c)
      BY <1>1, <1>2, <2>1, <2>2, <2>5, AnsweredResult, MoverDecides
    <2>6. CASE \/ ProposalRefused(c) \/ ClaimDecisionRefused(c) \/ ApplyRefused(c)
               \/ AcquireLock(c) \/ ClaimDecision(c) \/ Evaluate(c) \/ Fail(c) \/ Return(c)
               \/ Revalidate(c) \/ Resolve(c) \/ ResolveLost(c)
      <3>1. pc'[c] \notin {"log", "complete", "return"}
        BY <2>6 DEF ProposalRefused, ClaimDecisionRefused, ApplyRefused, Raised, AcquireLock,
                    ClaimDecision, Evaluate, Fail, Return, Revalidate, Resolve, ResolveLost,
                    Forget, Goto, TypeOK
      <3> QED BY <1>1, <1>2, <2>1, <2>2, <3>1, CallWithoutResult, MoverDecides
    <2> QED BY <1>4, <2>3, <2>4, <2>5, <2>6 DEF Step
  <1> QED BY <1>3, <1>4

LEMMA NextAnswers ==
    ASSUME IndInv, AnswerInv, [Next]_vars
    PROVE  AnswerInv'
  <1> USE DEF IndInv
  <1>1. KeepsDecisions
    BY KeptByNext
  <1>2. ASSUME NEW c \in Callers, Step(c) PROVE AnswerInv'
    BY <1>2, StepAnswers
  <1>3. ASSUME NEW c \in Callers, Enter(c) \/ Raise(c) \/ Crash(c) PROVE AnswerInv'
    <2>1. OthersStand(c)
      BY <1>3, OneCallMoves
    <2>2. UNCHANGED <<idem, execLog>>
      BY <1>3 DEF Enter, Start, ResolveApproval, CallApproved, EnterApproved, Raise, Crash
    <2>3. pc'[c] \notin {"log", "complete", "return"}
      BY <1>3 DEF Enter, Start, ResolveApproval, CallApproved, EnterApproved, Raise, Crash,
                  Raised, Forget, Goto, TypeOK
    <2>4. RowsStand
      BY <2>2 DEF RowsStand
    <2> QED BY <1>1, <2>1, <2>2, <2>3, <2>4, CallWithoutResult, MoverDecides
  <1>4. ASSUME NEW k \in Keys, Age(k) PROVE AnswerInv'
    <2>1. RowsStand
      BY <1>4 DEF Age, RowsStand, TypeOK, Claims
    <2>2. \A x \in Callers : /\ pc'[x] = pc[x] /\ path'[x] = path[x] /\ key'[x] = key[x]
                             /\ req'[x] = req[x] /\ dec'[x] = dec[x] /\ res'[x] = res[x]
      BY <1>4 DEF Age, local
    <2>3. UNCHANGED execLog
      BY <1>4 DEF Age
    <2>4. ASSUME NEW x \in Callers PROVE CallIsBacked(x)' /\ CallIsLogged(x)'
      BY <1>1, <2>2, <2>3, CallStands
    <2>5. ASSUME NEW x \in Keys PROVE RowIsBacked(x)' /\ RowIsLogged(x)'
      BY <1>1, <2>1, <2>3, RowStands DEF RowsStand
    <2> QED BY <2>4, <2>5 DEF AnswerInv
  <1>5. CASE UNCHANGED vars
    <2>1. ASSUME NEW x \in Callers PROVE CallIsBacked(x)' /\ CallIsLogged(x)'
      BY <1>1, <1>5, CallStands DEF vars
    <2>2. ASSUME NEW x \in Keys PROVE RowIsBacked(x)' /\ RowIsLogged(x)'
      BY <1>1, <1>5, RowStands DEF vars
    <2> QED BY <2>1, <2>2 DEF AnswerInv
  <1> QED BY <1>2, <1>3, <1>4, <1>5 DEF Next

LEMMA Answers == Spec => [](IndInv /\ AnswerInv)
  <1>1. Init => AnswerInv
    BY DEF Init, AnswerInv, CallIsBacked, CallIsLogged, RowIsBacked, RowIsLogged, NoClaim
  <1> QED BY <1>1, InitEstablishes, NextPreserves, NextAnswers, PTL DEF Spec

\* Whatever a call returns is true of the tables when it returns, for a replay
\* of an old result as for a fresh one.
THEOREM AnswersTrue == Spec => []AnswersAreTruthful
  <1>1. ASSUME IndInv, AnswerInv, NEW c \in Callers, pc[c] = "return"
        PROVE  /\ Backed(res[c], dec[c], req[c], key[c], path[c])
               /\ \A d \in Decisions : Spent(d) => applied[d] = 0
    BY <1>1 DEF AnswerInv, CallIsBacked, IndInv, OneExecution, Spent, TypeOK
  <1>2. IndInv /\ AnswerInv => AnswersAreTruthful
    BY <1>1 DEF AnswersAreTruthful, Backed
  <1> QED BY <1>2, Answers, PTL

\* No caller gets a result of the framework that the execution log does not hold.
THEOREM AnswersLogged == Spec => []AnsweredCallsAreLogged
  <1>1. AnswerInv => AnsweredCallsAreLogged
    BY DEF AnswerInv, CallIsLogged, AnsweredCallsAreLogged
  <1> QED BY <1>1, Answers, PTL

=============================================================================
