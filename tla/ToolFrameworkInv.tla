-------------------------- MODULE ToolFrameworkInv --------------------------
(***************************************************************************)
(* The inductive invariant behind the safety properties of ToolFramework.  *)
(* AtMostOncePerKey and ExecutedWithAuthority say what is in the tables;    *)
(* they are inductive only together with what every call in flight knows    *)
(* about the rows it is going to write.  AnswerInv does the same for what   *)
(* callers are told.                                                       *)
(***************************************************************************)
EXTENDS ToolFramework

\* The call owns its key: claim() inserted the row and the wrapper has not ended.
Owner(c) ==
    /\ path[c] = "tool"
    /\ pc[c] \in {"propose", "lock", "critique", "request", "execute", "observe",
                  "apply", "log", "complete", "fail"}

\* The call carries a decision towards or through execution.
Deciding(c) == pc[c] \in {"lock", "critique", "request", "execute", "observe", "apply"}

Recorded(d) == decision[d].status # "none"

\* Stack frames agree with the rows they were filled from.
FramesAgree ==
    \A c \in Callers :
        /\ pc[c] = "idle" => path[c] = "tool"
        /\ pc[c] \in {"propose", "claim", "abandon", "critique", "request", "complete", "fail"}
              => path[c] = "tool"
        /\ pc[c] \in {"revalidate", "approve", "reject"} => path[c] = "approved"
        /\ pc[c] # "idle" => req[c] \in Requests
        /\ path[c] = "tool" /\ pc[c] # "idle" => key[c] \in Keys
        /\ path[c] = "approved" \/ Deciding(c) =>
              /\ dec[c] \in Decisions
              /\ Recorded(dec[c])
              /\ decision[dec[c]].req = req[c]
        /\ path[c] = "tool" /\ Deciding(c) => decision[dec[c]].key = key[c]
        /\ pc[c] \in {"log", "complete"} => res[c] \in Results
        /\ pc[c] = "abandon" => idem[key[c]].status # "none"

\* A key has one owner and one decision, both for the request it is bound to.
KeysAreBound ==
    /\ \A k \in Keys : idem[k].status = "none" <=> idem[k].req = None
    /\ \A k \in Keys : idem[k].status = "completed" => idem[k].result \in Results
    /\ \A c \in Callers : Owner(c) =>
          /\ idem[key[c]].status # "none"
          /\ idem[key[c]].req = req[c]
    /\ \A c1, c2 \in Callers : Owner(c1) /\ Owner(c2) /\ key[c1] = key[c2] => c1 = c2
    /\ \A c \in Callers, d \in Decisions :
          pc[c] = "propose" /\ Recorded(d) => decision[d].key # key[c]
    /\ \A d \in Decisions : Recorded(d) =>
          /\ decision[d].req \in Requests
          /\ decision[d].key \in Keys
          /\ idem[decision[d].key].req = decision[d].req
    /\ \A d1, d2 \in Decisions :
          Recorded(d1) /\ Recorded(d2) /\ decision[d1].key = decision[d2].key => d1 = d2

\* What the gates let through.
GatesHeld ==
    \A d \in Decisions :
        /\ decision[d].status \in {"simulated", "executed", "evaluated"} =>
              /\ Cleared(decision[d].confidence)
              /\ decision[d].req.type \in {"price_change", "supplier_switch"}
              /\ decision[d].req.new > 0
        /\ decision[d].status \in {"none", "held"} => approval[d] = "none"
        /\ decision[d].status \in {"executed", "evaluated"} =>
              \/ approval[d] = "approved"
              \/ /\ approval[d] = "none"
                 /\ decision[d].req.type = "price_change"
                 /\ decision[d].confidence >= MIN_CONFIDENCE_FOR_AUTONOMOUS_ACTION

\* The authority each call in flight acts under.
AuthorityOfCalls ==
    \A c \in Callers :
        /\ path[c] = "tool" /\ pc[c] \in {"lock", "critique", "request", "execute"} =>
              decision[dec[c]].status = "simulated"
        /\ path[c] = "tool" /\ Deciding(c) => approval[dec[c]] = "none"
        /\ path[c] = "tool" /\ pc[c] \in {"execute", "observe", "apply"} =>
              /\ req[c].type = "price_change"
              /\ decision[dec[c]].confidence >= MIN_CONFIDENCE_FOR_AUTONOMOUS_ACTION
        /\ path[c] = "approved" => approval[dec[c]] # "none"
        /\ path[c] = "approved" /\ Deciding(c) => approval[dec[c]] = "approved"

\* A decision is carried out by one call, once.
OneExecution ==
    /\ \A d \in Decisions :
          /\ applied[d] <= 1
          /\ applied[d] > 0 => decision[d].status = "evaluated"
    /\ \A c \in Callers :
          /\ pc[c] = "observe" => decision[dec[c]].status = "executed"
          /\ pc[c] = "apply" => decision[dec[c]].status = "evaluated" /\ applied[dec[c]] = 0
    /\ \A c1, c2 \in Callers :
          /\ pc[c1] \in {"observe", "apply"}
          /\ pc[c2] \in {"observe", "apply"}
          /\ dec[c1] = dec[c2]
          => c1 = c2

\* The advisory lock excludes, and covers the baseline from read to write.
Serialized ==
    /\ \A c \in Callers :
          /\ c \in holds =>
                pc[c] \in {"critique", "request", "execute", "observe", "apply", "log"}
          /\ pc[c] \in {"critique", "request", "execute", "observe", "apply"} => c \in holds
    /\ \A c1, c2 \in holds : SerializationKey(req[c1]) = SerializationKey(req[c2]) => c1 = c2
    /\ \A c \in Callers :
          path[c] = "tool" /\ pc[c] \in {"execute", "observe", "apply"} =>
              100 * Abs(req[c].new - value[req[c].target])
                  <= SMALL_PRICE_CHANGE_PCT * value[req[c].target]

\* The invariant each action preserves: the types and what every call in flight
\* knows about the rows of idempotency_keys, decisions and approval_requests.
IndInv ==
    /\ TypeOK
    /\ FramesAgree
    /\ KeysAreBound
    /\ GatesHeld
    /\ AuthorityOfCalls
    /\ OneExecution
    /\ Serialized

(***************************************************************************)
(* What a result that is on its way to a caller, or stored for the retries  *)
(* of its key, says of the tables.                                          *)
(***************************************************************************)

\* Nobody is left who could carry the decision out, and nobody will be asked to.
Spent(d) ==
    /\ decision[d].status \in {"held", "simulated"}
    /\ approval[d] = "none"
    /\ \A c \in Callers : Deciding(c) => dec[c] # d

Backed(result, d, r, k, p) ==
    /\ result = "executed" =>
          /\ d \in Decisions
          /\ applied[d] = 1
          /\ decision[d].req = r
          /\ p = "tool" => decision[d].key = k
    /\ result = "pending_human_approval" => d \in Decisions /\ approval[d] # "none"
    /\ result \in {"held_low_confidence", "blocked_by_critic",
                   "concurrent_change_in_progress"} => d \in Decisions /\ Spent(d)

CallIsBacked(c) ==
    pc[c] \in {"log", "complete", "return"} =>
        Backed(res[c], dec[c], req[c], key[c], path[c])

RowIsBacked(k) ==
    idem[k].status = "completed" =>
        Backed(idem[k].result, idem[k].dec, idem[k].req, k, "tool")

CallIsLogged(c) ==
    pc[c] \in {"complete", "return"} /\ res[c] \in ToolResults =>
        [req |-> req[c], dec |-> dec[c], res |-> res[c]] \in execLog

RowIsLogged(k) ==
    idem[k].status = "completed" /\ idem[k].result \in ToolResults =>
        [req |-> idem[k].req, dec |-> idem[k].dec, res |-> idem[k].result] \in execLog

\* Inductive together with IndInv.
AnswerInv ==
    /\ \A c \in Callers : CallIsBacked(c) /\ CallIsLogged(c)
    /\ \A k \in Keys : RowIsBacked(k) /\ RowIsLogged(k)
=============================================================================
