---------------------------- MODULE ActionLedger ----------------------------
(***************************************************************************)
(* What the execution boundary promises its callers, without saying how: a *)
(* key is bound to the first request submitted under it, and a bound       *)
(* request changes the restaurant at most once, in one atomic step.        *)
(***************************************************************************)
EXTENDS ActionPolicy

CONSTANTS Keys, Requests, InitValue, None

VARIABLES asked,    \* the request each key is bound to, or None
          done,     \* keys whose request was carried out
          value     \* current prices, costs and headcounts

ledger == <<asked, done, value>>

Init ==
    /\ asked = [k \in Keys |-> None]
    /\ done = {}
    /\ value = InitValue

Bind(k, r) ==
    /\ asked[k] = None
    /\ asked' = [asked EXCEPT ![k] = r]
    /\ UNCHANGED <<done, value>>

CarryOut(k) ==
    /\ asked[k] # None
    /\ k \notin done
    /\ done' = done \cup {k}
    /\ value' = [value EXCEPT ![asked[k].target] = NewValue(asked[k], @)]
    /\ UNCHANGED asked

Next ==
    \E k \in Keys : CarryOut(k) \/ \E r \in Requests : Bind(k, r)

Spec == Init /\ [][Next]_ledger
=============================================================================
