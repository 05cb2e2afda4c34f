--------------------------- MODULE ActionRequests ---------------------------
(***************************************************************************)
(* What the asynchronous path promises to the client that submitted an      *)
(* action and polls GET /v1/actions/{id}: the answer for each idempotency   *)
(* key, and how often the restaurant was changed for it.                    *)
(*                                                                         *)
(* In an exclusive deployment no two workers ever hold the same message,    *)
(* because the visibility timeout covers the time a batch takes.  Otherwise *)
(* the promise is the weaker one stated here.                               *)
(*                                                                         *)
(* An action may need a reviewer.  The status the client polls has no value *)
(* for that: such a request is answered "failed" although it is still open  *)
(* with the reviewer, and what comes of it is never answered.               *)
(***************************************************************************)
EXTENDS Naturals

CONSTANT Keys

VARIABLES exclusive, answer, approval, writes

vars == <<exclusive, answer, approval, writes>>

Answers == {"completed", "failed"}

Init ==
    /\ exclusive \in BOOLEAN
    /\ answer = [k \in Keys |-> "unknown"]
    /\ approval = [k \in Keys |-> "none"]
    /\ writes = [k \in Keys |-> 0]

Accept(k) ==
    /\ answer[k] = "unknown"
    /\ answer' = [answer EXCEPT ![k] = "open"]
    /\ UNCHANGED <<exclusive, approval, writes>>

\* The restaurant is changed once for an accepted request that needs no reviewer.
Write(k) ==
    /\ writes[k] = 0 /\ approval[k] = "none"
    /\ answer[k] # "unknown"
    /\ exclusive => answer[k] = "open"
    /\ writes' = [writes EXCEPT ![k] = 1]
    /\ UNCHANGED <<exclusive, answer, approval>>

\* A reviewer is asked once, about a request that changed nothing.
Ask(k) ==
    /\ writes[k] = 0 /\ approval[k] = "none"
    /\ answer[k] # "unknown"
    /\ exclusive => answer[k] = "open"
    /\ approval' = [approval EXCEPT ![k] = "open"]
    /\ UNCHANGED <<exclusive, answer, writes>>

\* A reviewer closes a request once, with one change or none, whatever was
\* answered.
Review(k) ==
    /\ approval[k] = "open" /\ writes[k] = 0
    /\ approval' = [approval EXCEPT ![k] = "closed"]
    /\ \E n \in {0, 1} : writes' = [writes EXCEPT ![k] = n]
    /\ UNCHANGED <<exclusive, answer>>

\* "completed" is said only of a change that was written without a reviewer; an
\* exclusive worker answers once, and says "failed" only when nothing was written
\* or a reviewer was asked.
Answer(k, said) ==
    /\ answer[k] # "unknown"
    /\ said = "completed" => writes[k] = 1 /\ approval[k] = "none"
    /\ exclusive =>
          /\ answer[k] = "open"
          /\ said = "failed" => writes[k] = 0 \/ approval[k] # "none"
    /\ answer' = [answer EXCEPT ![k] = said]
    /\ UNCHANGED <<exclusive, approval, writes>>

\* A second worker that read the request before the first one answered.
Reopen(k) ==
    /\ ~exclusive
    /\ answer[k] \in Answers
    /\ answer' = [answer EXCEPT ![k] = "open"]
    /\ UNCHANGED <<exclusive, approval, writes>>

Next ==
    \E k \in Keys :
        \/ Accept(k) \/ Write(k) \/ Reopen(k)
        \/ Ask(k) \/ Review(k)
        \/ \E said \in Answers : Answer(k, said)

Spec == Init /\ [][Next]_vars
=============================================================================
