----------------------------- MODULE MCSessions -----------------------------
(***************************************************************************)
(* Instances of Sessions: two requests that share the pool of the API, or a *)
(* request and a message of the worker.                                     *)
(***************************************************************************)
EXTENDS Sessions

CONSTANTS a1, a2, w1, c1, c2, c3, d1, d2, m1, m2

TwoRequestsOrBothProcesses ==
    {(a1 :> {m1}) @@ (a2 :> {m1, m2}) @@ (w1 :> {}),
     (a1 :> {m1}) @@ (a2 :> {}) @@ (w1 :> {m1})}
=============================================================================
