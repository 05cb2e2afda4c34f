---------------------------- MODULE MCWorkQueue ----------------------------
(***************************************************************************)
(* Instances of WorkQueue: two workers and two requests, the first of which *)
(* two API handlers may be sent.                                            *)
(***************************************************************************)
EXTENDS WorkQueue

CONSTANTS a1, a2, w1, w2, k1, k2

FirstIsRetried == a1 :> {k1, k2} @@ a2 :> {k1}
OneHandler == a1 :> {k1, k2}
NothingForbidden == {{}}
SecondKeyForbidden == {{k2}}
=============================================================================
