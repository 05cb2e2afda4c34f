------------------------------ MODULE EventLog ------------------------------
(***************************************************************************)
(* What append_event promises: "Event is the historical source of truth".   *)
(* The history of a tenant is a sequence that grows at its end only, every  *)
(* accepted event changes the current-state tables once, in the order of    *)
(* the history, and an event that is refused leaves no trace.  An auditor   *)
(* who asks for the state at a moment in the past therefore gets the same   *)
(* answer for ever.                                                         *)
(***************************************************************************)
EXTENDS Naturals, Sequences

CONSTANTS
    Payloads,          \* what can be appended
    Times,             \* the instants at which it can be
    Effect(_, _, _),   \* tables, payload, time: the tables it can leave, or none
    Seed               \* the tables without any event

VARIABLES log, tables

vars == <<log, tables>>

Init == log = <<>> /\ tables = Seed

AppendEvent(p, at) ==
    /\ log # <<>> => log[Len(log)].timestamp < at
    /\ log' = Append(log, [payload |-> p, timestamp |-> at])
    /\ tables' \in Effect(tables, p, at)

Next == \E p \in Payloads, at \in Times : AppendEvent(p, at)

Spec == Init /\ [][Next]_vars
=============================================================================
