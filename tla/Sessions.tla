------------------------------ MODULE Sessions ------------------------------
(***************************************************************************)
(* Database sessions (Component_1/db.py) as the API process and the worker  *)
(* use them: a pool of connections per process, the tenant setting that     *)
(* row-level security reads, and the two kinds of advisory lock.            *)
(*                                                                         *)
(* A thread runs nested blocks, each on a connection of its own:            *)
(*   session            with get_db_context(tenant_id)                      *)
(*   guard              with _serialized_state_change(...)                  *)
(*   cycle              with _tenant_cycle_lock(tenant_id)                  *)
(*   preflight          assert_rls_enforced()                               *)
(*   lookup, refresh    the two transactions of resolve_tenant_from_key     *)
(*   bare               what is left of a session after session.rollback()  *)
(* Authentication runs in the event loop, in the order of arrival, and     *)
(* blocks it; everything else runs in threads.                              *)
(***************************************************************************)
EXTENDS Naturals, Sequences, SequencesExt, FiniteSets

CONSTANTS
    ApiThreads, WorkerThreads,
    ApiPool, WorkerPool,   \* connections each process may open
    Tenants,
    Loads,                 \* bound: for which tenants each thread may get work
    MaxBlocks,             \* bound: blocks one request or message chooses to open
    None

ASSUME SessionsAssumption ==
    /\ ApiThreads \cap WorkerThreads = {}
    /\ ApiPool \cap WorkerPool = {}
    /\ Loads \subseteq [ApiThreads \cup WorkerThreads -> SUBSET Tenants]
    /\ MaxBlocks \in Nat
    /\ None \notin ApiThreads \cup WorkerThreads \cup ApiPool \cup WorkerPool \cup Tenants

Threads == ApiThreads \cup WorkerThreads
Connections == ApiPool \cup WorkerPool
Kinds == {"session", "guard", "cycle", "preflight", "lookup", "refresh", "bare"}
TenantKinds == {"session", "guard"}
LockKinds == {"guard", "cycle"}
Locks == LockKinds \X Tenants

VARIABLES
    load,          \* the work that there is in this behaviour
    pc, tenant,    \* where each thread is, and for whom
    stack,         \* its open blocks, innermost last
    want,          \* the block it is about to open
    opened,        \* how many it has chosen to open
    loop,          \* requests in the event loop; it authenticates the first
    lost,          \* connections whose server side is gone
    setting,       \* app.current_tenant of the transaction on each connection
    holder         \* the connection that holds each advisory lock

vars == <<load, pc, tenant, stack, want, opened, loop, lost, setting, holder>>

Init ==
    /\ load \in Loads
    /\ pc = [t \in Threads |-> "idle"]
    /\ tenant = [t \in Threads |-> None]
    /\ stack = [t \in Threads |-> <<>>]
    /\ want = [t \in Threads |-> None]
    /\ opened = [t \in Threads |-> 0]
    /\ loop = <<>>
    /\ lost = {}
    /\ setting = [c \in Connections |-> None]
    /\ holder = [l \in Locks |-> None]

(***************************************************************************)
(* The pool.                                                               *)
(***************************************************************************)
Pool(t) == IF t \in ApiThreads THEN ApiPool ELSE WorkerPool

Innermost(t) == Last(stack[t])

InUse == {b.conn : b \in UNION {ToSet(stack[t]) : t \in Threads}}

Idle(t) == Pool(t) \ InUse

Goto(t, l) == pc' = [pc EXCEPT ![t] = l]

Request(t, kind) ==
    /\ Goto(t, "connect")
    /\ want' = [want EXCEPT ![t] = kind]

\* A connection that is found dead is replaced before it is handed out.  The
\* first statement of get_db_context sets the tenant for the transaction.  Idle
\* connections are alike as long as the properties below hold, so it is enough
\* to hand out one of them.
CheckOut(t) ==
    /\ pc[t] = "connect"
    /\ Idle(t) # {}
    /\ LET c == CHOOSE d \in Idle(t) : TRUE
       IN /\ stack' = [stack EXCEPT ![t] = Append(@, [kind |-> want[t], conn |-> c])]
          /\ lost' = lost \ {c}
          /\ setting' = IF want[t] \in TenantKinds
                        THEN [setting EXCEPT ![c] = tenant[t]] ELSE setting
    /\ Goto(t, IF want[t] \in LockKinds THEN "lock" ELSE "run")
    /\ want' = [want EXCEPT ![t] = None]
    /\ UNCHANGED <<load, tenant, opened, loop, holder>>

\* Mutant: the pool is asked again and again, without an end.
CheckOutWaits(t) ==
    /\ pc[t] = "connect"
    /\ Idle(t) = {}
    /\ UNCHANGED vars

\* DB_POOL_TIMEOUT.
CheckOutTimesOut(t) ==
    /\ pc[t] = "connect"
    /\ Idle(t) = {}
    /\ Goto(t, "raise")
    /\ want' = [want EXCEPT ![t] = None]
    /\ UNCHANGED <<load, tenant, stack, opened, loop, lost, setting, holder>>

\* Mutant: the tenant is set with SET and survives the transaction.
ReleaseKeepsSetting(c) ==
    /\ holder' = [l \in Locks |-> IF holder[l] = c THEN None ELSE holder[l]]
    /\ UNCHANGED setting

\* Mutant: the pool's rollback is all that ends a session-level lock.
ReleaseKeepsCycleLock(c) ==
    /\ setting' = [setting EXCEPT ![c] = None]
    /\ holder' = [l \in Locks |-> IF holder[l] = c /\ l[1] = "guard" THEN None ELSE holder[l]]

\* The end of a transaction ends its setting and its transaction-level lock; the
\* cycle lock is given back by hand.
Release(c) ==
    /\ setting' = [setting EXCEPT ![c] = None]
    /\ holder' = [l \in Locks |-> IF holder[l] = c THEN None ELSE holder[l]]

\* The server ends the session of a connection in use.
Lose(c) ==
    /\ c \in InUse \ lost
    /\ lost' = lost \cup {c}
    /\ Release(c)
    /\ UNCHANGED <<load, pc, tenant, stack, want, opened, loop>>

(***************************************************************************)
(* Requests and messages.                                                  *)
(***************************************************************************)
Arrive(t, m) ==
    /\ m \in load[t]
    /\ pc[t] = "idle"
    /\ tenant' = [tenant EXCEPT ![t] = m]
    /\ IF t \in ApiThreads
       THEN Goto(t, "arrived") /\ loop' = Append(loop, t)
       ELSE Goto(t, "run") /\ UNCHANGED loop
    /\ UNCHANGED <<load, stack, want, opened, lost, setting, holder>>

Authenticate(t) ==
    /\ pc[t] = "arrived"
    /\ Head(loop) = t
    /\ Request(t, "lookup")
    /\ UNCHANGED <<load, tenant, stack, opened, loop, lost, setting, holder>>

\* Which block the code opens next inside the blocks it is in.
MayOpen(t) ==
    CASE stack[t] = <<>> /\ t \in ApiThreads -> {"session", "preflight"}
      [] stack[t] = <<>> /\ t \in WorkerThreads -> {"session", "guard"}
      [] stack[t] # <<>> ->
            CASE Innermost(t).kind = "cycle" -> {"session", "guard"}
              [] Innermost(t).kind = "guard" -> {"session"}
              [] OTHER -> {}

Open(t, kind) ==
    /\ pc[t] = "run"
    /\ opened[t] < MaxBlocks
    /\ kind \in MayOpen(t)
    /\ Request(t, kind)
    /\ opened' = [opened EXCEPT ![t] = @ + 1]
    /\ UNCHANGED <<load, tenant, stack, loop, lost, setting, holder>>

\* The answer, to the client or to the queue.
Finish(t) ==
    /\ Goto(t, "idle")
    /\ tenant' = [tenant EXCEPT ![t] = None]
    /\ opened' = [opened EXCEPT ![t] = 0]

(***************************************************************************)
(* Advisory locks.                                                         *)
(***************************************************************************)
LockOf(t) == <<Innermost(t).kind, tenant[t]>>

TakeLock(t) ==
    /\ pc[t] = "lock"
    /\ Innermost(t).conn \notin lost
    /\ holder[LockOf(t)] = None
    /\ holder' = [holder EXCEPT ![LockOf(t)] = Innermost(t).conn]
    /\ Goto(t, "run")
    /\ UNCHANGED <<load, tenant, stack, want, opened, loop, lost, setting>>

\* The guard waits for lock_timeout and then raises ToolBusyError.
LockTimesOut(t) ==
    /\ pc[t] = "lock"
    /\ Innermost(t).kind = "guard"
    /\ Innermost(t).conn \notin lost
    /\ holder[LockOf(t)] # None
    /\ Goto(t, "raise")
    /\ UNCHANGED <<load, tenant, stack, want, opened, loop, lost, setting, holder>>

\* pg_try_advisory_lock is false: the cycle is skipped and answered.
SkipCycle(t) ==
    /\ pc[t] = "lock"
    /\ Innermost(t).kind = "cycle"
    /\ Innermost(t).conn \notin lost
    /\ holder[LockOf(t)] # None
    /\ stack' = [stack EXCEPT ![t] = Front(@)]
    /\ Finish(t)
    /\ UNCHANGED <<load, want, loop, lost, setting, holder>>

(***************************************************************************)
(* The ends of blocks.                                                     *)
(***************************************************************************)
Close(t) ==
    /\ stack' = [stack EXCEPT ![t] = Front(@)]
    /\ Release(Innermost(t).conn)

\* A block whose connection is gone goes on until it needs it: a commit raises,
\* a failed unlock is logged and the connection discarded.
MustRaise(t) == Innermost(t).conn \in lost /\ Innermost(t).kind \notin {"cycle", "preflight"}

\* resolve_tenant_from_key commits and then reads the tenant of the expired
\* credential in a second transaction; a cycle follows its preflight.
Leave(t) ==
    /\ pc[t] = "run"
    /\ stack[t] # <<>>
    /\ Innermost(t).kind # "bare"
    /\ ~MustRaise(t)
    /\ Close(t)
    /\ CASE Innermost(t).kind = "lookup" ->
              Request(t, "refresh") /\ UNCHANGED <<tenant, opened, loop>>
         [] Innermost(t).kind = "refresh" ->
              Goto(t, "run") /\ loop' = Tail(loop) /\ UNCHANGED <<tenant, want, opened>>
         [] Innermost(t).kind = "preflight" ->
              Request(t, "cycle") /\ UNCHANGED <<tenant, opened, loop>>
         [] t \in ApiThreads /\ Len(stack[t]) = 1 /\ Innermost(t).kind \in {"session", "cycle"} ->
              Finish(t) /\ UNCHANGED <<want, loop>>
         [] OTHER -> UNCHANGED <<pc, tenant, want, opened, loop>>
    /\ UNCHANGED <<load, lost>>

\* The worker is done with its message.
Done(t) ==
    /\ t \in WorkerThreads
    /\ pc[t] = "run"
    /\ stack[t] = <<>>
    /\ Finish(t)
    /\ UNCHANGED <<load, stack, want, loop, lost, setting, holder>>

\* Any statement of an open block may raise, and one on a lost connection does.
Raise(t) ==
    /\ pc[t] \in {"run", "lock"}
    /\ stack[t] # <<>>
    /\ pc[t] = "lock" => Innermost(t).conn \in lost
    /\ Goto(t, "raise")
    /\ UNCHANGED <<load, tenant, stack, want, opened, loop, lost, setting, holder>>

\* submit_action rolls back after an IntegrityError and asks again: a new
\* transaction, on any connection, without a tenant.
RollbackWithin(t) ==
    /\ pc[t] = "run"
    /\ t \in ApiThreads
    /\ Len(stack[t]) = 1 /\ Innermost(t).kind = "session"
    /\ Innermost(t).conn \notin lost
    /\ Close(t)
    /\ Request(t, "bare")
    /\ UNCHANGED <<load, tenant, opened, loop, lost>>

\* The request that the event loop was authenticating leaves it.
LeaveLoop(t) == loop' = IF loop # <<>> /\ Head(loop) = t THEN Tail(loop) ELSE loop

\* Mutant: the error is answered without closing what is open.
UnwindWithoutClose(t) ==
    /\ pc[t] = "raise"
    /\ LeaveLoop(t)
    /\ Finish(t)
    /\ UNCHANGED <<load, stack, want, lost, setting, holder>>

\* The exception leaves one block after the other.  A cycle catches what one of
\* its opportunities raises; the worker catches what a tool call raises.
Unwind(t) ==
    /\ pc[t] = "raise"
    /\ IF stack[t] = <<>>
       THEN /\ LeaveLoop(t)
            /\ \/ Finish(t)
               \/ t \in WorkerThreads /\ Goto(t, "run") /\ UNCHANGED <<tenant, opened>>
            /\ UNCHANGED <<stack, setting, holder>>
       ELSE /\ Close(t)
            /\ \/ UNCHANGED pc
               \/ /\ Len(stack[t]) > 1 /\ Last(Front(stack[t])).kind = "cycle"
                  /\ Goto(t, "run")
            /\ UNCHANGED <<tenant, opened, loop>>
    /\ UNCHANGED <<load, want, lost>>

(***************************************************************************)
(* Specification.                                                          *)
(***************************************************************************)
Step(t) ==
    \/ Authenticate(t)
    \/ CheckOut(t) \/ CheckOutTimesOut(t)
    \/ TakeLock(t) \/ LockTimesOut(t) \/ SkipCycle(t)
    \/ \E kind \in Kinds : Open(t, kind)
    \/ Leave(t) \/ Done(t) \/ Raise(t) \/ RollbackWithin(t) \/ Unwind(t)

Next ==
    \/ \E t \in Threads : Step(t) \/ \E m \in Tenants : Arrive(t, m)
    \/ \E c \in Connections : Lose(c)

Spec == Init /\ [][Next]_vars

\* Threads run, timeouts expire, and the event loop works off its queue.
FairSpec == Spec /\ \A t \in Threads : WF_vars(Step(t))

(***************************************************************************)
(* Properties.                                                             *)
(***************************************************************************)
Blocks == {[thread |-> t, at |-> i] : t \in Threads, i \in 1..3}
IsOpen(b) == b.at <= Len(stack[b.thread])

\* Every variable keeps its type, no connection serves two blocks, and a thread
\* that has answered holds none.
TypeOK ==
    /\ load \in Loads
    /\ pc \in [Threads -> {"idle", "arrived", "connect", "lock", "run", "raise"}]
    /\ tenant \in [Threads -> Tenants \cup {None}]
    /\ \A t \in Threads :
          /\ ToSet(stack[t]) \subseteq [kind: Kinds, conn: Pool(t)]
          /\ pc[t] = "idle" => stack[t] = <<>> /\ tenant[t] = None
    /\ \A b, d \in {e \in Blocks : IsOpen(e)} :
          stack[b.thread][b.at].conn = stack[d.thread][d.at].conn => b = d
    /\ want \in [Threads -> Kinds \cup {None}]
    /\ opened \in [Threads -> 0..MaxBlocks]
    /\ loop \in Seq(ApiThreads) /\ IsInjective(loop)
    /\ lost \subseteq Connections
    /\ setting \in [Connections -> Tenants \cup {None}]
    /\ holder \in [Locks -> Connections \cup {None}]

\* "The context ... disappears automatically after commit/rollback": what a
\* pooled connection was last used for never shows in its next transaction.  A
\* tenant is set only where a block of a thread of that tenant is open, also
\* after exceptions, timeouts, lost connections and a rollback inside a block.
TenantContextIsOwn ==
    \A c \in Connections :
        setting[c] # None =>
            \E t \in Threads :
                /\ tenant[t] = setting[c]
                /\ \E b \in ToSet(stack[t]) : b.conn = c /\ b.kind \in TenantKinds

\* Whether a thread is past the lock of a block, and whose connection that was.
Inside(t, kind) ==
    {b \in ToSet(stack[t]) : b.kind = kind /\ (pc[t] \in {"lock", "raise"} => b # Innermost(t))}

\* "Cross-process mutex for check-then-apply on one resource", "One cycle at a
\* time per tenant": two threads are inside together only if one of them lost its
\* connection meanwhile; and no lock outlives its block, so a connection that
\* went back to its pool never keeps the next caller out.
GuardsExclude ==
    /\ \A t, u \in Threads, kind \in LockKinds :
          t # u /\ tenant[t] = tenant[u] =>
              \A b \in Inside(t, kind), d \in Inside(u, kind) : {b.conn, d.conn} \cap lost # {}
    /\ \A l \in Locks :
          holder[l] # None =>
              \E t \in Threads :
                  /\ tenant[t] = l[2]
                  /\ [kind |-> l[1], conn |-> holder[l]] \in ToSet(stack[t])

\* Every request and every message is answered, although blocks nest up to three
\* connections deep in a pool that can run empty, callers wait for the locks of
\* others while they hold connections, and the event loop waits for a connection
\* with every other request behind it.
CallsEnd == \A t \in Threads : pc[t] # "idle" ~> pc[t] = "idle"
=============================================================================
