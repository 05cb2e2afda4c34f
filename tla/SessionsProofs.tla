--------------------------- MODULE SessionsProofs ---------------------------
(***************************************************************************)
(* For any number of threads, connections and tenants: what a pooled        *)
(* connection was used for never shows in its next transaction, the         *)
(* advisory locks exclude as far as connections live, and the event loop    *)
(* authenticates one request at a time.                                    *)
(***************************************************************************)
EXTENDS Sessions, SequenceTheorems, TLAPS

(***************************************************************************)
(* The inductive invariant.                                                *)
(***************************************************************************)
Records(t) == [kind: Kinds, conn: Pool(t)]

WellTyped ==
    /\ pc \in [Threads -> {"idle", "arrived", "connect", "lock", "run", "raise"}]
    /\ tenant \in [Threads -> Tenants \cup {None}]
    /\ DOMAIN stack = Threads /\ \A t \in Threads : stack[t] \in Seq(Records(t))
    /\ want \in [Threads -> Kinds \cup {None}]
    /\ lost \subseteq Connections
    /\ setting \in [Connections -> Tenants \cup {None}]
    /\ holder \in [Locks -> Connections \cup {None}]

\* Where a thread is agrees with the blocks it has open.
PlacesFit ==
    \A t \in Threads :
        /\ pc[t] \in {"idle", "arrived"} => stack[t] = <<>>
        /\ pc[t] # "idle" => tenant[t] # None
        /\ pc[t] = "connect" => want[t] \in Kinds
        /\ pc[t] = "connect" /\ want[t] \in {"preflight", "cycle"} => stack[t] = <<>>
        /\ pc[t] = "lock" => stack[t] # <<>> /\ Innermost(t).kind \in LockKinds
        /\ \A i \in 1..Len(stack[t]) : stack[t][i].kind \in {"preflight", "cycle"} => i = 1

\* No connection serves two blocks.
OwnConnections ==
    \A t, u \in Threads : \A i \in 1..Len(stack[t]), j \in 1..Len(stack[u]) :
        stack[t][i].conn = stack[u][j].conn => t = u /\ i = j

\* A setting and a lock belong to a block that is open.
SettingsHaveBlocks ==
    \A c \in Connections :
        setting[c] # None =>
            \E t \in Threads : \E i \in 1..Len(stack[t]) :
                /\ tenant[t] = setting[c]
                /\ stack[t][i].conn = c /\ stack[t][i].kind \in TenantKinds

LocksHaveBlocks ==
    \A l \in Locks :
        holder[l] # None =>
            \E t \in Threads : \E i \in 1..Len(stack[t]) :
                /\ tenant[t] = l[2]
                /\ stack[t][i] = [kind |-> l[1], conn |-> holder[l]]
                /\ pc[t] = "lock" => i # Len(stack[t])

\* A block that is past its lock and has its connection still holds the lock.
BlocksHaveLocks ==
    \A t \in Threads : \A i \in 1..Len(stack[t]) :
        /\ stack[t][i].kind \in LockKinds
        /\ pc[t] \in {"lock", "raise"} => i # Len(stack[t])
        /\ stack[t][i].conn \notin lost
        => holder[<<stack[t][i].kind, tenant[t]>>] = stack[t][i].conn

SInv ==
    /\ WellTyped /\ PlacesFit /\ OwnConnections
    /\ SettingsHaveBlocks /\ LocksHaveBlocks /\ BlocksHaveLocks

(***************************************************************************)
(* Stacks, connections and locks.                                          *)
(***************************************************************************)
LEMMA PoolsAreConnections ==
    \A t \in Threads : Pool(t) \subseteq Connections
BY DEF Pool, Connections

LEMMA TopOfStack ==
    ASSUME WellTyped, NEW t \in Threads, stack[t] # <<>>
    PROVE  /\ Len(stack[t]) \in 1..Len(stack[t])
           /\ Innermost(t) = stack[t][Len(stack[t])]
           /\ Innermost(t).conn \in Connections
<1>1. stack[t] \in Seq(Records(t))
  BY DEF WellTyped
<1>2. Len(stack[t]) \in Nat /\ Len(stack[t]) # 0
  BY <1>1
<1>3. stack[t][Len(stack[t])] \in Records(t)
  BY <1>1, <1>2
<1> QED BY <1>2, <1>3, PoolsAreConnections DEF Innermost, Last, Records

LEMMA Pushed ==
    ASSUME WellTyped, NEW t \in Threads, NEW b \in Records(t),
           stack' = [stack EXCEPT ![t] = Append(@, b)]
    PROVE  /\ DOMAIN stack' = Threads /\ \A u \in Threads : stack'[u] \in Seq(Records(u))
           /\ \A u \in Threads \ {t} : stack'[u] = stack[u]
           /\ Len(stack[t]) \in Nat /\ Len(stack'[t]) = Len(stack[t]) + 1
           /\ \A i \in 1..Len(stack[t]) : stack'[t][i] = stack[t][i]
           /\ stack'[t][Len(stack[t]) + 1] = b
           /\ stack'[t] # <<>>
<1>1. stack[t] \in Seq(Records(t))
  BY DEF WellTyped
<1>2. stack'[t] = Append(stack[t], b)
  BY DEF WellTyped
<1> QED BY <1>1, <1>2 DEF WellTyped

LEMMA Popped ==
    ASSUME WellTyped, NEW t \in Threads, stack[t] # <<>>,
           stack' = [stack EXCEPT ![t] = Front(@)]
    PROVE  /\ DOMAIN stack' = Threads /\ \A u \in Threads : stack'[u] \in Seq(Records(u))
           /\ \A u \in Threads \ {t} : stack'[u] = stack[u]
           /\ Len(stack[t]) \in Nat /\ Len(stack'[t]) = Len(stack[t]) - 1
           /\ \A i \in 1..(Len(stack[t]) - 1) : stack'[t][i] = stack[t][i]
           /\ Len(stack[t]) = 1 => stack'[t] = <<>>
<1>1. stack[t] \in Seq(Records(t))
  BY DEF WellTyped
<1>2. Len(stack[t]) \in Nat /\ Len(stack[t]) # 0
  BY <1>1
<1>3. stack'[t] = SubSeq(stack[t], 1, Len(stack[t]) - 1)
  BY DEF WellTyped, Front
<1>4. \A i \in 1..(Len(stack[t]) - 1) : stack[t][i] \in Records(t)
  BY <1>1, <1>2
<1>5. /\ stack'[t] \in Seq(Records(t))
      /\ Len(stack'[t]) = Len(stack[t]) - 1
      /\ \A i \in 1..(Len(stack[t]) - 1) : stack'[t][i] = stack[t][i]
  BY <1>2, <1>3, <1>4, SubSeqProperties
<1>6. Len(stack[t]) = 1 => stack'[t] = <<>>
  BY <1>5
<1> QED BY <1>2, <1>5, <1>6 DEF WellTyped

LEMMA IdleIsUnused ==
    ASSUME WellTyped, NEW t \in Threads, NEW c \in Idle(t)
    PROVE  /\ c \in Pool(t) /\ c \in Connections
           /\ \A u \in Threads : \A i \in 1..Len(stack[u]) : stack[u][i].conn # c
<1>1. c \in Pool(t) /\ c \notin InUse
  BY DEF Idle
<1>2. ASSUME NEW u \in Threads, NEW i \in 1..Len(stack[u]) PROVE stack[u][i].conn # c
  <2>1. stack[u] \in Seq(Records(u))
    BY DEF WellTyped
  <2>2. stack[u][i] \in ToSet(stack[u])
    BY <2>1 DEF ToSet
  <2> QED BY <1>1, <2>2 DEF InUse
<1> QED BY <1>1, <1>2, PoolsAreConnections

\* The lock that a thread is about to take.
LEMMA LockIsOne ==
    ASSUME SInv, NEW t \in Threads, pc[t] = "lock"
    PROVE  LockOf(t) \in Locks /\ stack[t] # <<>>
BY DEF SInv, WellTyped, PlacesFit, LockOf, Locks

(***************************************************************************)
(* Steps.                                                                  *)
(***************************************************************************)
LEMMA Initially ==
    ASSUME Init
    PROVE  SInv
<1>1. WellTyped
  BY DEF Init, WellTyped
<1>2. PlacesFit
  BY DEF Init, PlacesFit
<1>3. OwnConnections /\ BlocksHaveLocks
  BY DEF Init, OwnConnections, BlocksHaveLocks
<1>4. SettingsHaveBlocks /\ LocksHaveBlocks
  BY DEF Init, SettingsHaveBlocks, LocksHaveBlocks
<1> QED BY <1>1, <1>2, <1>3, <1>4 DEF SInv

\* Steps that change no block, no connection and no lock, and release none.
LEMMA QuietStep ==
    ASSUME SInv, NEW t \in Threads,
           UNCHANGED <<tenant, stack, lost, setting, holder>>,
           pc' = [pc EXCEPT ![t] = pc'[t]],
           pc'[t] # "lock",
           pc[t] \in {"lock", "raise"} => pc'[t] = "raise",
           WellTyped', PlacesFit'
    PROVE  SInv'
<1> USE DEF SInv
<1>1. \A u \in Threads \ {t} : pc'[u] = pc[u]
  BY DEF WellTyped
<1>2. OwnConnections'
  BY DEF OwnConnections
<1>3. SettingsHaveBlocks'
  BY DEF SettingsHaveBlocks
<1>4. LocksHaveBlocks'
  BY <1>1 DEF LocksHaveBlocks
<1>5. BlocksHaveLocks'
  BY <1>1 DEF BlocksHaveLocks
<1> QED BY <1>2, <1>3, <1>4, <1>5

LEMMA QuietSteps ==
    ASSUME SInv, NEW t \in Threads,
           \/ Authenticate(t) \/ CheckOutTimesOut(t) \/ LockTimesOut(t)
           \/ \E kind \in Kinds : Open(t, kind)
           \/ Raise(t)
    PROVE  SInv'
<1> USE DEF SInv, Goto, Request
<1>1. CASE Authenticate(t)
  <2>1. WellTyped' /\ PlacesFit'
    BY <1>1 DEF WellTyped, PlacesFit, Authenticate, Kinds, LockKinds, Innermost
  <2>2. pc' = [pc EXCEPT ![t] = pc'[t]] /\ pc'[t] = "connect" /\ pc[t] = "arrived"
    BY <1>1 DEF Authenticate, WellTyped
  <2> QED BY <1>1, <2>1, <2>2, QuietStep DEF Authenticate
<1>2. CASE CheckOutTimesOut(t)
  <2>1. WellTyped' /\ PlacesFit'
    BY <1>2 DEF WellTyped, PlacesFit, CheckOutTimesOut, Innermost
  <2>2. pc' = [pc EXCEPT ![t] = pc'[t]] /\ pc'[t] = "raise"
    BY <1>2 DEF CheckOutTimesOut, WellTyped
  <2> QED BY <1>2, <2>1, <2>2, QuietStep DEF CheckOutTimesOut
<1>3. CASE LockTimesOut(t)
  <2>1. WellTyped' /\ PlacesFit'
    BY <1>3 DEF WellTyped, PlacesFit, LockTimesOut, Innermost
  <2>2. pc' = [pc EXCEPT ![t] = pc'[t]] /\ pc'[t] = "raise"
    BY <1>3 DEF LockTimesOut, WellTyped
  <2> QED BY <1>3, <2>1, <2>2, QuietStep DEF LockTimesOut
<1>4. CASE \E kind \in Kinds : Open(t, kind)
  <2>1. PICK kind \in Kinds : Open(t, kind)
    BY <1>4
  <2>2. kind \in {"preflight", "cycle"} => stack[t] = <<>>
    BY <2>1, Zenon DEF Open, MayOpen
  <2>3. WellTyped' /\ PlacesFit'
    BY <2>1, <2>2 DEF WellTyped, PlacesFit, Open, Innermost
  <2>4. pc' = [pc EXCEPT ![t] = pc'[t]] /\ pc'[t] = "connect" /\ pc[t] = "run"
    BY <2>1 DEF Open, WellTyped
  <2> QED BY <2>1, <2>3, <2>4, QuietStep DEF Open
<1>5. CASE Raise(t)
  <2>1. WellTyped' /\ PlacesFit'
    BY <1>5 DEF WellTyped, PlacesFit, Raise, Innermost
  <2>2. pc' = [pc EXCEPT ![t] = pc'[t]] /\ pc'[t] = "raise"
    BY <1>5 DEF Raise, WellTyped
  <2> QED BY <1>5, <2>1, <2>2, QuietStep DEF Raise
<1> QED BY <1>1, <1>2, <1>3, <1>4, <1>5

LEMMA LockStep ==
    ASSUME SInv, NEW t \in Threads, TakeLock(t)
    PROVE  SInv'
<1> USE DEF SInv, TakeLock, Goto
<1> DEFINE n == Len(stack[t])
<1>1. LockOf(t) \in Locks /\ stack[t] # <<>>
  BY LockIsOne
<1>2. /\ n \in 1..n /\ Innermost(t) = stack[t][n] /\ Innermost(t).conn \in Connections
      /\ stack[t][n] = [kind |-> Innermost(t).kind, conn |-> Innermost(t).conn]
  <2>1. /\ n \in 1..n /\ Innermost(t) = stack[t][n] /\ Innermost(t).conn \in Connections
    BY <1>1, TopOfStack
  <2>2. stack[t][n] \in Records(t)
    BY <2>1 DEF WellTyped
  <2> QED BY <2>1, <2>2 DEF Records
<1>3. /\ holder'[LockOf(t)] = Innermost(t).conn
      /\ \A l \in Locks \ {LockOf(t)} : holder'[l] = holder[l]
      /\ pc'[t] = "run" /\ \A u \in Threads \ {t} : pc'[u] = pc[u]
  BY <1>1 DEF WellTyped
<1>4. WellTyped'
  BY <1>1, <1>2 DEF WellTyped
<1>5. PlacesFit'
  BY <1>3 DEF PlacesFit, Innermost
<1>6. OwnConnections' /\ SettingsHaveBlocks'
  BY DEF OwnConnections, SettingsHaveBlocks
<1>7. LocksHaveBlocks'
  <2> SUFFICES ASSUME NEW l \in Locks, holder'[l] # None
               PROVE  \E u \in Threads : \E i \in 1..Len(stack[u]) :
                         /\ tenant[u] = l[2]
                         /\ stack[u][i] = [kind |-> l[1], conn |-> holder'[l]]
                         /\ pc'[u] = "lock" => i # Len(stack[u])
    BY DEF LocksHaveBlocks
  <2>1. CASE l = LockOf(t)
    <3>1. l[1] = Innermost(t).kind /\ l[2] = tenant[t]
      BY <2>1 DEF LockOf
    <3> QED BY <2>1, <3>1, <1>2, <1>3
  <2>2. CASE l # LockOf(t)
    <3>0. PICK u \in Threads : \E i \in 1..Len(stack[u]) :
              /\ tenant[u] = l[2]
              /\ stack[u][i] = [kind |-> l[1], conn |-> holder[l]]
              /\ pc[u] = "lock" => i # Len(stack[u])
      BY <2>2, <1>3 DEF LocksHaveBlocks
    <3>1. PICK i \in 1..Len(stack[u]) :
              /\ tenant[u] = l[2]
              /\ stack[u][i] = [kind |-> l[1], conn |-> holder[l]]
              /\ pc[u] = "lock" => i # Len(stack[u])
      BY <3>0
    <3>2. holder'[l] = holder[l] /\ (pc'[u] = "lock" => pc[u] = "lock")
      BY <2>2, <1>3
    <3> QED BY <3>1, <3>2
  <2> QED BY <2>1, <2>2
<1>8. BlocksHaveLocks'
  <2> SUFFICES ASSUME NEW u \in Threads, NEW i \in 1..Len(stack[u]),
                      stack[u][i].kind \in LockKinds,
                      pc'[u] \in {"lock", "raise"} => i # Len(stack[u]),
                      stack[u][i].conn \notin lost
               PROVE  holder'[<<stack[u][i].kind, tenant[u]>>] = stack[u][i].conn
    BY DEF BlocksHaveLocks
  <2>1. CASE u = t /\ i = n
    BY <2>1, <1>2, <1>3 DEF LockOf
  <2>2. CASE ~(u = t /\ i = n)
    <3>1. holder[<<stack[u][i].kind, tenant[u]>>] = stack[u][i].conn
      BY <2>2, <1>3 DEF BlocksHaveLocks
    <3>2. stack[u][i].conn # None
      <4>1. stack[u][i] \in Records(u)
        BY DEF WellTyped
      <4> QED BY <4>1, PoolsAreConnections, SessionsAssumption DEF Records, Connections, SessionsAssumption
    <3>3. <<stack[u][i].kind, tenant[u]>> # LockOf(t)
      BY <3>1, <3>2
    <3>4. i \in 1..Len(stack[u]) => stack[u] # <<>>
      BY DEF WellTyped
    <3>5. tenant[u] \in Tenants
      BY <3>4 DEF WellTyped, PlacesFit
    <3>6. <<stack[u][i].kind, tenant[u]>> \in Locks
      BY <3>5 DEF Locks
    <3> QED BY <3>1, <3>3, <3>6, <1>3
  <2> QED BY <2>1, <2>2
<1> QED BY <1>4, <1>5, <1>6, <1>7, <1>8

LEMMA CheckOutStep ==
    ASSUME SInv, NEW t \in Threads, CheckOut(t)
    PROVE  SInv'
<1> USE DEF SInv
<1> DEFINE c == CHOOSE d \in Idle(t) : TRUE
           n == Len(stack[t])
           b == [kind |-> want[t], conn |-> c]
<1>1. /\ pc[t] = "connect" /\ c \in Idle(t) /\ want[t] \in Kinds
      /\ stack' = [stack EXCEPT ![t] = Append(@, b)]
      /\ lost' = lost \ {c}
      /\ setting' = IF want[t] \in TenantKinds THEN [setting EXCEPT ![c] = tenant[t]] ELSE setting
      /\ pc' = [pc EXCEPT ![t] = IF want[t] \in LockKinds THEN "lock" ELSE "run"]
      /\ want' = [want EXCEPT ![t] = None]
      /\ UNCHANGED <<tenant, holder>>
  BY DEF CheckOut, Goto, PlacesFit
<1>2. /\ c \in Pool(t) /\ c \in Connections
      /\ \A u \in Threads : \A i \in 1..Len(stack[u]) : stack[u][i].conn # c
  BY <1>1, IdleIsUnused
<1>3. b \in Records(t)
  BY <1>1, <1>2 DEF Records
<1> HIDE DEF c, b
<1>4. /\ DOMAIN stack' = Threads /\ \A u \in Threads : stack'[u] \in Seq(Records(u))
      /\ \A u \in Threads \ {t} : stack'[u] = stack[u]
      /\ n \in Nat /\ Len(stack'[t]) = n + 1
      /\ \A i \in 1..n : stack'[t][i] = stack[t][i]
      /\ stack'[t][n + 1] = b
      /\ stack'[t] # <<>>
  BY <1>1, <1>3, Pushed
<1>5. b.kind = want[t] /\ b.conn = c
  BY DEF b
<1> HIDE DEF n
<1>6. /\ pc'[t] = IF want[t] \in LockKinds THEN "lock" ELSE "run"
      /\ \A u \in Threads \ {t} : pc'[u] = pc[u]
  BY <1>1 DEF WellTyped
<1>7. WellTyped'
  BY <1>1, <1>2, <1>4 DEF WellTyped
<1>8. PlacesFit'
  <2>1. pc'[t] = "lock" => stack'[t] # <<>> /\ Innermost(t)'.kind \in LockKinds
    BY <1>4, <1>5, <1>6 DEF Innermost, Last
  <2>2. \A i \in 1..Len(stack'[t]) : stack'[t][i].kind \in {"preflight", "cycle"} => i = 1
    <3>1. want[t] \in {"preflight", "cycle"} => n = 0
      BY <1>1 DEF PlacesFit, n
    <3>2. \A i \in 1..n : stack[t][i].kind \in {"preflight", "cycle"} => i = 1
      BY DEF PlacesFit, n
    <3> QED BY <1>4, <1>5, <3>1, <3>2
  <2>3. tenant[t] # None
    BY <1>1 DEF PlacesFit
  <2>4. want'[t] = None /\ \A u \in Threads \ {t} : want'[u] = want[u]
    BY <1>1 DEF WellTyped
  <2>5. ASSUME NEW u \in Threads \ {t} PROVE Innermost(u)' = Innermost(u)
    BY <1>4 DEF Innermost
  <2>6. pc'[t] \in {"lock", "run"}
    BY <1>6
  <2> SUFFICES ASSUME NEW u \in Threads
               PROVE  /\ pc'[u] \in {"idle", "arrived"} => stack'[u] = <<>>
                      /\ pc'[u] # "idle" => tenant[u] # None
                      /\ pc'[u] = "connect" => want'[u] \in Kinds
                      /\ pc'[u] = "connect" /\ want'[u] \in {"preflight", "cycle"} => stack'[u] = <<>>
                      /\ pc'[u] = "lock" => stack'[u] # <<>> /\ Innermost(u)'.kind \in LockKinds
                      /\ \A i \in 1..Len(stack'[u]) : stack'[u][i].kind \in {"preflight", "cycle"} => i = 1
    BY <1>1 DEF PlacesFit
  <2>7. CASE u = t
    BY <2>1, <2>2, <2>3, <2>6, <2>7
  <2>8. CASE u # t
    <3>1. /\ pc'[u] = pc[u] /\ want'[u] = want[u] /\ stack'[u] = stack[u]
          /\ Innermost(u)' = Innermost(u)
      BY <1>4, <1>6, <2>4, <2>5, <2>8
    <3> QED BY <3>1 DEF PlacesFit
  <2> QED BY <2>7, <2>8
<1>9. OwnConnections'
  <2>1. ASSUME NEW u \in Threads, NEW i \in 1..Len(stack'[u])
        PROVE  \/ u = t /\ i = n + 1 /\ stack'[u][i].conn = c
               \/ i \in 1..Len(stack[u]) /\ stack'[u][i] = stack[u][i] /\ stack[u][i].conn # c
    <3>1. CASE u = t /\ i = n + 1
      BY <3>1, <1>4, <1>5
    <3>2. CASE ~(u = t /\ i = n + 1)
      <4>1. i \in 1..Len(stack[u]) /\ stack'[u][i] = stack[u][i]
        BY <3>2, <1>4 DEF n
      <4> QED BY <4>1, <1>2
    <3> QED BY <3>1, <3>2
  <2> SUFFICES ASSUME NEW u \in Threads, NEW v \in Threads,
                      NEW i \in 1..Len(stack'[u]), NEW j \in 1..Len(stack'[v]),
                      stack'[u][i].conn = stack'[v][j].conn
               PROVE  u = v /\ i = j
    BY DEF OwnConnections
  <2>2. \/ u = t /\ i = n + 1 /\ stack'[u][i].conn = c
        \/ i \in 1..Len(stack[u]) /\ stack'[u][i] = stack[u][i] /\ stack[u][i].conn # c
    BY <2>1
  <2>3. \/ v = t /\ j = n + 1 /\ stack'[v][j].conn = c
        \/ j \in 1..Len(stack[v]) /\ stack'[v][j] = stack[v][j] /\ stack[v][j].conn # c
    BY <2>1
  <2> QED BY <2>2, <2>3 DEF OwnConnections
<1>10. SettingsHaveBlocks'
  <2> SUFFICES ASSUME NEW d \in Connections, setting'[d] # None
               PROVE  \E u \in Threads : \E i \in 1..Len(stack'[u]) :
                         /\ tenant[u] = setting'[d]
                         /\ stack'[u][i].conn = d /\ stack'[u][i].kind \in TenantKinds
    BY <1>1 DEF SettingsHaveBlocks
  <2>1. CASE d = c /\ want[t] \in TenantKinds
    <3>1. setting'[d] = tenant[t]
      BY <2>1, <1>1, <1>2 DEF WellTyped
    <3>2. n + 1 \in 1..Len(stack'[t])
      BY <1>4
    <3> QED BY <2>1, <3>1, <3>2, <1>4, <1>5
  <2>2. CASE ~(d = c /\ want[t] \in TenantKinds)
    <3>1. setting'[d] = setting[d]
      BY <2>2, <1>1, <1>2 DEF WellTyped
    <3>2. PICK u \in Threads : \E i \in 1..Len(stack[u]) :
              /\ tenant[u] = setting[d]
              /\ stack[u][i].conn = d /\ stack[u][i].kind \in TenantKinds
      BY <3>1 DEF SettingsHaveBlocks
    <3>3. \A i \in 1..Len(stack[u]) : i \in 1..Len(stack'[u]) /\ stack'[u][i] = stack[u][i]
      BY <1>4 DEF n
    <3> QED BY <3>1, <3>2, <3>3
  <2> QED BY <2>1, <2>2
<1>11. LocksHaveBlocks'
  <2> SUFFICES ASSUME NEW l \in Locks, holder[l] # None
               PROVE  \E u \in Threads : \E i \in 1..Len(stack'[u]) :
                         /\ tenant[u] = l[2]
                         /\ stack'[u][i] = [kind |-> l[1], conn |-> holder[l]]
                         /\ pc'[u] = "lock" => i # Len(stack'[u])
    BY <1>1 DEF LocksHaveBlocks
  <2>1. PICK u \in Threads : \E i \in 1..Len(stack[u]) :
            /\ tenant[u] = l[2]
            /\ stack[u][i] = [kind |-> l[1], conn |-> holder[l]]
            /\ pc[u] = "lock" => i # Len(stack[u])
    BY DEF LocksHaveBlocks
  <2>2. \A i \in 1..Len(stack[u]) :
            /\ i \in 1..Len(stack'[u]) /\ stack'[u][i] = stack[u][i]
            /\ u = t => i # Len(stack'[u])
    BY <1>4 DEF n
  <2>3. u # t => pc'[u] = pc[u] /\ Len(stack'[u]) = Len(stack[u])
    BY <1>4, <1>6
  <2> QED BY <2>1, <2>2, <2>3
<1>12. BlocksHaveLocks'
  <2> SUFFICES ASSUME NEW u \in Threads, NEW i \in 1..Len(stack'[u]),
                      stack'[u][i].kind \in LockKinds,
                      pc'[u] \in {"lock", "raise"} => i # Len(stack'[u]),
                      stack'[u][i].conn \notin lost'
               PROVE  holder[<<stack'[u][i].kind, tenant[u]>>] = stack'[u][i].conn
    BY <1>1 DEF BlocksHaveLocks
  <2>1. ~(u = t /\ i = n + 1)
    BY <1>4, <1>5, <1>6
  <2>2. i \in 1..Len(stack[u]) /\ stack'[u][i] = stack[u][i]
    BY <1>4, <2>1 DEF n
  <2>3. stack[u][i].conn \notin lost
    BY <1>1, <1>2, <2>2
  <2>4. pc[u] \in {"lock", "raise"} => i # Len(stack[u])
    BY <1>1, <1>4, <1>6
  <2> QED BY <2>2, <2>3, <2>4 DEF BlocksHaveLocks
<1> QED BY <1>7, <1>8, <1>9, <1>10, <1>11, <1>12

\* What the end of a transaction leaves of settings and locks.
LEMMA Released ==
    ASSUME WellTyped, NEW c \in Connections, c # None, Release(c)
    PROVE  /\ setting' \in [Connections -> Tenants \cup {None}]
           /\ holder' \in [Locks -> Connections \cup {None}]
           /\ \A d \in Connections : setting'[d] # None => d # c /\ setting'[d] = setting[d]
           /\ \A l \in Locks : holder'[l] # None => holder'[l] = holder[l] /\ holder[l] # c
           /\ \A l \in Locks : holder[l] # c => holder'[l] = holder[l]
BY DEF WellTyped, Release

\* A block ends and gives its connection back.
LEMMA CloseStep ==
    ASSUME SInv, NEW t \in Threads,
           stack[t] # <<>>, Close(t), pc[t] \in {"run", "raise"},
           pc' = [pc EXCEPT ![t] = pc'[t]], pc'[t] # "lock",
           tenant' = [tenant EXCEPT ![t] = tenant'[t]],
           tenant'[t] = tenant[t] \/ Len(stack[t]) = 1,
           UNCHANGED lost,
           pc' \in [Threads -> {"idle", "arrived", "connect", "lock", "run", "raise"}],
           tenant' \in [Threads -> Tenants \cup {None}],
           want' \in [Threads -> Kinds \cup {None}],
           \A u \in Threads \ {t} : want'[u] = want[u],
           pc'[t] \in {"idle", "arrived"} => Len(stack[t]) = 1,
           pc'[t] # "idle" => tenant'[t] # None,
           pc'[t] = "connect" => want'[t] \in Kinds,
           pc'[t] = "connect" /\ want'[t] \in {"preflight", "cycle"} => Len(stack[t]) = 1
    PROVE  SInv'
<1> USE DEF SInv
<1> DEFINE c == Innermost(t).conn
           n == Len(stack[t])
<1>1. n \in 1..n /\ Innermost(t) = stack[t][n] /\ c \in Connections /\ c # None
  BY TopOfStack, SessionsAssumption DEF SessionsAssumption, Connections
<1>2. /\ DOMAIN stack' = Threads /\ \A u \in Threads : stack'[u] \in Seq(Records(u))
      /\ \A u \in Threads \ {t} : stack'[u] = stack[u]
      /\ n \in Nat /\ Len(stack'[t]) = n - 1
      /\ \A i \in 1..(n - 1) : stack'[t][i] = stack[t][i]
      /\ n = 1 => stack'[t] = <<>>
  BY Popped DEF Close
<1>3. /\ setting' \in [Connections -> Tenants \cup {None}]
      /\ holder' \in [Locks -> Connections \cup {None}]
      /\ \A d \in Connections : setting'[d] # None => d # c /\ setting'[d] = setting[d]
      /\ \A l \in Locks : holder'[l] # None => holder'[l] = holder[l] /\ holder[l] # c
      /\ \A l \in Locks : holder[l] # c => holder'[l] = holder[l]
  BY <1>1, Released DEF Close
<1>4. ASSUME NEW u \in Threads, NEW i \in 1..Len(stack'[u])
      PROVE  /\ i \in 1..Len(stack[u]) /\ stack'[u][i] = stack[u][i]
             /\ u = t => i < n
             /\ tenant'[u] = tenant[u]
  <2>1. CASE u = t
    BY <2>1, <1>2
  <2>2. CASE u # t
    BY <2>2, <1>2 DEF WellTyped
  <2> QED BY <2>1, <2>2
<1>5. ASSUME NEW u \in Threads, NEW i \in 1..Len(stack[u]), stack[u][i].conn # c
      PROVE  /\ i \in 1..Len(stack'[u]) /\ stack'[u][i] = stack[u][i]
             /\ tenant'[u] = tenant[u]
  <2>1. CASE u = t
    <3>1. i # n
      BY <2>1, <1>1, <1>5
    <3> QED BY <2>1, <3>1, <1>2
  <2>2. CASE u # t
    BY <2>2, <1>2 DEF WellTyped
  <2> QED BY <2>1, <2>2
<1>6. \A u \in Threads \ {t} : pc'[u] = pc[u] /\ tenant'[u] = tenant[u]
  BY DEF WellTyped
<1> HIDE DEF c, n
<1>7. WellTyped'
  BY <1>2, <1>3 DEF WellTyped
<1>8. PlacesFit'
  <2>1. ASSUME NEW u \in Threads
        PROVE  \A i \in 1..Len(stack'[u]) : stack'[u][i].kind \in {"preflight", "cycle"} => i = 1
    BY <1>4 DEF PlacesFit
  <2>2. ASSUME NEW u \in Threads \ {t} PROVE Innermost(u)' = Innermost(u)
    BY <1>2 DEF Innermost
  <2> SUFFICES ASSUME NEW u \in Threads
               PROVE  /\ pc'[u] \in {"idle", "arrived"} => stack'[u] = <<>>
                      /\ pc'[u] # "idle" => tenant'[u] # None
                      /\ pc'[u] = "connect" => want'[u] \in Kinds
                      /\ pc'[u] = "connect" /\ want'[u] \in {"preflight", "cycle"} => stack'[u] = <<>>
                      /\ pc'[u] = "lock" => stack'[u] # <<>> /\ Innermost(u)'.kind \in LockKinds
    BY <2>1 DEF PlacesFit
  <2>3. CASE u = t
    BY <2>3, <1>2 DEF n
  <2>4. CASE u # t
    <3>1. /\ pc'[u] = pc[u] /\ want'[u] = want[u] /\ stack'[u] = stack[u] /\ tenant'[u] = tenant[u]
          /\ Innermost(u)' = Innermost(u)
      BY <1>2, <1>6, <2>2, <2>4
    <3> QED BY <3>1 DEF PlacesFit
  <2> QED BY <2>3, <2>4
<1>9. OwnConnections'
  <2> SUFFICES ASSUME NEW u \in Threads, NEW v \in Threads,
                      NEW i \in 1..Len(stack'[u]), NEW j \in 1..Len(stack'[v]),
                      stack'[u][i].conn = stack'[v][j].conn
               PROVE  u = v /\ i = j
    BY DEF OwnConnections
  <2>1. i \in 1..Len(stack[u]) /\ stack'[u][i] = stack[u][i]
    BY <1>4
  <2>2. j \in 1..Len(stack[v]) /\ stack'[v][j] = stack[v][j]
    BY <1>4
  <2> QED BY <2>1, <2>2 DEF OwnConnections
<1>10. SettingsHaveBlocks'
  <2> SUFFICES ASSUME NEW d \in Connections, setting'[d] # None
               PROVE  \E u \in Threads : \E i \in 1..Len(stack'[u]) :
                         /\ tenant'[u] = setting'[d]
                         /\ stack'[u][i].conn = d /\ stack'[u][i].kind \in TenantKinds
    BY DEF SettingsHaveBlocks
  <2>1. d # c /\ setting'[d] = setting[d]
    BY <1>3
  <2>2. PICK u \in Threads : \E i \in 1..Len(stack[u]) :
            /\ tenant[u] = setting[d]
            /\ stack[u][i].conn = d /\ stack[u][i].kind \in TenantKinds
    BY <2>1 DEF SettingsHaveBlocks
  <2>3. PICK i \in 1..Len(stack[u]) :
            /\ tenant[u] = setting[d]
            /\ stack[u][i].conn = d /\ stack[u][i].kind \in TenantKinds
    BY <2>2
  <2>4. i \in 1..Len(stack'[u]) /\ stack'[u][i] = stack[u][i] /\ tenant'[u] = tenant[u]
    BY <2>1, <2>3, <1>5
  <2> QED BY <2>1, <2>3, <2>4
<1>11. LocksHaveBlocks'
  <2> SUFFICES ASSUME NEW l \in Locks, holder'[l] # None
               PROVE  \E u \in Threads : \E i \in 1..Len(stack'[u]) :
                         /\ tenant'[u] = l[2]
                         /\ stack'[u][i] = [kind |-> l[1], conn |-> holder'[l]]
                         /\ pc'[u] = "lock" => i # Len(stack'[u])
    BY DEF LocksHaveBlocks
  <2>1. holder'[l] = holder[l] /\ holder[l] # c
    BY <1>3
  <2>2. PICK u \in Threads : \E i \in 1..Len(stack[u]) :
            /\ tenant[u] = l[2]
            /\ stack[u][i] = [kind |-> l[1], conn |-> holder[l]]
            /\ pc[u] = "lock" => i # Len(stack[u])
    BY <2>1 DEF LocksHaveBlocks
  <2>3. PICK i \in 1..Len(stack[u]) :
            /\ tenant[u] = l[2]
            /\ stack[u][i] = [kind |-> l[1], conn |-> holder[l]]
            /\ pc[u] = "lock" => i # Len(stack[u])
    BY <2>2
  <2>4. i \in 1..Len(stack'[u]) /\ stack'[u][i] = stack[u][i] /\ tenant'[u] = tenant[u]
    BY <2>1, <2>3, <1>5
  <2>5. pc'[u] = "lock" => i # Len(stack'[u])
    BY <2>3, <1>2, <1>6
  <2> QED BY <2>1, <2>3, <2>4, <2>5
<1>12. BlocksHaveLocks'
  <2> SUFFICES ASSUME NEW u \in Threads, NEW i \in 1..Len(stack'[u]),
                      stack'[u][i].kind \in LockKinds,
                      pc'[u] \in {"lock", "raise"} => i # Len(stack'[u]),
                      stack'[u][i].conn \notin lost
               PROVE  holder'[<<stack'[u][i].kind, tenant'[u]>>] = stack'[u][i].conn
    BY DEF BlocksHaveLocks
  <2>1. /\ i \in 1..Len(stack[u]) /\ stack'[u][i] = stack[u][i]
        /\ u = t => i < n
        /\ tenant'[u] = tenant[u]
    BY <1>4
  <2>2. pc[u] \in {"lock", "raise"} => i # Len(stack[u])
    BY <2>1, <1>2, <1>6 DEF n
  <2>3. holder[<<stack[u][i].kind, tenant[u]>>] = stack[u][i].conn
    BY <2>1, <2>2 DEF BlocksHaveLocks
  <2>4. stack[u][i].conn # c
    BY <2>1, <1>1 DEF OwnConnections, n, c
  <2>5. tenant[u] \in Tenants
    <3>1. stack[u] # <<>>
      BY <2>1 DEF WellTyped
    <3> QED BY <3>1 DEF WellTyped, PlacesFit
  <2>6. <<stack[u][i].kind, tenant[u]>> \in Locks
    BY <2>1, <2>5 DEF Locks
  <2> QED BY <2>1, <2>3, <2>4, <2>6, <1>3
<1> QED BY <1>7, <1>8, <1>9, <1>10, <1>11, <1>12

\* A thread without blocks comes or goes.
LEMMA EmptyStep ==
    ASSUME SInv, NEW t \in Threads, stack[t] = <<>>,
           pc' = [pc EXCEPT ![t] = pc'[t]], pc'[t] \in {"idle", "arrived", "run"},
           tenant' = [tenant EXCEPT ![t] = tenant'[t]], tenant'[t] \in Tenants \cup {None},
           pc'[t] # "idle" => tenant'[t] # None,
           UNCHANGED <<stack, want, lost, setting, holder>>
    PROVE  SInv'
<1> USE DEF SInv
<1>1. \A u \in Threads \ {t} : pc'[u] = pc[u] /\ tenant'[u] = tenant[u]
  BY DEF WellTyped
<1>2. \A i \in 1..Len(stack[t]) : FALSE
  OBVIOUS
<1>3. WellTyped' /\ PlacesFit'
  <2>1. WellTyped'
    BY DEF WellTyped
  <2>2. PlacesFit'
    BY <1>1 DEF WellTyped, PlacesFit, Innermost
  <2> QED BY <2>1, <2>2
<1>4. OwnConnections'
  BY DEF OwnConnections
<1>5. SettingsHaveBlocks' /\ LocksHaveBlocks'
  BY <1>1, <1>2 DEF SettingsHaveBlocks, LocksHaveBlocks
<1>6. BlocksHaveLocks'
  BY <1>1, <1>2 DEF BlocksHaveLocks
<1> QED BY <1>3, <1>4, <1>5, <1>6

\* The block of a skipped cycle has neither a setting nor a lock.
LEMMA SkipStep ==
    ASSUME SInv, NEW t \in Threads, SkipCycle(t)
    PROVE  SInv'
<1> USE DEF SInv
<1>1. /\ pc[t] = "lock" /\ stack[t] # <<>> /\ Innermost(t).kind = "cycle"
      /\ stack' = [stack EXCEPT ![t] = Front(@)]
      /\ pc' = [pc EXCEPT ![t] = "idle"] /\ tenant' = [tenant EXCEPT ![t] = None]
      /\ UNCHANGED <<want, lost, setting, holder>>
  BY DEF SkipCycle, Finish, Goto, PlacesFit
<1>2. Len(stack[t]) = 1 /\ stack[t][1].kind = "cycle"
  BY <1>1, TopOfStack DEF PlacesFit
<1>3. /\ DOMAIN stack' = Threads /\ \A u \in Threads : stack'[u] \in Seq(Records(u))
      /\ stack'[t] = <<>>
      /\ \A u \in Threads \ {t} :
            stack'[u] = stack[u] /\ pc'[u] = pc[u] /\ tenant'[u] = tenant[u]
  BY <1>1, <1>2, Popped DEF WellTyped
<1>4. pc'[t] = "idle"
  BY <1>1 DEF WellTyped
<1>5. WellTyped' /\ PlacesFit'
  BY <1>1, <1>3, <1>4 DEF WellTyped, PlacesFit, Innermost
<1>6. OwnConnections' /\ BlocksHaveLocks'
  BY <1>1, <1>3 DEF OwnConnections, BlocksHaveLocks
<1>7. SettingsHaveBlocks'
  <2>1. \A i \in 1..Len(stack[t]) : stack[t][i].kind \notin TenantKinds
    BY <1>2 DEF TenantKinds
  <2> QED BY <1>1, <1>3, <2>1 DEF SettingsHaveBlocks
<1>8. LocksHaveBlocks'
  <2>1. \A i \in 1..Len(stack[t]) : ~(pc[t] = "lock" => i # Len(stack[t]))
    BY <1>1, <1>2
  <2> QED BY <1>1, <1>3, <2>1 DEF LocksHaveBlocks
<1> QED BY <1>5, <1>6, <1>7, <1>8

\* The server takes setting and locks with the session it ends.
LEMMA LoseStep ==
    ASSUME SInv, NEW c \in Connections, Lose(c)
    PROVE  SInv'
<1> USE DEF SInv, Lose
<1>1. c # None
  BY SessionsAssumption DEF SessionsAssumption, Connections
<1>2. /\ setting' \in [Connections -> Tenants \cup {None}]
      /\ holder' \in [Locks -> Connections \cup {None}]
      /\ \A d \in Connections : setting'[d] # None => d # c /\ setting'[d] = setting[d]
      /\ \A l \in Locks : holder'[l] # None => holder'[l] = holder[l] /\ holder[l] # c
      /\ \A l \in Locks : holder[l] # c => holder'[l] = holder[l]
  BY <1>1, Released
<1>3. WellTyped' /\ PlacesFit' /\ OwnConnections'
  BY <1>2 DEF WellTyped, PlacesFit, OwnConnections, Innermost
<1>4. SettingsHaveBlocks'
  BY <1>2 DEF SettingsHaveBlocks
<1>5. LocksHaveBlocks'
  BY <1>2 DEF LocksHaveBlocks
<1>6. BlocksHaveLocks'
  <2> SUFFICES ASSUME NEW u \in Threads, NEW i \in 1..Len(stack[u]),
                      stack[u][i].kind \in LockKinds,
                      pc[u] \in {"lock", "raise"} => i # Len(stack[u]),
                      stack[u][i].conn \notin lost \cup {c}
               PROVE  holder'[<<stack[u][i].kind, tenant[u]>>] = stack[u][i].conn
    BY DEF BlocksHaveLocks
  <2>1. holder[<<stack[u][i].kind, tenant[u]>>] = stack[u][i].conn
    BY DEF BlocksHaveLocks
  <2>2. tenant[u] \in Tenants
    <3>1. stack[u] # <<>>
      BY DEF WellTyped
    <3> QED BY <3>1 DEF WellTyped, PlacesFit
  <2>3. <<stack[u][i].kind, tenant[u]>> \in Locks
    BY <2>2 DEF Locks
  <2> QED BY <2>1, <2>3, <1>2
<1> QED BY <1>3, <1>4, <1>5, <1>6

LEMMA LeaveStep ==
    ASSUME SInv, NEW t \in Threads, Leave(t)
    PROVE  SInv'
<1> USE DEF SInv, Goto, Request, Finish
<1>1. /\ pc[t] = "run" /\ stack[t] # <<>> /\ Close(t) /\ UNCHANGED lost
  BY DEF Leave
<1>2. tenant[t] \in Tenants /\ tenant[t] # None
  BY <1>1, SessionsAssumption DEF WellTyped, PlacesFit, SessionsAssumption
<1>3. Innermost(t).kind = "preflight" => Len(stack[t]) = 1
  BY <1>1, TopOfStack DEF PlacesFit
<1>4. \/ /\ pc' = [pc EXCEPT ![t] = "connect"] /\ UNCHANGED tenant
         /\ \/ want' = [want EXCEPT ![t] = "refresh"]
            \/ want' = [want EXCEPT ![t] = "cycle"] /\ Len(stack[t]) = 1
      \/ pc' = [pc EXCEPT ![t] = "run"] /\ UNCHANGED <<tenant, want>>
      \/ /\ pc' = [pc EXCEPT ![t] = "idle"] /\ Len(stack[t]) = 1
         /\ tenant' = [tenant EXCEPT ![t] = None] /\ UNCHANGED want
  <2>1. CASE Innermost(t).kind = "lookup"
    BY <2>1 DEF Leave
  <2>2. CASE Innermost(t).kind = "refresh"
    BY <2>2 DEF Leave
  <2>3. CASE Innermost(t).kind = "preflight"
    BY <2>3, <1>3 DEF Leave
  <2>4. CASE t \in ApiThreads /\ Len(stack[t]) = 1 /\ Innermost(t).kind \in {"session", "cycle"}
    BY <2>4 DEF Leave
  <2>5. CASE /\ Innermost(t).kind \notin {"lookup", "refresh", "preflight"}
             /\ ~(t \in ApiThreads /\ Len(stack[t]) = 1 /\ Innermost(t).kind \in {"session", "cycle"})
    <3>1. UNCHANGED <<pc, tenant, want, opened, loop>>
      BY <2>5 DEF Leave
    <3>2. pc' = [pc EXCEPT ![t] = "run"]
      BY <3>1, <1>1 DEF WellTyped
    <3> QED BY <3>1, <3>2
  <2> QED BY <2>1, <2>2, <2>3, <2>4, <2>5
<1>5. CASE pc' = [pc EXCEPT ![t] = "connect"] /\ UNCHANGED tenant
  <2>1. \/ want' = [want EXCEPT ![t] = "refresh"]
        \/ want' = [want EXCEPT ![t] = "cycle"] /\ Len(stack[t]) = 1
    BY <1>4, <1>5, <1>1 DEF WellTyped
  <2>2. /\ want' \in [Threads -> Kinds \cup {None}]
        /\ \A u \in Threads \ {t} : want'[u] = want[u]
        /\ want'[t] \in Kinds
        /\ want'[t] \in {"preflight", "cycle"} => Len(stack[t]) = 1
    BY <2>1 DEF WellTyped, Kinds
  <2>3. /\ pc' \in [Threads -> {"idle", "arrived", "connect", "lock", "run", "raise"}]
        /\ pc'[t] = "connect" /\ pc' = [pc EXCEPT ![t] = pc'[t]]
        /\ tenant' \in [Threads -> Tenants \cup {None}]
        /\ tenant' = [tenant EXCEPT ![t] = tenant'[t]] /\ tenant'[t] = tenant[t]
    BY <1>5 DEF WellTyped
  <2> QED BY <1>1, <1>2, <2>2, <2>3, CloseStep
<1>6. CASE pc' = [pc EXCEPT ![t] = "run"] /\ UNCHANGED <<tenant, want>>
  <2>1. /\ pc' \in [Threads -> {"idle", "arrived", "connect", "lock", "run", "raise"}]
        /\ pc'[t] = "run" /\ pc' = [pc EXCEPT ![t] = pc'[t]]
        /\ tenant' \in [Threads -> Tenants \cup {None}]
        /\ tenant' = [tenant EXCEPT ![t] = tenant'[t]] /\ tenant'[t] = tenant[t]
        /\ want' \in [Threads -> Kinds \cup {None}]
        /\ \A u \in Threads \ {t} : want'[u] = want[u]
    BY <1>6 DEF WellTyped
  <2> QED BY <1>1, <1>2, <2>1, CloseStep
<1>7. CASE /\ pc' = [pc EXCEPT ![t] = "idle"] /\ Len(stack[t]) = 1
           /\ tenant' = [tenant EXCEPT ![t] = None] /\ UNCHANGED want
  <2>1. /\ pc' \in [Threads -> {"idle", "arrived", "connect", "lock", "run", "raise"}]
        /\ pc'[t] = "idle" /\ pc' = [pc EXCEPT ![t] = pc'[t]]
        /\ tenant' \in [Threads -> Tenants \cup {None}]
        /\ tenant' = [tenant EXCEPT ![t] = tenant'[t]]
        /\ want' \in [Threads -> Kinds \cup {None}]
        /\ \A u \in Threads \ {t} : want'[u] = want[u]
    BY <1>7 DEF WellTyped
  <2> QED BY <1>1, <1>7, <2>1, CloseStep
<1> QED BY <1>4, <1>5, <1>6, <1>7

LEMMA RollbackStep ==
    ASSUME SInv, NEW t \in Threads, RollbackWithin(t)
    PROVE  SInv'
<1> USE DEF SInv
<1>1. /\ pc[t] = "run" /\ Len(stack[t]) = 1 /\ Close(t) /\ UNCHANGED <<tenant, lost>>
      /\ pc' = [pc EXCEPT ![t] = "connect"] /\ want' = [want EXCEPT ![t] = "bare"]
  BY DEF RollbackWithin, Goto, Request
<1>2. stack[t] # <<>>
  <2>1. Len(<<>>) # 1
    OBVIOUS
  <2> QED BY <1>1, <2>1
<1>3. tenant[t] # None
  BY <1>1 DEF PlacesFit
<1>4. /\ pc' \in [Threads -> {"idle", "arrived", "connect", "lock", "run", "raise"}]
      /\ pc'[t] = "connect" /\ pc' = [pc EXCEPT ![t] = pc'[t]]
      /\ tenant' \in [Threads -> Tenants \cup {None}]
      /\ tenant' = [tenant EXCEPT ![t] = tenant'[t]] /\ tenant'[t] = tenant[t]
      /\ want' \in [Threads -> Kinds \cup {None}] /\ want'[t] = "bare"
      /\ \A u \in Threads \ {t} : want'[u] = want[u]
  BY <1>1 DEF WellTyped, Kinds
<1>5. want'[t] \in Kinds /\ want'[t] \notin {"preflight", "cycle"}
  BY <1>4 DEF Kinds
<1> QED BY <1>1, <1>2, <1>3, <1>4, <1>5, CloseStep

LEMMA UnwindStep ==
    ASSUME SInv, NEW t \in Threads, Unwind(t)
    PROVE  SInv'
<1> USE DEF SInv
<1>1. pc[t] = "raise" /\ UNCHANGED <<want, lost>>
  BY DEF Unwind
<1>2. tenant[t] \in Tenants /\ tenant[t] # None
  BY <1>1, SessionsAssumption DEF WellTyped, PlacesFit, SessionsAssumption
<1>3. CASE stack[t] = <<>>
  <2>1. /\ UNCHANGED <<stack, setting, holder>>
        /\ \/ pc' = [pc EXCEPT ![t] = "idle"] /\ tenant' = [tenant EXCEPT ![t] = None]
           \/ pc' = [pc EXCEPT ![t] = "run"] /\ UNCHANGED tenant
    BY <1>3 DEF Unwind, Finish, Goto
  <2>2. /\ pc' = [pc EXCEPT ![t] = pc'[t]] /\ pc'[t] \in {"idle", "arrived", "run"}
        /\ tenant' = [tenant EXCEPT ![t] = tenant'[t]] /\ tenant'[t] \in Tenants \cup {None}
        /\ pc'[t] # "idle" => tenant'[t] # None
    BY <2>1, <1>2 DEF WellTyped
  <2> QED BY <1>1, <1>3, <2>1, <2>2, EmptyStep
<1>4. CASE stack[t] # <<>>
  <2>1. /\ Close(t) /\ UNCHANGED tenant
        /\ pc' = pc \/ pc' = [pc EXCEPT ![t] = "run"]
    BY <1>4 DEF Unwind, Goto
  <2>2. /\ pc' \in [Threads -> {"idle", "arrived", "connect", "lock", "run", "raise"}]
        /\ pc'[t] \in {"raise", "run"} /\ pc' = [pc EXCEPT ![t] = pc'[t]]
        /\ tenant' \in [Threads -> Tenants \cup {None}]
        /\ tenant' = [tenant EXCEPT ![t] = tenant'[t]] /\ tenant'[t] = tenant[t]
        /\ want' \in [Threads -> Kinds \cup {None}]
        /\ \A u \in Threads \ {t} : want'[u] = want[u]
    BY <1>1, <2>1 DEF WellTyped
  <2> QED BY <1>1, <1>2, <1>4, <2>1, <2>2, CloseStep
<1> QED BY <1>3, <1>4

LEMMA ThreadStep ==
    ASSUME SInv, NEW t \in Threads, Step(t)
    PROVE  SInv'
<1>1. CASE Done(t)
  <2>1. /\ stack[t] = <<>> /\ UNCHANGED <<stack, want, lost, setting, holder>>
        /\ pc' = [pc EXCEPT ![t] = "idle"] /\ tenant' = [tenant EXCEPT ![t] = None]
    BY <1>1 DEF Done, Finish, Goto
  <2>2. /\ pc' = [pc EXCEPT ![t] = pc'[t]] /\ pc'[t] = "idle"
        /\ tenant' = [tenant EXCEPT ![t] = tenant'[t]] /\ tenant'[t] = None
    BY <2>1 DEF SInv, WellTyped
  <2> QED BY <2>1, <2>2, EmptyStep
<1> QED BY <1>1, QuietSteps, CheckOutStep, LockStep, SkipStep, LeaveStep, RollbackStep, UnwindStep
        DEF Step

LEMMA ArriveStep ==
    ASSUME SInv, NEW t \in Threads, NEW m \in Tenants, Arrive(t, m)
    PROVE  SInv'
<1>1. /\ pc[t] = "idle" /\ UNCHANGED <<stack, want, lost, setting, holder>>
      /\ pc' = [pc EXCEPT ![t] = "arrived"] \/ pc' = [pc EXCEPT ![t] = "run"]
      /\ tenant' = [tenant EXCEPT ![t] = m]
  BY DEF Arrive, Goto
<1>2. stack[t] = <<>> /\ m # None
  BY <1>1, SessionsAssumption DEF SInv, PlacesFit, SessionsAssumption
<1>3. /\ pc' = [pc EXCEPT ![t] = pc'[t]] /\ pc'[t] \in {"idle", "arrived", "run"}
      /\ tenant' = [tenant EXCEPT ![t] = tenant'[t]] /\ tenant'[t] = m
  BY <1>1 DEF SInv, WellTyped
<1> QED BY <1>1, <1>2, <1>3, EmptyStep

LEMMA Invariant == Spec => []SInv
<1>1. ASSUME SInv, [Next]_vars PROVE SInv'
  <2>1. CASE UNCHANGED vars
    BY <1>1, <2>1 DEF vars, SInv, WellTyped, PlacesFit, OwnConnections, SettingsHaveBlocks,
                      LocksHaveBlocks, BlocksHaveLocks, Innermost
  <2>2. CASE Next
    BY <1>1, <2>2, ThreadStep, ArriveStep, LoseStep DEF Next
  <2> QED BY <1>1, <2>1, <2>2
<1> QED BY <1>1, Initially, PTL DEF Spec

(***************************************************************************)
(* Theorems.                                                               *)
(***************************************************************************)
\* The tenant that row-level security reads is set on a connection only where a
\* thread of that tenant has a session or a guard open on it (get_db_context).
THEOREM ContextIsOwn == Spec => []TenantContextIsOwn
<1>1. SInv => TenantContextIsOwn
  <2> SUFFICES ASSUME SInv, NEW c \in Connections, setting[c] # None
               PROVE  \E t \in Threads :
                         /\ tenant[t] = setting[c]
                         /\ \E b \in ToSet(stack[t]) : b.conn = c /\ b.kind \in TenantKinds
    BY DEF TenantContextIsOwn
  <2>1. PICK t \in Threads : \E i \in 1..Len(stack[t]) :
            /\ tenant[t] = setting[c]
            /\ stack[t][i].conn = c /\ stack[t][i].kind \in TenantKinds
    BY DEF SInv, SettingsHaveBlocks
  <2>2. \A i \in 1..Len(stack[t]) : stack[t][i] \in ToSet(stack[t])
    BY DEF SInv, WellTyped, ToSet
  <2> QED BY <2>1, <2>2
<1> QED BY <1>1, Invariant, PTL

\* Two threads are inside a guard (_serialized_state_change) or a cycle
\* (_tenant_cycle_lock) of one tenant together only if one has lost its
\* connection, and no connection that went back to its pool keeps a lock.
THEOREM LocksExclude == Spec => []GuardsExclude
<1>1. ASSUME SInv, NEW t \in Threads, NEW kind \in LockKinds, NEW b \in Inside(t, kind), b.conn \notin lost
      PROVE  /\ holder[<<kind, tenant[t]>>] = b.conn
             /\ \E i \in 1..Len(stack[t]) : stack[t][i] = b
  <2>1. stack[t] \in Seq(Records(t))
    BY <1>1 DEF SInv, WellTyped
  <2>2. /\ b \in ToSet(stack[t]) /\ b.kind = kind
        /\ pc[t] \in {"lock", "raise"} => b # Innermost(t)
    BY DEF Inside
  <2>3. PICK i \in 1..Len(stack[t]) : stack[t][i] = b
    BY <2>1, <2>2 DEF ToSet
  <2>4. Innermost(t) = stack[t][Len(stack[t])]
    BY DEF Innermost, Last
  <2>5. pc[t] \in {"lock", "raise"} => i # Len(stack[t])
    BY <2>2, <2>3, <2>4
  <2> QED BY <1>1, <2>2, <2>3, <2>5 DEF SInv, BlocksHaveLocks
<1>2. ASSUME SInv PROVE GuardsExclude
  <2>1. ASSUME NEW t \in Threads, NEW u \in Threads, NEW kind \in LockKinds,
               t # u, tenant[t] = tenant[u],
               NEW b \in Inside(t, kind), NEW d \in Inside(u, kind),
               {b.conn, d.conn} \cap lost = {}
        PROVE  FALSE
    <3>1. /\ holder[<<kind, tenant[t]>>] = b.conn
          /\ \E i \in 1..Len(stack[t]) : stack[t][i] = b
      BY <1>1, <1>2, <2>1
    <3>2. /\ holder[<<kind, tenant[u]>>] = d.conn
          /\ \E j \in 1..Len(stack[u]) : stack[u][j] = d
      BY <1>1, <1>2, <2>1
    <3> QED BY <1>2, <2>1, <3>1, <3>2 DEF SInv, OwnConnections
  <2>2. ASSUME NEW l \in Locks, holder[l] # None
        PROVE  \E t \in Threads :
                  /\ tenant[t] = l[2]
                  /\ [kind |-> l[1], conn |-> holder[l]] \in ToSet(stack[t])
    <3>1. PICK t \in Threads : \E i \in 1..Len(stack[t]) :
              /\ tenant[t] = l[2]
              /\ stack[t][i] = [kind |-> l[1], conn |-> holder[l]]
      BY <1>2, <2>2 DEF SInv, LocksHaveBlocks
    <3>2. \A i \in 1..Len(stack[t]) : stack[t][i] \in ToSet(stack[t])
      BY <1>2 DEF SInv, WellTyped, ToSet
    <3> QED BY <3>1, <3>2
  <2> QED BY <2>1, <2>2 DEF GuardsExclude
<1> QED BY <1>2, Invariant, PTL

(***************************************************************************)
(* The types, and with them the event loop: nobody is in it twice, and the  *)
(* request that it authenticates is its first.                              *)
(***************************************************************************)
AuthKinds == {"lookup", "refresh"}

HasAuth(t) == \E i \in 1..Len(stack[t]) : stack[t][i].kind \in AuthKinds

Authenticating(t) ==
    \/ pc[t] = "connect" /\ want[t] \in AuthKinds
    \/ pc[t] \in {"run", "raise"} /\ HasAuth(t)

\* The loop may still have a request of which the authentication has failed.
Served(t) == Authenticating(t) \/ (pc[t] = "raise" /\ stack[t] = <<>>)

ThreadFits(t) ==
    /\ pc[t] = "idle" => tenant[t] = None
    /\ pc[t] = "connect" /\ want[t] \in AuthKinds => stack[t] = <<>>
    /\ HasAuth(t) => Len(stack[t]) = 1 /\ pc[t] \in {"run", "raise"}

LoopFits ==
    /\ loop \in Seq(ApiThreads)
    /\ \A i, j \in 1..Len(loop) : loop[i] = loop[j] => i = j
    /\ \A i \in 1..Len(loop) : pc[loop[i]] = "arrived" \/ (i = 1 /\ Served(loop[i]))
    /\ \A t \in Threads :
          /\ Authenticating(t) => Len(loop) > 0 /\ loop[1] = t
          /\ pc[t] = "arrived" => \E i \in 1..Len(loop) : loop[i] = t

LInv ==
    /\ load \in Loads /\ opened \in [Threads -> 0..MaxBlocks]
    /\ \A t \in Threads : ThreadFits(t)
    /\ LoopFits

OthersStay(t) ==
    \A u \in Threads \ {t} :
        /\ pc'[u] = pc[u] /\ stack'[u] = stack[u] /\ want'[u] = want[u]
        /\ tenant'[u] = tenant[u]

LEMMA OthersFit ==
    ASSUME LInv, NEW t \in Threads, OthersStay(t), NEW u \in Threads \ {t}
    PROVE  /\ ThreadFits(u)' /\ (Authenticating(u)' <=> Authenticating(u)) /\ (Served(u)' <=> Served(u))
           /\ pc'[u] = pc[u]
<1>1. HasAuth(u)' <=> HasAuth(u)
  BY DEF OthersStay, HasAuth
<1>2. ThreadFits(u)'
  BY <1>1 DEF OthersStay, LInv, ThreadFits
<1>3. Authenticating(u)' <=> Authenticating(u)
  BY <1>1 DEF OthersStay, Authenticating
<1> QED BY <1>2, <1>3 DEF OthersStay, Served

\* A thread whose requests are past their authentication, or stay in it.
LEMMA LoopStays ==
    ASSUME LInv, NEW t \in Threads, OthersStay(t), UNCHANGED loop,
           pc[t] # "arrived", pc'[t] # "arrived",
           Served(t) /\ loop # <<>> /\ loop[1] = t => Served(t)', Authenticating(t)' => Authenticating(t)
    PROVE  LoopFits'
<1>1. \A u \in Threads \ {t} :
        /\ Authenticating(u)' <=> Authenticating(u)
        /\ Served(u)' <=> Served(u)
        /\ pc'[u] = pc[u]
  BY OthersFit
<1>2. \A i \in 1..Len(loop) : loop[i] \in Threads
  BY DEF LInv, LoopFits, Threads
<1>3. \A i \in 1..Len(loop) : pc'[loop[i]] = "arrived" \/ (i = 1 /\ Served(loop[i])')
  <2> SUFFICES ASSUME NEW i \in 1..Len(loop) PROVE pc'[loop[i]] = "arrived" \/ (i = 1 /\ Served(loop[i])')
    OBVIOUS
  <2>1. PICK u \in Threads : u = loop[i]
    BY <1>2
  <2>2. pc[u] = "arrived" \/ (i = 1 /\ Served(u))
    BY <2>1 DEF LInv, LoopFits
  <2>3. loop # <<>>
    BY DEF LInv, LoopFits
  <2>4. i = 1 /\ u = t => loop[1] = t
    BY <2>1
  <2>5. pc'[u] = "arrived" \/ (i = 1 /\ Served(u)')
    BY <1>1, <2>2, <2>3, <2>4
  <2>6. loop' = loop
    OBVIOUS
  <2> QED BY <2>1, <2>5, <2>6
<1>4. \A u \in Threads : Authenticating(u)' => Authenticating(u)
  BY <1>1
<1>5. \A u \in Threads : pc'[u] = "arrived" => pc[u] = "arrived"
  BY <1>1
<1> QED BY <1>3, <1>4, <1>5 DEF LInv, LoopFits

LEMMA InnermostAuth ==
    ASSUME WellTyped, NEW t \in Threads, stack[t] # <<>>
    PROVE  /\ Innermost(t).kind \in AuthKinds => HasAuth(t)
           /\ HasAuth(t) /\ Len(stack[t]) = 1 => Innermost(t).kind \in AuthKinds
BY TopOfStack DEF HasAuth

LEMMA PushedAuth ==
    ASSUME WellTyped, NEW t \in Threads, NEW b \in Records(t),
           stack' = [stack EXCEPT ![t] = Append(@, b)], ~HasAuth(t)
    PROVE  /\ HasAuth(t)' <=> b.kind \in AuthKinds
           /\ Len(stack'[t]) = Len(stack[t]) + 1
           /\ \A u \in Threads \ {t} : stack'[u] = stack[u]
<1>1. /\ Len(stack[t]) \in Nat /\ Len(stack'[t]) = Len(stack[t]) + 1
      /\ \A i \in 1..Len(stack[t]) : stack'[t][i] = stack[t][i]
      /\ stack'[t][Len(stack[t]) + 1] = b
      /\ \A u \in Threads \ {t} : stack'[u] = stack[u]
  BY Pushed
<1>2. \A i \in 1..Len(stack'[t]) : i \in 1..Len(stack[t]) \/ i = Len(stack[t]) + 1
  BY <1>1
<1>3. Len(stack[t]) + 1 \in 1..Len(stack'[t])
  BY <1>1
<1> QED BY <1>1, <1>2, <1>3 DEF HasAuth

LEMMA PoppedAuth ==
    ASSUME WellTyped, NEW t \in Threads, stack[t] # <<>>, ThreadFits(t),
           stack' = [stack EXCEPT ![t] = Front(@)]
    PROVE  /\ ~HasAuth(t)'
           /\ HasAuth(t) => stack'[t] = <<>>
           /\ \A u \in Threads \ {t} : stack'[u] = stack[u]
<1>1. /\ Len(stack[t]) \in Nat /\ Len(stack'[t]) = Len(stack[t]) - 1
      /\ \A i \in 1..(Len(stack[t]) - 1) : stack'[t][i] = stack[t][i]
      /\ Len(stack[t]) = 1 => stack'[t] = <<>>
      /\ \A u \in Threads \ {t} : stack'[u] = stack[u]
  BY Popped
<1>2. HasAuth(t) => Len(stack[t]) = 1
  BY DEF ThreadFits
<1>3. HasAuth(t)' => HasAuth(t) /\ Len(stack[t]) > 1
  BY <1>1 DEF HasAuth
<1> QED BY <1>1, <1>2, <1>3

LEMMA LoopKept ==
    ASSUME LInv, NEW t \in Threads, OthersStay(t), UNCHANGED <<load, loop>>, opened' \in [Threads -> 0..MaxBlocks],
           pc[t] # "arrived", pc'[t] # "arrived", ThreadFits(t)',
           Served(t) /\ loop # <<>> /\ loop[1] = t => Served(t)', Authenticating(t)' => Authenticating(t)
    PROVE  LInv'
<1>1. LoopFits'
  BY LoopStays
<1>2. \A u \in Threads : ThreadFits(u)'
  BY OthersFit
<1> QED BY <1>1, <1>2 DEF LInv

\* Steps that open and close nothing.
LEMMA LoopQuiet ==
    ASSUME SInv, LInv, NEW t \in Threads,
           \/ CheckOutTimesOut(t) \/ TakeLock(t) \/ LockTimesOut(t) \/ Raise(t) \/ Done(t)
           \/ \E kind \in Kinds : Open(t, kind)
    PROVE  LInv'
<1>0. opened \in [Threads -> 0..MaxBlocks]
  BY DEF LInv
<1>1. ThreadFits(t) /\ PlacesFit /\ WellTyped
  BY DEF LInv, SInv
<1>2. UNCHANGED <<load, loop, stack>>
  BY DEF CheckOutTimesOut, TakeLock, LockTimesOut, Raise, Done, Open
<1>3. HasAuth(t)' <=> HasAuth(t)
  BY <1>2 DEF HasAuth
<1>4. OthersStay(t)
  <2>1. \A u \in Threads \ {t} : pc'[u] = pc[u]
    BY <1>1 DEF CheckOutTimesOut, TakeLock, LockTimesOut, Raise, Done, Open, Goto, Request, Finish, WellTyped
  <2>2. \A u \in Threads \ {t} : want'[u] = want[u]
    BY <1>1 DEF CheckOutTimesOut, TakeLock, LockTimesOut, Raise, Done, Open, Request, WellTyped
  <2>3. \A u \in Threads \ {t} : tenant'[u] = tenant[u]
    BY <1>1 DEF CheckOutTimesOut, TakeLock, LockTimesOut, Raise, Done, Open, Finish, WellTyped
  <2> QED BY <1>2, <2>1, <2>2, <2>3 DEF OthersStay
<1> USE DEF ThreadFits, Served, Authenticating
<1>5. CASE CheckOutTimesOut(t)
  <2>1. pc[t] = "connect" /\ pc'[t] = "raise" /\ UNCHANGED <<opened, tenant>>
    BY <1>1, <1>5 DEF CheckOutTimesOut, Goto, WellTyped
  <2> QED BY <1>1, <1>2, <1>3, <1>4, <2>1, <1>0, LoopKept
<1>6. CASE TakeLock(t) \/ LockTimesOut(t)
  <2>1. pc[t] = "lock" /\ pc'[t] \in {"run", "raise"} /\ UNCHANGED <<opened, tenant>>
    BY <1>1, <1>6 DEF TakeLock, LockTimesOut, Goto, WellTyped
  <2> QED BY <1>1, <1>2, <1>3, <1>4, <2>1, <1>0, LoopKept
<1>7. CASE Raise(t)
  <2>1. pc[t] \in {"run", "lock"} /\ stack[t] # <<>> /\ pc'[t] = "raise" /\ UNCHANGED <<opened, tenant>>
    BY <1>1, <1>7 DEF Raise, Goto, WellTyped
  <2> QED BY <1>1, <1>2, <1>3, <1>4, <2>1, <1>0, LoopKept
<1>8. CASE Done(t)
  <2>1. pc[t] = "run" /\ stack[t] = <<>> /\ pc'[t] = "idle" /\ tenant'[t] = None
    BY <1>1, <1>8 DEF Done, Finish, Goto, WellTyped
  <2>2. ~HasAuth(t)
    BY <2>1 DEF HasAuth
  <2>3. opened' \in [Threads -> 0..MaxBlocks]
    BY <1>8, <1>0, SessionsAssumption DEF Done, Finish
  <2> QED BY <1>1, <1>2, <1>3, <1>4, <2>1, <2>2, <2>3, LoopKept
<1>9. ASSUME NEW kind \in Kinds, Open(t, kind) PROVE LInv'
  <2>1. /\ pc[t] = "run" /\ pc'[t] = "connect" /\ want'[t] = kind /\ kind \in MayOpen(t)
        /\ UNCHANGED tenant
    BY <1>1, <1>9 DEF Open, Request, Goto, WellTyped
  <2>2. stack[t] # <<>> => Innermost(t).kind \notin AuthKinds /\ kind \in {"session", "guard"}
    BY <2>1 DEF MayOpen, AuthKinds
  <2>3. stack[t] = <<>> => kind \in {"session", "preflight", "guard"}
    BY <2>1 DEF MayOpen, Threads
  <2>4. ~HasAuth(t)
    <3>1. stack[t] = <<>> => ~HasAuth(t)
      BY DEF HasAuth
    <3> QED BY <1>1, <2>2, <3>1, InnermostAuth
  <2>5. kind \notin AuthKinds
    BY <2>2, <2>3 DEF AuthKinds
  <2>6. opened' \in [Threads -> 0..MaxBlocks]
    BY <1>9, <1>0, SessionsAssumption DEF Open
  <2> QED BY <1>1, <1>2, <1>3, <1>4, <2>1, <2>4, <2>5, <2>6, LoopKept
<1> QED BY <1>5, <1>6, <1>7, <1>8, <1>9

LEMMA LoopCheckOut ==
    ASSUME SInv, LInv, NEW t \in Threads, CheckOut(t)
    PROVE  LInv'
<1>1. ThreadFits(t) /\ PlacesFit /\ WellTyped
  BY DEF LInv, SInv
<1> DEFINE c == CHOOSE d \in Idle(t) : TRUE
           b == [kind |-> want[t], conn |-> c]
<1>2. c \in Pool(t) /\ want[t] \in Kinds
  <2>1. c \in Idle(t)
    BY DEF CheckOut
  <2> QED BY <1>1, <2>1, IdleIsUnused DEF CheckOut, PlacesFit
<1>3. /\ b \in Records(t) /\ b.kind = want[t]
      /\ stack' = [stack EXCEPT ![t] = Append(@, b)]
  BY <1>2 DEF CheckOut, Records
<1> HIDE DEF c, b
<1>4. /\ pc[t] = "connect" /\ pc'[t] = IF want[t] \in LockKinds THEN "lock" ELSE "run"
      /\ pc' = [pc EXCEPT ![t] = pc'[t]] /\ want' = [want EXCEPT ![t] = None]
      /\ UNCHANGED <<load, loop, tenant, opened>>
  BY <1>1 DEF CheckOut, Goto, WellTyped
<1>5. ~HasAuth(t)
  BY <1>1, <1>4 DEF ThreadFits
<1>6. /\ HasAuth(t)' <=> want[t] \in AuthKinds
      /\ Len(stack'[t]) = Len(stack[t]) + 1
      /\ \A u \in Threads \ {t} : stack'[u] = stack[u]
  BY <1>1, <1>3, <1>5, PushedAuth
<1>7. OthersStay(t) /\ opened' \in [Threads -> 0..MaxBlocks]
  BY <1>1, <1>4, <1>6 DEF OthersStay, WellTyped, LInv
<1>8. ThreadFits(t)'
  <2>1. want[t] \in AuthKinds => Len(stack'[t]) = 1 /\ pc'[t] = "run"
    BY <1>1, <1>4, <1>6 DEF ThreadFits, AuthKinds, LockKinds
  <2> QED BY <1>1, <1>4, <1>6, <2>1 DEF ThreadFits
<1>9. Served(t) => Served(t)'
  BY <1>4, <1>5, <1>6 DEF Served, Authenticating, AuthKinds, LockKinds
<1>10. Authenticating(t)' => Authenticating(t)
  BY <1>4, <1>6 DEF Authenticating
<1> QED BY <1>4, <1>7, <1>8, <1>9, <1>10, LoopKept

\* Steps that end a block.
LEMMA LoopClose ==
    ASSUME SInv, LInv, NEW t \in Threads, stack[t] # <<>>,
           stack' = [stack EXCEPT ![t] = Front(@)],
           UNCHANGED <<load, loop>>, opened' \in [Threads -> 0..MaxBlocks],
           \A u \in Threads \ {t} : pc'[u] = pc[u] /\ want'[u] = want[u] /\ tenant'[u] = tenant[u],
           pc[t] \in {"run", "lock", "raise"},
           \/ pc'[t] = "idle" /\ tenant'[t] = None /\ ~HasAuth(t)
           \/ pc'[t] = "connect" /\ want'[t] \in {"cycle", "bare"} /\ ~HasAuth(t)
           \/ pc'[t] = "connect" /\ want'[t] = "refresh" /\ HasAuth(t)
           \/ pc'[t] = "run" /\ ~HasAuth(t)
           \/ pc[t] = "raise" /\ pc'[t] = "raise"
    PROVE  LInv'
<1>1. ThreadFits(t) /\ WellTyped
  BY DEF LInv, SInv
<1>2. /\ ~HasAuth(t)' /\ (HasAuth(t) => stack'[t] = <<>>)
      /\ \A u \in Threads \ {t} : stack'[u] = stack[u]
  BY <1>1, PoppedAuth
<1>3. OthersStay(t)
  BY <1>2 DEF OthersStay
<1>4. ThreadFits(t)'
  BY <1>2 DEF ThreadFits, AuthKinds
<1>5. Served(t) => Served(t)'
  BY <1>2 DEF Served, Authenticating, AuthKinds
<1>6. Authenticating(t)' => Authenticating(t)
  BY <1>1, <1>2 DEF Authenticating, AuthKinds, ThreadFits
<1> QED BY <1>3, <1>4, <1>5, <1>6, LoopKept

LEMMA LoopLeave ==
    ASSUME SInv, LInv, NEW t \in Threads, Leave(t), Innermost(t).kind # "refresh"
    PROVE  LInv'
<1>1. /\ pc[t] = "run" /\ stack[t] # <<>> /\ stack' = [stack EXCEPT ![t] = Front(@)] /\ UNCHANGED load
      /\ ThreadFits(t) /\ WellTyped /\ opened \in [Threads -> 0..MaxBlocks]
  BY DEF Leave, Close, LInv, SInv
<1>2. HasAuth(t) <=> Innermost(t).kind \in AuthKinds
  BY <1>1, InnermostAuth DEF ThreadFits
<1>3. CASE Innermost(t).kind = "lookup"
  <2>1. /\ pc' = [pc EXCEPT ![t] = "connect"] /\ want' = [want EXCEPT ![t] = "refresh"]
        /\ UNCHANGED <<tenant, opened, loop>>
    BY <1>3 DEF Leave, Request, Goto
  <2>2. pc'[t] = "connect" /\ want'[t] = "refresh"
        /\ \A u \in Threads \ {t} : pc'[u] = pc[u] /\ want'[u] = want[u] /\ tenant'[u] = tenant[u]
    BY <1>1, <2>1 DEF WellTyped
  <2> QED BY <1>1, <1>2, <1>3, <2>1, <2>2, LoopClose DEF AuthKinds
<1>4. CASE Innermost(t).kind = "preflight"
  <2>1. /\ pc' = [pc EXCEPT ![t] = "connect"] /\ want' = [want EXCEPT ![t] = "cycle"]
        /\ UNCHANGED <<tenant, opened, loop>>
    BY <1>4 DEF Leave, Request, Goto
  <2>2. pc'[t] = "connect" /\ want'[t] = "cycle"
        /\ \A u \in Threads \ {t} : pc'[u] = pc[u] /\ want'[u] = want[u] /\ tenant'[u] = tenant[u]
    BY <1>1, <2>1 DEF WellTyped
  <2> QED BY <1>1, <1>2, <1>4, <2>1, <2>2, LoopClose DEF AuthKinds
<1>5. CASE /\ Innermost(t).kind \notin {"lookup", "preflight"}
           /\ t \in ApiThreads /\ Len(stack[t]) = 1 /\ Innermost(t).kind \in {"session", "cycle"}
  <2>1. /\ pc' = [pc EXCEPT ![t] = "idle"] /\ tenant' = [tenant EXCEPT ![t] = None]
        /\ opened' = [opened EXCEPT ![t] = 0] /\ UNCHANGED <<want, loop>>
    BY <1>5 DEF Leave, Finish, Goto
  <2>2. pc'[t] = "idle" /\ tenant'[t] = None
        /\ \A u \in Threads \ {t} : pc'[u] = pc[u] /\ want'[u] = want[u] /\ tenant'[u] = tenant[u]
    BY <1>1, <2>1 DEF WellTyped
  <2>3. opened' \in [Threads -> 0..MaxBlocks]
    BY <1>1, <2>1, SessionsAssumption
  <2> QED BY <1>1, <1>2, <1>5, <2>1, <2>2, <2>3, LoopClose DEF AuthKinds
<1>6. CASE /\ Innermost(t).kind \notin {"lookup", "preflight"}
           /\ ~(t \in ApiThreads /\ Len(stack[t]) = 1 /\ Innermost(t).kind \in {"session", "cycle"})
  <2>1. UNCHANGED <<pc, tenant, want, opened, loop>>
    BY <1>6 DEF Leave
  <2> QED BY <1>1, <1>2, <1>6, <2>1, LoopClose DEF AuthKinds
<1> QED BY <1>3, <1>4, <1>5, <1>6

LEMMA LoopSkip ==
    ASSUME SInv, LInv, NEW t \in Threads, SkipCycle(t) \/ RollbackWithin(t)
    PROVE  LInv'
<1>1. ThreadFits(t) /\ WellTyped /\ opened \in [Threads -> 0..MaxBlocks]
  BY DEF LInv, SInv
<1>2. CASE SkipCycle(t)
  <2>1. /\ pc[t] = "lock" /\ stack' = [stack EXCEPT ![t] = Front(@)]
        /\ pc' = [pc EXCEPT ![t] = "idle"] /\ tenant' = [tenant EXCEPT ![t] = None]
        /\ opened' = [opened EXCEPT ![t] = 0] /\ UNCHANGED <<load, want, loop>>
    BY <1>2 DEF SkipCycle, Finish, Goto
  <2>2. stack[t] # <<>>
    BY <2>1, LockIsOne
  <2>3. ~HasAuth(t)
    BY <1>1, <2>1 DEF ThreadFits
  <2>4. opened' \in [Threads -> 0..MaxBlocks]
    BY <1>1, <2>1, SessionsAssumption
  <2>5. pc'[t] = "idle" /\ tenant'[t] = None
        /\ \A u \in Threads \ {t} : pc'[u] = pc[u] /\ want'[u] = want[u] /\ tenant'[u] = tenant[u]
    BY <1>1, <2>1 DEF WellTyped
  <2> QED BY <2>1, <2>2, <2>3, <2>4, <2>5, LoopClose
<1>3. CASE RollbackWithin(t)
  <2>1. /\ pc[t] = "run" /\ Len(stack[t]) = 1 /\ Innermost(t).kind = "session"
        /\ stack' = [stack EXCEPT ![t] = Front(@)]
        /\ pc' = [pc EXCEPT ![t] = "connect"] /\ want' = [want EXCEPT ![t] = "bare"]
        /\ UNCHANGED <<load, tenant, opened, loop>>
    BY <1>3 DEF RollbackWithin, Close, Request, Goto
  <2>2. stack[t] # <<>>
    <3>1. Len(<<>>) # 1
      OBVIOUS
    <3> QED BY <2>1, <3>1
  <2>3. ~HasAuth(t)
    BY <1>1, <2>1, <2>2, InnermostAuth DEF AuthKinds
  <2>4. pc'[t] = "connect" /\ want'[t] = "bare"
        /\ \A u \in Threads \ {t} : pc'[u] = pc[u] /\ want'[u] = want[u] /\ tenant'[u] = tenant[u]
    BY <1>1, <2>1 DEF WellTyped
  <2> QED BY <1>1, <2>1, <2>2, <2>3, <2>4, LoopClose
<1> QED BY <1>2, <1>3

\* An exception leaves the blocks; authentication has one only.
LEMMA LoopUnwind ==
    ASSUME SInv, LInv, NEW t \in Threads, Unwind(t), stack[t] # <<>>
    PROVE  LInv'
<1>1. /\ pc[t] = "raise" /\ stack' = [stack EXCEPT ![t] = Front(@)]
      /\ UNCHANGED <<load, want, tenant, opened, loop>>
      /\ \/ pc' = pc
         \/ Len(stack[t]) > 1 /\ pc' = [pc EXCEPT ![t] = "run"]
  BY DEF Unwind, Close, Goto
<1>2. ThreadFits(t) /\ WellTyped /\ opened \in [Threads -> 0..MaxBlocks]
  BY DEF LInv, SInv
<1>3. Len(stack[t]) > 1 => ~HasAuth(t)
  <2>1. HasAuth(t) => Len(stack[t]) = 1
    BY <1>2 DEF ThreadFits
  <2>2. ~(1 > 1)
    OBVIOUS
  <2> QED BY <2>1, <2>2
<1>4. /\ \A u \in Threads \ {t} : pc'[u] = pc[u] /\ want'[u] = want[u] /\ tenant'[u] = tenant[u]
      /\ pc'[t] = "raise" \/ (pc'[t] = "run" /\ ~HasAuth(t))
  BY <1>1, <1>2, <1>3 DEF WellTyped
<1> QED BY <1>1, <1>2, <1>4, LoopClose

\* The first request leaves the loop.
LEMMA FirstLeaves ==
    ASSUME LInv, NEW t \in Threads, OthersStay(t), loop # <<>>, loop[1] = t, loop' = Tail(loop),
           UNCHANGED load, opened' \in [Threads -> 0..MaxBlocks],
           pc'[t] # "arrived", ~Authenticating(t)', ThreadFits(t)'
    PROVE  LInv'
<1>1. \A u \in Threads \ {t} :
        /\ ThreadFits(u)' /\ (Authenticating(u)' <=> Authenticating(u)) /\ (Served(u)' <=> Served(u))
        /\ pc'[u] = pc[u]
  BY OthersFit
<1>2. /\ loop \in Seq(ApiThreads) /\ \A i \in 1..Len(loop) : loop[i] \in Threads
      /\ \A i, j \in 1..Len(loop) : loop[i] = loop[j] => i = j
  BY DEF LInv, LoopFits, Threads
<1>3. /\ loop' \in Seq(ApiThreads) /\ Len(loop) \in Nat /\ Len(loop') = Len(loop) - 1
      /\ \A i \in 1..Len(loop') : i + 1 \in 1..Len(loop) /\ loop'[i] = loop[i + 1]
  BY <1>2
<1>4. 1 \in 1..Len(loop)
  BY <1>2
<1>5. \A i \in 1..Len(loop') : loop'[i] \in Threads \ {t} /\ pc[loop'[i]] = "arrived"
  <2> SUFFICES ASSUME NEW i \in 1..Len(loop') PROVE loop'[i] \in Threads \ {t} /\ pc[loop'[i]] = "arrived"
    OBVIOUS
  <2>1. i + 1 \in 1..Len(loop) /\ loop'[i] = loop[i + 1] /\ i + 1 # 1
    BY <1>3
  <2>2. loop[i + 1] # t
    BY <1>2, <1>4, <2>1
  <2>3. pc[loop[i + 1]] = "arrived"
    BY <2>1 DEF LInv, LoopFits
  <2> QED BY <1>2, <2>1, <2>2, <2>3
<1>6. \A i, j \in 1..Len(loop') : loop'[i] = loop'[j] => i = j
  <2> SUFFICES ASSUME NEW i \in 1..Len(loop'), NEW j \in 1..Len(loop'), loop'[i] = loop'[j] PROVE i = j
    OBVIOUS
  <2>1. i + 1 = j + 1
    BY <1>2, <1>3
  <2> QED BY <1>3, <2>1
<1>7. \A u \in Threads : ~Authenticating(u)'
  <2>1. \A u \in Threads \ {t} : ~Authenticating(u)
    BY DEF LInv, LoopFits
  <2> QED BY <1>1, <2>1
<1>8. ASSUME NEW u \in Threads, pc'[u] = "arrived" PROVE \E i \in 1..Len(loop') : loop'[i] = u
  <2>1. u # t /\ pc[u] = "arrived"
    BY <1>1, <1>8
  <2>2. PICK i \in 1..Len(loop) : loop[i] = u
    BY <2>1 DEF LInv, LoopFits
  <2>3. i # 1
    BY <2>1, <2>2
  <2>4. i - 1 \in 1..Len(loop') /\ (i - 1) + 1 = i
    BY <1>3, <2>2, <2>3
  <2>5. loop'[i - 1] = u
    BY <1>3, <2>2, <2>4
  <2> QED BY <2>4, <2>5
<1>9. \A i \in 1..Len(loop') : pc'[loop'[i]] = "arrived"
  BY <1>1, <1>5
<1>10. LoopFits'
  BY <1>3, <1>6, <1>7, <1>8, <1>9 DEF LoopFits
<1> QED BY <1>1, <1>10 DEF LInv

\* resolve_tenant_from_key answers, or raises.
LEMMA LoopServed ==
    ASSUME SInv, LInv, NEW t \in Threads,
           \/ Leave(t) /\ Innermost(t).kind = "refresh"
           \/ Unwind(t) /\ stack[t] = <<>>
    PROVE  LInv'
<1>1. ThreadFits(t) /\ WellTyped /\ PlacesFit /\ opened \in [Threads -> 0..MaxBlocks] /\ loop \in Seq(ApiThreads)
  BY DEF LInv, SInv, LoopFits
<1>2. CASE Leave(t) /\ Innermost(t).kind = "refresh"
  <2>1. /\ pc[t] = "run" /\ stack[t] # <<>> /\ stack' = [stack EXCEPT ![t] = Front(@)]
        /\ pc' = [pc EXCEPT ![t] = "run"] /\ loop' = Tail(loop)
        /\ UNCHANGED <<load, tenant, want, opened>>
    BY <1>2 DEF Leave, Close, Goto
  <2>2. HasAuth(t)
    BY <1>1, <1>2, <2>1, InnermostAuth DEF AuthKinds
  <2>3. Authenticating(t)
    BY <2>1, <2>2 DEF Authenticating
  <2>4. loop # <<>> /\ loop[1] = t
    <3>1. Len(loop) > 0 /\ loop[1] = t
      BY <2>3 DEF LInv, LoopFits
    <3> QED BY <1>1, <3>1
  <2>5. /\ ~HasAuth(t)' /\ \A u \in Threads \ {t} : stack'[u] = stack[u]
    BY <1>1, <2>1, PoppedAuth
  <2>6. pc'[t] = "run" /\ OthersStay(t)
    BY <1>1, <2>1, <2>5 DEF OthersStay, WellTyped
  <2>7. ~Authenticating(t)' /\ ThreadFits(t)'
    BY <2>5, <2>6 DEF Authenticating, ThreadFits
  <2> QED BY <1>1, <2>1, <2>4, <2>6, <2>7, FirstLeaves
<1>3. CASE Unwind(t) /\ stack[t] = <<>>
  <2>1. /\ pc[t] = "raise" /\ LeaveLoop(t) /\ UNCHANGED <<load, want, stack>>
        /\ \/ /\ pc' = [pc EXCEPT ![t] = "idle"] /\ tenant' = [tenant EXCEPT ![t] = None]
              /\ opened' = [opened EXCEPT ![t] = 0]
           \/ pc' = [pc EXCEPT ![t] = "run"] /\ UNCHANGED <<tenant, opened>>
    BY <1>3 DEF Unwind, Finish, Goto
  <2>2. /\ OthersStay(t)
        /\ (pc'[t] = "idle" /\ tenant'[t] = None) \/ pc'[t] = "run"
    BY <1>1, <2>1 DEF OthersStay, WellTyped
  <2>3. opened' \in [Threads -> 0..MaxBlocks]
    BY <1>1, <2>1, SessionsAssumption
  <2>4. ~HasAuth(t)'
    BY <1>3, <2>1 DEF HasAuth
  <2>5. ~Authenticating(t)' /\ ThreadFits(t)'
    BY <2>2, <2>4 DEF Authenticating, ThreadFits
  <2>6. CASE loop # <<>> /\ loop[1] = t
    <3>1. loop' = Tail(loop)
      BY <2>1, <2>6 DEF LeaveLoop
    <3> QED BY <2>1, <2>2, <2>3, <2>5, <2>6, <3>1, FirstLeaves
  <2>7. CASE ~(loop # <<>> /\ loop[1] = t)
    <3>1. UNCHANGED loop
      BY <2>1, <2>7 DEF LeaveLoop
    <3> QED BY <2>1, <2>2, <2>3, <2>5, <2>7, <3>1, LoopKept
  <2> QED BY <2>6, <2>7
<1> QED BY <1>2, <1>3

LEMMA LoopAuthenticate ==
    ASSUME SInv, LInv, NEW t \in Threads, Authenticate(t)
    PROVE  LInv'
<1>1. ThreadFits(t) /\ WellTyped /\ PlacesFit /\ loop \in Seq(ApiThreads)
  BY DEF LInv, SInv, LoopFits
<1>2. /\ pc[t] = "arrived" /\ Head(loop) = t
      /\ pc' = [pc EXCEPT ![t] = "connect"] /\ want' = [want EXCEPT ![t] = "lookup"]
      /\ UNCHANGED <<load, tenant, stack, opened, loop>>
  BY DEF Authenticate, Request, Goto
<1>3. Len(loop) > 0 /\ loop[1] = t
  <2>1. \E i \in 1..Len(loop) : loop[i] = t
    BY <1>2 DEF LInv, LoopFits
  <2> QED BY <1>1, <1>2, <2>1
<1>4. /\ OthersStay(t) /\ pc'[t] = "connect" /\ want'[t] = "lookup" /\ stack[t] = <<>>
  BY <1>1, <1>2 DEF OthersStay, WellTyped, PlacesFit
<1>5. ThreadFits(t)' /\ Served(t)'
  <2>1. ~HasAuth(t)'
    BY <1>2, <1>4 DEF HasAuth
  <2> QED BY <1>2, <1>4, <2>1 DEF ThreadFits, Served, Authenticating, AuthKinds
<1>6. \A u \in Threads \ {t} :
        /\ ThreadFits(u)' /\ (Authenticating(u)' <=> Authenticating(u)) /\ (Served(u)' <=> Served(u))
        /\ pc'[u] = pc[u]
  BY <1>4, OthersFit
<1>7. \A i \in 1..Len(loop) : pc'[loop[i]] = "arrived" \/ (i = 1 /\ Served(loop[i])')
  <2> SUFFICES ASSUME NEW i \in 1..Len(loop) PROVE pc'[loop[i]] = "arrived" \/ (i = 1 /\ Served(loop[i])')
    OBVIOUS
  <2>1. PICK u \in Threads : u = loop[i]
    BY <1>1 DEF Threads
  <2>2. CASE u = t
    <3>1. i = 1
      <4>1. 1 \in 1..Len(loop) /\ loop[i] = loop[1]
        BY <1>1, <1>3, <2>1, <2>2
      <4>2. \A k, l \in 1..Len(loop) : loop[k] = loop[l] => k = l
        BY DEF LInv, LoopFits
      <4> QED BY <4>1, <4>2
    <3> QED BY <1>2, <1>5, <2>1, <2>2, <3>1
  <2>3. CASE u # t
    <3>1. i # 1
      BY <1>3, <2>1, <2>3
    <3>2. pc[u] = "arrived"
      BY <2>1, <3>1 DEF LInv, LoopFits
    <3> QED BY <1>6, <2>1, <2>3, <3>2
  <2> QED BY <2>2, <2>3
<1>8. ASSUME NEW u \in Threads
      PROVE  /\ Authenticating(u)' => Len(loop) > 0 /\ loop[1] = u
             /\ pc'[u] = "arrived" => \E i \in 1..Len(loop) : loop[i] = u
  <2>1. CASE u = t
    BY <1>3, <1>4, <2>1
  <2>2. CASE u # t
    BY <1>6, <2>2 DEF LInv, LoopFits
  <2> QED BY <2>1, <2>2
<1>9. LoopFits'
  BY <1>2, <1>7, <1>8 DEF LInv, LoopFits
<1> QED BY <1>2, <1>5, <1>6, <1>9 DEF LInv

LEMMA LoopArrive ==
    ASSUME SInv, LInv, NEW t \in Threads, NEW m \in Tenants, Arrive(t, m)
    PROVE  LInv'
<1>1. ThreadFits(t) /\ WellTyped /\ PlacesFit /\ loop \in Seq(ApiThreads) /\ opened \in [Threads -> 0..MaxBlocks]
  BY DEF LInv, SInv, LoopFits
<1>2. pc[t] = "idle" /\ UNCHANGED <<load, stack, want, opened>> /\ tenant' = [tenant EXCEPT ![t] = m]
  BY DEF Arrive
<1>3. ~HasAuth(t)' /\ stack[t] = <<>>
  BY <1>1, <1>2 DEF PlacesFit, HasAuth
<1>4. CASE t \notin ApiThreads
  <2>1. pc' = [pc EXCEPT ![t] = "run"] /\ UNCHANGED loop
    BY <1>4 DEF Arrive, Goto
  <2>2. OthersStay(t) /\ pc'[t] = "run"
    BY <1>1, <1>2, <2>1 DEF OthersStay, WellTyped
  <2>3. ThreadFits(t)' /\ ~Authenticating(t)'
    BY <1>3, <2>2 DEF ThreadFits, Authenticating
  <2>4. ~Served(t)
    BY <1>2 DEF Served, Authenticating
  <2> QED BY <1>1, <1>2, <2>1, <2>2, <2>3, <2>4, LoopKept
<1>5. CASE t \in ApiThreads
  <2>1. pc' = [pc EXCEPT ![t] = "arrived"] /\ loop' = Append(loop, t)
    BY <1>5 DEF Arrive, Goto
  <2>2. OthersStay(t) /\ pc'[t] = "arrived"
    BY <1>1, <1>2, <2>1 DEF OthersStay, WellTyped
  <2>3. ThreadFits(t)' /\ ~Authenticating(t)'
    BY <1>3, <2>2 DEF ThreadFits, Authenticating
  <2>4. \A u \in Threads \ {t} :
          /\ ThreadFits(u)' /\ (Authenticating(u)' <=> Authenticating(u)) /\ (Served(u)' <=> Served(u))
          /\ pc'[u] = pc[u]
    BY <2>2, OthersFit
  <2>5. /\ loop' \in Seq(ApiThreads) /\ Len(loop) \in Nat /\ Len(loop') = Len(loop) + 1
        /\ \A i \in 1..Len(loop) : loop'[i] = loop[i] /\ i \in 1..Len(loop')
        /\ loop'[Len(loop) + 1] = t
        /\ \A i \in 1..Len(loop') : i \in 1..Len(loop) \/ i = Len(loop) + 1
    BY <1>1, <1>5, <2>1
  <2>6. \A i \in 1..Len(loop) : loop[i] \in Threads \ {t}
    <3>1. ~Served(t)
      BY <1>2 DEF Served, Authenticating
    <3> QED BY <1>1, <1>2, <3>1 DEF LInv, LoopFits, Threads
  <2>7. \A i, j \in 1..Len(loop') : loop'[i] = loop'[j] => i = j
    <3> SUFFICES ASSUME NEW i \in 1..Len(loop'), NEW j \in 1..Len(loop'), loop'[i] = loop'[j] PROVE i = j
      OBVIOUS
    <3>1. CASE i \in 1..Len(loop) /\ j \in 1..Len(loop)
      <4>1. loop[i] = loop[j]
        BY <2>5, <3>1
      <4> QED BY <3>1, <4>1 DEF LInv, LoopFits
    <3>2. CASE i = Len(loop) + 1 /\ j = Len(loop) + 1
      BY <3>2
    <3>3. CASE \/ i \in 1..Len(loop) /\ j = Len(loop) + 1
               \/ j \in 1..Len(loop) /\ i = Len(loop) + 1
      BY <2>5, <2>6, <3>3
    <3> QED BY <2>5, <3>1, <3>2, <3>3
  <2>8. \A i \in 1..Len(loop') : pc'[loop'[i]] = "arrived" \/ (i = 1 /\ Served(loop[i])')
    <3> SUFFICES ASSUME NEW i \in 1..Len(loop')
                 PROVE  pc'[loop'[i]] = "arrived" \/ (i = 1 /\ \E u \in Threads : u = loop'[i] /\ Served(u)')
      BY <2>5
    <3>1. CASE i \in 1..Len(loop)
      <4>1. PICK u \in Threads \ {t} : u = loop[i]
        BY <2>6, <3>1
      <4>2. pc[u] = "arrived" \/ (i = 1 /\ Served(u))
        BY <3>1, <4>1 DEF LInv, LoopFits
      <4>3. loop'[i] = u
        BY <2>5, <3>1, <4>1
      <4> QED BY <2>4, <4>2, <4>3
    <3>2. CASE i = Len(loop) + 1
      BY <2>2, <2>5, <3>2
    <3> QED BY <2>5, <3>1, <3>2
  <2>9. ASSUME NEW u \in Threads
        PROVE  /\ Authenticating(u)' => Len(loop') > 0 /\ loop'[1] = u
               /\ pc'[u] = "arrived" => \E i \in 1..Len(loop') : loop'[i] = u
    <3>1. CASE u = t
      BY <2>3, <2>5, <3>1
    <3>2. CASE u # t
      <4>1. Authenticating(u)' => Len(loop) > 0 /\ loop[1] = u
        BY <2>4, <3>2 DEF LInv, LoopFits
      <4>2. pc'[u] = "arrived" => \E i \in 1..Len(loop) : loop[i] = u
        BY <2>4, <3>2 DEF LInv, LoopFits
      <4> QED BY <2>5, <4>1, <4>2
    <3> QED BY <3>1, <3>2
  <2>10. LoopFits'
    BY <2>5, <2>7, <2>8, <2>9 DEF LoopFits
  <2> QED BY <1>1, <1>2, <2>3, <2>4, <2>10 DEF LInv
<1> QED BY <1>4, <1>5

LEMMA LoopInvariant == Spec => [](SInv /\ LInv)
<1>1. Init => LInv
  <2> SUFFICES ASSUME Init PROVE LInv
    OBVIOUS
  <2>1. \A t \in Threads : stack[t] = <<>> /\ pc[t] = "idle" /\ tenant[t] = None
    BY DEF Init
  <2>2. \A t \in Threads : ThreadFits(t) /\ ~Authenticating(t)
    BY <2>1 DEF ThreadFits, Authenticating, HasAuth
  <2>3. LoopFits
    BY <2>1, <2>2 DEF Init, LoopFits
  <2>4. opened \in [Threads -> 0..MaxBlocks]
    BY SessionsAssumption DEF Init
  <2> QED BY <2>2, <2>3, <2>4 DEF Init, LInv
<1>2. SInv /\ LInv /\ [Next]_vars => LInv'
  <2> SUFFICES ASSUME SInv, LInv, [Next]_vars PROVE LInv'
    OBVIOUS
  <2>1. CASE UNCHANGED <<load, pc, tenant, stack, want, opened, loop>>
    BY <2>1 DEF LInv, LoopFits, ThreadFits, Served, Authenticating, HasAuth
  <2>2. ASSUME NEW t \in Threads, Step(t) PROVE LInv'
    <3>1. CASE Unwind(t)
      BY <3>1, LoopUnwind, LoopServed
    <3>2. CASE Leave(t)
      BY <3>2, LoopLeave, LoopServed
    <3> QED BY <2>2, <3>1, <3>2, LoopAuthenticate, LoopCheckOut, LoopQuiet, LoopSkip DEF Step
  <2>3. ASSUME NEW t \in Threads, NEW m \in Tenants, Arrive(t, m) PROVE LInv'
    BY <2>3, LoopArrive
  <2> QED BY <2>1, <2>2, <2>3 DEF Next, Lose, vars
<1> QED BY <1>1, <1>2, Invariant, PTL DEF Spec

\* No connection serves two blocks, a thread that has answered holds none, and the
\* event loop has each request once (db.py:90-108, api/auth.py:83-106).
THEOREM TypeCorrect == Spec => []TypeOK
<1>1. SInv /\ LInv => TypeOK
  <2> SUFFICES ASSUME SInv, LInv PROVE TypeOK
    OBVIOUS
  <2>1. \A t \in Threads : stack[t] \in Seq(Records(t))
    BY DEF SInv, WellTyped
  <2>2. ASSUME NEW t \in Threads
        PROVE  /\ ToSet(stack[t]) \subseteq [kind: Kinds, conn: Pool(t)]
               /\ pc[t] = "idle" => stack[t] = <<>> /\ tenant[t] = None
    <3>1. ToSet(stack[t]) \subseteq Records(t)
      BY <2>1 DEF ToSet
    <3> QED BY <3>1 DEF Records, SInv, PlacesFit, LInv, ThreadFits
  <2>3. ASSUME NEW b \in Blocks, NEW d \in Blocks, IsOpen(b), IsOpen(d),
               stack[b.thread][b.at].conn = stack[d.thread][d.at].conn
        PROVE  b = d
    <3>1. PICK t \in Threads, i \in 1..3 : b = [thread |-> t, at |-> i]
      BY DEF Blocks
    <3>2. PICK u \in Threads, j \in 1..3 : d = [thread |-> u, at |-> j]
      BY DEF Blocks
    <3>3. i \in 1..Len(stack[t]) /\ j \in 1..Len(stack[u])
      BY <2>1, <2>3, <3>1, <3>2 DEF IsOpen
    <3> QED BY <2>3, <3>1, <3>2, <3>3 DEF SInv, OwnConnections
  <2>4. loop \in Seq(ApiThreads) /\ IsInjective(loop)
    BY DEF LInv, LoopFits, IsInjective
  <2> QED BY <2>2, <2>3, <2>4 DEF TypeOK, SInv, WellTyped, LInv
<1> QED BY <1>1, LoopInvariant, PTL
=============================================================================
