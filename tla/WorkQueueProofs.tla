-------------------------- MODULE WorkQueueProofs --------------------------
(***************************************************************************)
(* For any number of clients, workers, messages, failures and reviews: what *)
(* a client that polls its request sees is what ActionRequests promises.    *)
(***************************************************************************)
EXTENDS WorkQueue, FiniteSetTheorems, SequenceTheorems, TLAPS

(***************************************************************************)
(* The inductive invariant.                                                *)
(***************************************************************************)
Places == {"idle", "read", "mark", "execute", "executing", "reject", "record", "evaluate", "delete"}

WellTyped ==
    /\ covers \in Coverage /\ forbidden \in ForbiddenSets
    /\ apc \in [Clients -> {"idle", "insert", "publish"}]
    /\ akey \in [Clients -> Keys \cup {None}]
    /\ row \in [Keys -> {"none", "pending", "processing"} \cup Settled]
    /\ queue \in Seq(Keys)
    /\ dlq \subseteq Keys
    /\ receiver \in [Keys -> Workers \cup {None}]
    /\ receives \in [Keys -> 0..MaxReceive]
    /\ wpc \in [Workers -> Places]
    /\ batch \in [Workers -> Seq(Keys)]
    /\ outcome \in [Workers -> Settled \cup {None}]
    /\ claim \in [Keys -> {"none", "in_progress", "executed", "refused", "failed"}]
    /\ review \in [Keys -> {"none", "open", "closed"}]
    /\ evaluated \in [Keys -> Seq(Settled)]
    /\ effects \in [Keys -> 0..1]
    /\ \A a \in Clients : apc[a] # "idle" => akey[a] \in Keys
    /\ \A w \in Workers :
          /\ wpc[w] # "idle" => batch[w] # <<>>
          /\ wpc[w] \in {"record", "evaluate"} => outcome[w] \in Settled

\* A message is of a row that is committed, and is published once.
MessagesAreOfRows ==
    /\ \A i \in 1..Len(queue) : row[queue[i]] # "none"
    /\ \A i, j \in 1..Len(queue) : queue[i] = queue[j] => i = j
    /\ \A a \in Clients : apc[a] = "publish" =>
          /\ row[akey[a]] # "none"
          /\ \A i \in 1..Len(queue) : queue[i] # akey[a]
    /\ \A a, b \in Clients :
          apc[a] = "publish" /\ apc[b] = "publish" /\ akey[a] = akey[b] => a = b
    /\ \A w \in Workers : \A i \in 1..Len(batch[w]) : row[batch[w][i]] # "none"

\* The claim of a key is taken once, so one tool call writes for it, and what is
\* said to be completed was written.
OneChange ==
    /\ \A k \in Keys :
          /\ claim[k] = "none" => effects[k] = 0
          /\ claim[k] = "executed" => effects[k] = 1
          /\ k \in forbidden => claim[k] = "none"
          /\ \A i \in 1..Len(evaluated[k]) : evaluated[k][i] = "completed" => effects[k] = 1
    /\ \A w \in Workers :
          /\ wpc[w] = "executing" => claim[Current(w)] # "none" /\ effects[Current(w)] = 0
          /\ wpc[w] \in {"record", "evaluate"} /\ outcome[w] = "completed" =>
                effects[Current(w)] = 1
    /\ \A w, v \in Workers :
          wpc[w] = "executing" /\ wpc[v] = "executing" /\ Current(w) = Current(v) => w = v

\* While the visibility timeout covers a batch, one worker has messages, with
\* their receipts.
HeldByOne ==
    covers =>
        /\ \A w, v \in Workers : wpc[w] # "idle" /\ wpc[v] # "idle" => w = v
        /\ \A w \in Workers : wpc[w] # "idle" =>
              /\ \A i \in 1..Len(batch[w]) : receiver[batch[w][i]] = w
              /\ \A i, j \in 1..Len(batch[w]) : batch[w][i] = batch[w][j] => i = j

\* Nothing was changed, unless the reviewer did it.
UntouchedByWorker(k) == effects[k] = 0 \/ review[k] # "none"

\* A request then goes through the handler once.
HandledOnce ==
    covers =>
        /\ \A k \in Keys :
              /\ row[k] \in {"none", "pending"} => claim[k] = "none"
              /\ row[k] \in {"none", "pending", "processing"} => evaluated[k] = <<>>
              /\ Len(evaluated[k]) <= 1
        /\ \A w \in Workers :
              /\ wpc[w] = "mark" => row[Current(w)] = "pending"
              /\ wpc[w] \in {"execute", "executing", "reject", "record"} =>
                    row[Current(w)] = "processing"
              /\ wpc[w] = "execute" => claim[Current(w)] = "none"
              /\ wpc[w] = "reject" => UntouchedByWorker(Current(w))
              /\ wpc[w] = "record" /\ outcome[w] = "failed" => UntouchedByWorker(Current(w))
              /\ wpc[w] = "evaluate" =>
                    row[Current(w)] \in Settled /\ evaluated[Current(w)] = <<>>

QInv == WellTyped /\ MessagesAreOfRows /\ OneChange /\ HeldByOne /\ HandledOnce

\* A call that asks a reviewer writes nothing by itself and is not completed, so
\* an open request for approval is of a key for which nothing was changed.
ReviewerActsAlone ==
    /\ \A k \in Keys :
          /\ claim[k] \in {"none", "executed"} => review[k] = "none"
          /\ review[k] = "open" => effects[k] = 0
    /\ \A w \in Workers :
          \/ wpc[w] = "executing"
          \/ wpc[w] \in {"record", "evaluate"} /\ outcome[w] = "completed"
          => review[Current(w)] = "none"

WInv == QInv /\ ReviewerActsAlone

(***************************************************************************)
(* Messages and batches.                                                   *)
(***************************************************************************)
LEMMA CurrentIsKey ==
    ASSUME WellTyped, NEW w \in Workers, wpc[w] # "idle"
    PROVE  /\ Len(batch[w]) \in Nat /\ 1 \in 1..Len(batch[w])
           /\ Current(w) = batch[w][1] /\ Current(w) \in Keys
<1>1. batch[w] \in Seq(Keys) /\ batch[w] # <<>>
  BY DEF WellTyped
<1>2. Len(batch[w]) \in Nat /\ Len(batch[w]) # 0
  BY <1>1
<1> QED BY <1>1, <1>2 DEF Current

\* A worker goes on to the next message of its batch.
LEMMA Shortened ==
    ASSUME WellTyped, NEW w \in Workers, wpc[w] # "idle", NextMessage(w)
    PROVE  /\ wpc' \in [Workers -> Places]
           /\ batch' \in [Workers -> Seq(Keys)]
           /\ outcome' \in [Workers -> Settled \cup {None}]
           /\ wpc'[w] \in {"idle", "read"} /\ (wpc'[w] # "idle" => batch'[w] # <<>>)
           /\ \A v \in Workers \ {w} :
                 wpc'[v] = wpc[v] /\ batch'[v] = batch[v] /\ outcome'[v] = outcome[v]
           /\ \A i \in 1..Len(batch'[w]) :
                 i + 1 \in 1..Len(batch[w]) /\ batch'[w][i] = batch[w][i + 1]
<1>1. batch[w] \in Seq(Keys) /\ batch[w] # <<>>
  BY DEF WellTyped
<1>2. batch'[w] = Tail(batch[w])
  BY DEF NextMessage, WellTyped
<1>3. /\ Tail(batch[w]) \in Seq(Keys) /\ Len(batch[w]) \in Nat
      /\ Len(Tail(batch[w])) = Len(batch[w]) - 1
      /\ \A i \in 1..Len(Tail(batch[w])) : Tail(batch[w])[i] = batch[w][i + 1]
  BY <1>1
<1>4. /\ wpc' \in [Workers -> Places]
      /\ wpc'[w] = IF Len(batch[w]) > 1 THEN "read" ELSE "idle"
      /\ batch' \in [Workers -> Seq(Keys)]
      /\ outcome' \in [Workers -> Settled \cup {None}]
      /\ \A v \in Workers \ {w} :
            wpc'[v] = wpc[v] /\ batch'[v] = batch[v] /\ outcome'[v] = outcome[v]
  BY <1>3 DEF NextMessage, WellTyped, Places
<1>5. wpc'[w] # "idle" => batch'[w] # <<>>
  <2>1. wpc'[w] # "idle" => Len(batch'[w]) # 0
    BY <1>2, <1>3, <1>4
  <2>2. Len(<<>>) = 0
    OBVIOUS
  <2> QED BY <2>1, <2>2
<1> QED BY <1>2, <1>3, <1>4, <1>5

\* A worker starts again.
LEMMA Emptied ==
    ASSUME WellTyped, NEW w \in Workers, Restarted(w)
    PROVE  /\ wpc' \in [Workers -> Places]
           /\ batch' \in [Workers -> Seq(Keys)]
           /\ outcome' \in [Workers -> Settled \cup {None}]
           /\ wpc'[w] = "idle" /\ \A i \in 1..Len(batch'[w]) : FALSE
           /\ \A v \in Workers \ {w} :
                 wpc'[v] = wpc[v] /\ batch'[v] = batch[v] /\ outcome'[v] = outcome[v]
BY DEF Restarted, WellTyped, Places

\* A removed element leaves the others as they are.
LEMMA RemovedAt ==
    ASSUME NEW q \in Seq(Keys), NEW n \in 1..Len(q)
    PROVE  /\ RemoveAt(q, n) \in Seq(Keys)
           /\ Len(RemoveAt(q, n)) = Len(q) - 1
           /\ \A i \in 1..(n - 1) : RemoveAt(q, n)[i] = q[i]
           /\ \A i \in n..(Len(q) - 1) : RemoveAt(q, n)[i] = q[i + 1]
<1> DEFINE m == Len(q)
           front == SubSeq(q, 1, n - 1)
           back == SubSeq(q, n + 1, m)
<1>1. m \in Nat /\ n \in Int /\ 1 <= n /\ n <= m /\ \A i \in 1..m : q[i] \in Keys
  OBVIOUS
<1> HIDE DEF m
<1>2. /\ front \in Seq(Keys) /\ Len(front) = n - 1
      /\ \A i \in 1..(n - 1) : front[i] = q[i]
  <2>1. \A i \in 1..(n - 1) : q[i] \in Keys
    BY <1>1
  <2>2. /\ front \in Seq(Keys) /\ Len(front) = IF 1 <= n - 1 THEN (n - 1) - 1 + 1 ELSE 0
        /\ \A i \in 1..((n - 1) - 1 + 1) : front[i] = q[1 + i - 1]
    BY <1>1, <2>1, SubSeqProperties
  <2> HIDE DEF front
  <2>3. (n - 1) - 1 + 1 = n - 1 /\ \A i \in Nat : 1 + i - 1 = i
    BY <1>1
  <2> QED BY <1>1, <2>2, <2>3
<1>3. /\ back \in Seq(Keys) /\ Len(back) = m - n
      /\ \A i \in 1..(m - n) : back[i] = q[n + i]
  <2>1. \A i \in (n + 1)..m : q[i] \in Keys
    BY <1>1
  <2>2. /\ back \in Seq(Keys) /\ Len(back) = IF n + 1 <= m THEN m - (n + 1) + 1 ELSE 0
        /\ \A i \in 1..(m - (n + 1) + 1) : back[i] = q[(n + 1) + i - 1]
    BY <1>1, <2>1, SubSeqProperties
  <2> HIDE DEF back
  <2>3. m - (n + 1) + 1 = m - n /\ \A i \in Nat : (n + 1) + i - 1 = n + i
    BY <1>1
  <2> QED BY <1>1, <2>2, <2>3
<1>4. RemoveAt(q, n) = front \o back
  BY DEF RemoveAt, m
<1> HIDE DEF front, back
<1>5. /\ front \o back \in Seq(Keys) /\ Len(front \o back) = Len(front) + Len(back)
      /\ \A i \in 1..(Len(front) + Len(back)) :
            (front \o back)[i] = IF i <= Len(front) THEN front[i] ELSE back[i - Len(front)]
  BY <1>2, <1>3, ConcatProperties
<1> DEFINE r == front \o back
<1> HIDE DEF r
<1>6. /\ r \in Seq(Keys) /\ Len(r) = m - 1
      /\ \A i \in 1..(m - 1) : r[i] = IF i <= n - 1 THEN front[i] ELSE back[i - (n - 1)]
  BY <1>1, <1>2, <1>3, <1>5 DEF r
<1>7. \A i \in 1..(n - 1) : r[i] = q[i]
  BY <1>1, <1>2, <1>6
<1>8. ASSUME NEW i \in n..(m - 1) PROVE r[i] = q[i + 1]
  <2>1. i \in 1..(m - 1) /\ ~(i <= n - 1) /\ i - (n - 1) \in 1..(m - n) /\ n + (i - (n - 1)) = i + 1
    BY <1>1
  <2>2. r[i] = back[i - (n - 1)]
    BY <1>6, <2>1
  <2>3. back[i - (n - 1)] = q[n + (i - (n - 1))]
    BY <1>3, <2>1
  <2> QED BY <2>1, <2>2, <2>3
<1> QED BY <1>4, <1>6, <1>7, <1>8 DEF r, m

LEMMA Removed ==
    ASSUME WellTyped, NEW k \in Keys, queue' = Without(queue, k)
    PROVE  /\ queue' \in Seq(Keys)
           /\ \A i \in 1..Len(queue') : \E j \in 1..Len(queue) : queue'[i] = queue[j]
           /\ (\A i, j \in 1..Len(queue) : queue[i] = queue[j] => i = j) =>
                 \A i, j \in 1..Len(queue') : queue'[i] = queue'[j] => i = j
<1> DEFINE here == {i \in 1..Len(queue) : queue[i] = k}
           n == CHOOSE i \in here : TRUE
<1>1. queue \in Seq(Keys) /\ Len(queue) \in Nat
  BY DEF WellTyped
<1>2. CASE here = {}
  <2>1. queue' = queue
    BY <1>2 DEF Without
  <2> QED BY <1>1, <2>1
<1>3. CASE here # {}
  <2>1. n \in here /\ queue' = RemoveAt(queue, n)
    BY <1>3 DEF Without
  <2>2. n \in 1..Len(queue)
    BY <2>1
  <2> HIDE DEF n
  <2>3. /\ queue' \in Seq(Keys) /\ Len(queue') = Len(queue) - 1
        /\ \A i \in 1..(n - 1) : queue'[i] = queue[i]
        /\ \A i \in n..(Len(queue) - 1) : queue'[i] = queue[i + 1]
    BY <1>1, <2>1, <2>2, RemovedAt
  <2>4. ASSUME NEW i \in 1..Len(queue')
        PROVE  \/ i \in 1..(n - 1) /\ i \in 1..Len(queue) /\ queue'[i] = queue[i]
               \/ i \in n..(Len(queue) - 1) /\ i + 1 \in 1..Len(queue) /\ queue'[i] = queue[i + 1]
    BY <1>1, <2>2, <2>3
  <2>5. \A i \in 1..Len(queue') : \E j \in 1..Len(queue) : queue'[i] = queue[j]
    BY <2>4
  <2>6. ASSUME \A i, j \in 1..Len(queue) : queue[i] = queue[j] => i = j,
               NEW i \in 1..Len(queue'), NEW j \in 1..Len(queue'), queue'[i] = queue'[j]
        PROVE  i = j
    BY <1>1, <2>2, <2>4, <2>6
  <2> QED BY <2>3, <2>5, <2>6
<1> QED BY <1>2, <1>3

(***************************************************************************)
(* Submission.                                                             *)
(***************************************************************************)
LEMMA Initially ==
    ASSUME Init
    PROVE  WInv
<1>1. WellTyped
  BY BoundsAssumption DEF BoundsAssumption, Init, WellTyped, Places, Settled
<1>2. MessagesAreOfRows
  BY DEF Init, MessagesAreOfRows
<1>3. OneChange /\ HeldByOne /\ HandledOnce
  BY DEF Init, OneChange, HeldByOne, HandledOnce
<1>4. ReviewerActsAlone
  BY DEF Init, ReviewerActsAlone
<1> QED BY <1>1, <1>2, <1>3, <1>4 DEF WInv, QInv

\* What the worker's side keeps while rows appear and messages are published.
LEMMA WorkersUndisturbed ==
    ASSUME QInv, UNCHANGED <<setting, worker, claim, review, evaluated, effects, receiver>>,
           row' \in [Keys -> {"none", "pending", "processing"} \cup Settled],
           \A k \in Keys : row'[k] = row[k] \/ (row[k] = "none" /\ row'[k] = "pending")
    PROVE  OneChange' /\ HeldByOne' /\ HandledOnce'
<1> USE DEF QInv, UntouchedByWorker, setting, worker
<1>1. \A w \in Workers : Current(w)' = Current(w)
  BY DEF Current
<1>2. OneChange'
  BY <1>1 DEF OneChange
<1>3. HeldByOne'
  BY DEF HeldByOne
<1>4. ASSUME NEW w \in Workers, wpc[w] # "idle" PROVE row'[Current(w)] = row[Current(w)]
  <2>1. row[Current(w)] # "none" /\ Current(w) \in Keys
    BY <1>4, CurrentIsKey DEF MessagesAreOfRows
  <2> QED BY <2>1
<1>5. HandledOnce'
  <2> SUFFICES ASSUME covers PROVE HandledOnce'
    BY DEF HandledOnce
  <2>1. ASSUME NEW k \in Keys
        PROVE  /\ row'[k] \in {"none", "pending"} => claim[k] = "none"
               /\ row'[k] \in {"none", "pending", "processing"} => evaluated[k] = <<>>
               /\ Len(evaluated[k]) <= 1
    BY DEF HandledOnce
  <2>2. ASSUME NEW w \in Workers
        PROVE  /\ wpc[w] = "mark" => row'[Current(w)] = "pending"
               /\ wpc[w] \in {"execute", "executing", "reject", "record"} =>
                     row'[Current(w)] = "processing"
               /\ wpc[w] = "evaluate" => row'[Current(w)] \in Settled
    BY <1>4 DEF HandledOnce
  <2> QED BY <1>1, <2>1, <2>2 DEF HandledOnce
<1> QED BY <1>2, <1>3, <1>5

LEMMA SubmissionStep ==
    ASSUME QInv, NEW a \in Clients,
           \/ \E k \in Keys : Submit(a, k)
           \/ InsertRow(a) \/ InsertConflict(a) \/ Publish(a) \/ PublishFails(a)
    PROVE  QInv'
<1> USE DEF QInv, UntouchedByWorker, Respond, setting, worker, sqs
<1>1. CASE (\E k \in Keys : Submit(a, k)) \/ InsertConflict(a) \/ PublishFails(a)
  <2>1. UNCHANGED <<setting, row, sqs, worker, claim, review, evaluated, effects>>
    BY <1>1 DEF Submit, InsertConflict, PublishFails
  <2>2. WellTyped' /\ apc'[a] # "publish" /\ \A b \in Clients \ {a} : apc'[b] = apc[b] /\ akey'[b] = akey[b]
    <3>1. CASE \E k \in Keys : Submit(a, k)
      <4>1. PICK k \in Keys : Submit(a, k)
        BY <3>1
      <4>2. CASE row[k] # "none"
        BY <4>1, <4>2 DEF Submit, WellTyped
      <4>3. CASE row[k] = "none"
        <5>1. /\ apc' = [apc EXCEPT ![a] = "insert"] /\ akey' = [akey EXCEPT ![a] = k]
              /\ UNCHANGED <<setting, row, sqs, worker, claim, review, evaluated, effects>>
          BY <4>1, <4>3 DEF Submit
        <5> QED BY <5>1 DEF WellTyped
      <4> QED BY <4>2, <4>3
    <3>2. CASE InsertConflict(a)
      BY <3>2 DEF InsertConflict, WellTyped
    <3>3. CASE PublishFails(a)
      BY <3>3 DEF PublishFails, WellTyped
    <3> QED BY <1>1, <3>1, <3>2, <3>3
  <2>3. MessagesAreOfRows'
    BY <2>1, <2>2 DEF MessagesAreOfRows
  <2>4. OneChange' /\ HeldByOne' /\ HandledOnce'
    BY <2>1, WorkersUndisturbed DEF WellTyped
  <2> QED BY <2>2, <2>3, <2>4
<1>2. CASE InsertRow(a)
  <2>1. /\ akey[a] \in Keys /\ row[akey[a]] = "none" /\ row' = [row EXCEPT ![akey[a]] = "pending"]
        /\ apc' = [apc EXCEPT ![a] = "publish"]
        /\ UNCHANGED <<setting, akey, sqs, worker, claim, review, evaluated, effects>>
    BY <1>2 DEF InsertRow, WellTyped
  <2>2. WellTyped'
    BY <2>1 DEF WellTyped
  <2>3. \A k \in Keys : row[k] # "none" => row'[k] # "none"
    BY <2>1 DEF WellTyped
  <2>4. MessagesAreOfRows'
    <3>1. \A i \in 1..Len(queue) : queue[i] # akey[a] /\ row'[queue[i]] # "none"
      BY <2>1, <2>3 DEF MessagesAreOfRows, WellTyped
    <3>2. \A b \in Clients : apc'[b] = "publish" /\ b # a =>
             /\ apc[b] = "publish" /\ akey[b] # akey[a] /\ row'[akey[b]] # "none"
      BY <2>1, <2>3 DEF MessagesAreOfRows, WellTyped
    <3>3. \A w \in Workers : \A i \in 1..Len(batch[w]) : row'[batch[w][i]] # "none"
      BY <2>1, <2>3 DEF MessagesAreOfRows, WellTyped
    <3>4. row'[akey[a]] # "none"
      BY <2>1 DEF WellTyped
    <3> QED BY <2>1, <3>1, <3>2, <3>3, <3>4 DEF MessagesAreOfRows
  <2>5. OneChange' /\ HeldByOne' /\ HandledOnce'
    BY <2>1, WorkersUndisturbed DEF WellTyped
  <2> QED BY <2>2, <2>4, <2>5
<1>3. CASE Publish(a)
  <2>1. /\ apc[a] = "publish" /\ akey[a] \in Keys
        /\ queue' = Append(queue, akey[a])
        /\ apc' = [apc EXCEPT ![a] = "idle"] /\ akey' = [akey EXCEPT ![a] = None]
        /\ UNCHANGED <<setting, row, dlq, receiver, receives, worker, claim, review, evaluated, effects>>
    BY <1>3 DEF Publish, WellTyped
  <2>2. /\ Len(queue) \in Nat /\ Len(queue') = Len(queue) + 1
        /\ \A i \in 1..Len(queue) : queue'[i] = queue[i]
        /\ queue'[Len(queue) + 1] = akey[a]
        /\ queue' \in Seq(Keys)
    BY <2>1 DEF WellTyped
  <2>3. WellTyped'
    BY <2>1, <2>2 DEF WellTyped
  <2>4. MessagesAreOfRows'
    <3>1. ASSUME NEW i \in 1..Len(queue')
          PROVE  \/ i = Len(queue) + 1 /\ queue'[i] = akey[a]
                 \/ i \in 1..Len(queue) /\ queue'[i] = queue[i] /\ queue[i] # akey[a]
      BY <2>1, <2>2 DEF MessagesAreOfRows
    <3>2. /\ \A i \in 1..Len(queue') : row[queue'[i]] # "none"
          /\ \A i, j \in 1..Len(queue') : queue'[i] = queue'[j] => i = j
      BY <2>1, <3>1 DEF MessagesAreOfRows
    <3>3. \A b \in Clients : apc'[b] = "publish" =>
             b # a /\ apc[b] = "publish" /\ akey'[b] = akey[b] /\ akey[b] # akey[a]
      BY <2>1 DEF MessagesAreOfRows, WellTyped
    <3>4. \A b \in Clients : apc'[b] = "publish" => \A i \in 1..Len(queue') : queue'[i] # akey'[b]
      BY <3>1, <3>3 DEF MessagesAreOfRows
    <3> QED BY <2>1, <3>2, <3>3, <3>4 DEF MessagesAreOfRows
  <2>5. OneChange' /\ HeldByOne' /\ HandledOnce'
    BY <2>1, WorkersUndisturbed DEF WellTyped
  <2> QED BY <2>3, <2>4, <2>5
<1> QED BY <1>1, <1>2, <1>3

(***************************************************************************)
(* The queue.                                                              *)
(***************************************************************************)
LEMMA ReceiveStep ==
    ASSUME QInv, NEW w \in Workers, Receive(w)
    PROVE  QInv'
<1> USE DEF QInv, UntouchedByWorker, setting, api
<1> DEFINE n == IF Len(queue) < BatchSize THEN Len(queue) ELSE BatchSize
           taken == SubSeq(queue, 1, n)
<1>1. /\ wpc[w] = "idle" /\ queue # <<>> /\ InFlight = {} /\ Undeliverable = {}
      /\ batch' = [batch EXCEPT ![w] = taken]
      /\ receiver' = [k \in Keys |-> IF k \in ToSet(taken) THEN w ELSE receiver[k]]
      /\ receives' = [k \in Keys |-> IF k \in ToSet(taken) THEN receives[k] + 1 ELSE receives[k]]
      /\ wpc' = [wpc EXCEPT ![w] = "read"]
      /\ UNCHANGED <<setting, api, row, queue, dlq, outcome, claim, review, evaluated, effects>>
  BY DEF Receive
<1>2. /\ queue \in Seq(Keys) /\ Len(queue) \in Nat /\ Len(queue) # 0
      /\ n \in Nat /\ 1 <= n /\ n <= Len(queue)
  BY <1>1, BoundsAssumption DEF WellTyped, BoundsAssumption
<1> HIDE DEF n
<1>3. taken \in Seq(Keys) /\ Len(taken) = n /\ \A i \in 1..n : taken[i] = queue[i]
  <2>1. \A i \in 1..n : queue[i] \in Keys
    BY <1>2
  <2>2. /\ taken \in Seq(Keys) /\ Len(taken) = IF 1 <= n THEN n - 1 + 1 ELSE 0
        /\ \A i \in 1..(n - 1 + 1) : taken[i] = queue[1 + i - 1]
    BY <1>2, <2>1, SubSeqProperties
  <2> HIDE DEF taken
  <2>3. n - 1 + 1 = n /\ \A i \in Nat : 1 + i - 1 = i
    BY <1>2
  <2> QED BY <1>2, <2>2, <2>3
<1>4. taken # <<>> /\ \A i \in 1..n : i \in 1..Len(queue) /\ taken[i] \in ToSet(taken)
  <2> HIDE DEF taken
  <2>1. Len(<<>>) = 0
    OBVIOUS
  <2> QED BY <1>2, <1>3, <2>1 DEF ToSet
<1>5. \A k \in ToSet(taken) : k \in Keys /\ receives[k] + 1 \in 0..MaxReceive
  <2> TAKE k \in ToSet(taken)
  <2>1. PICK i \in 1..n : k = taken[i]
    BY <1>2, <1>3 DEF ToSet
  <2>2. k \in ToSet(queue) /\ k \in Keys
    BY <1>2, <1>3, <1>4, <2>1 DEF ToSet
  <2>3. ~(receives[k] >= MaxReceive)
    BY <1>1, <2>2 DEF Undeliverable
  <2> QED BY <2>2, <2>3, BoundsAssumption DEF WellTyped, BoundsAssumption
<1> HIDE DEF taken
<1>6. /\ batch'[w] = taken /\ wpc'[w] = "read"
      /\ \A v \in Workers \ {w} : batch'[v] = batch[v] /\ wpc'[v] = wpc[v] /\ Current(v)' = Current(v)
  BY <1>1 DEF WellTyped, Current
<1>7. WellTyped'
  <2>1. receives' \in [Keys -> 0..MaxReceive] /\ receiver' \in [Keys -> Workers \cup {None}]
    BY <1>1, <1>5 DEF WellTyped
  <2>2. batch' \in [Workers -> Seq(Keys)] /\ wpc' \in [Workers -> Places]
    BY <1>1, <1>3 DEF WellTyped, Places
  <2>3. \A v \in Workers :
           /\ wpc'[v] # "idle" => batch'[v] # <<>>
           /\ wpc'[v] \in {"record", "evaluate"} => outcome[v] \in Settled
    BY <1>4, <1>6 DEF WellTyped
  <2> QED BY <1>1, <2>1, <2>2, <2>3 DEF WellTyped
<1>8. MessagesAreOfRows'
  <2>1. \A v \in Workers : \A i \in 1..Len(batch'[v]) : row[batch'[v][i]] # "none"
    BY <1>3, <1>4, <1>6 DEF MessagesAreOfRows
  <2> QED BY <1>1, <2>1 DEF MessagesAreOfRows
<1>9. OneChange'
  BY <1>1, <1>6 DEF OneChange
<1>10. HeldByOne'
  <2> SUFFICES ASSUME covers PROVE HeldByOne'
    BY <1>1 DEF HeldByOne
  <2>1. ASSUME NEW v \in Workers PROVE wpc[v] = "idle"
    <3> SUFFICES ASSUME wpc[v] # "idle" PROVE FALSE
      OBVIOUS
    <3>1. 1 \in 1..Len(batch[v]) /\ batch[v][1] \in Keys
      BY CurrentIsKey
    <3>2. receiver[batch[v][1]] = v /\ v # None
      BY <3>1, BoundsAssumption DEF HeldByOne, BoundsAssumption
    <3> QED BY <1>1, <3>1, <3>2 DEF InFlight
  <2>2. \A i \in 1..Len(batch'[w]) : batch'[w][i] \in Keys /\ receiver'[batch'[w][i]] = w
    BY <1>1, <1>3, <1>4, <1>5, <1>6
  <2>3. \A i, j \in 1..Len(batch'[w]) : batch'[w][i] = batch'[w][j] => i = j
    BY <1>3, <1>4, <1>6 DEF MessagesAreOfRows
  <2> QED BY <1>1, <1>6, <2>1, <2>2, <2>3 DEF HeldByOne
<1>11. HandledOnce'
  BY <1>1, <1>6 DEF HandledOnce
<1> QED BY <1>7, <1>8, <1>9, <1>10, <1>11

LEMMA ExpiryStep ==
    ASSUME QInv, NEW w \in Workers, VisibilityTimeout(w)
    PROVE  QInv'
<1> USE DEF QInv, UntouchedByWorker, setting, api, worker
<1>1. /\ covers => wpc[w] = "idle"
      /\ receiver' = [k \in Keys |-> IF receiver[k] = w THEN None ELSE receiver[k]]
      /\ UNCHANGED <<setting, api, row, queue, dlq, receives, worker, claim, review, evaluated, effects>>
  BY DEF VisibilityTimeout
<1>2. \A v \in Workers : Current(v)' = Current(v)
  BY <1>1 DEF Current
<1>3. WellTyped'
  BY <1>1 DEF WellTyped
<1>4. MessagesAreOfRows'
  BY <1>1 DEF MessagesAreOfRows
<1>5. OneChange' /\ HandledOnce'
  BY <1>1, <1>2 DEF OneChange, HandledOnce
<1>6. HeldByOne'
  <2>1. ASSUME covers, NEW v \in Workers, wpc[v] # "idle", NEW i \in 1..Len(batch[v])
        PROVE  receiver'[batch[v][i]] = v
    BY <1>1, <2>1 DEF HeldByOne, WellTyped
  <2> QED BY <1>1, <2>1 DEF HeldByOne
<1> QED BY <1>3, <1>4, <1>5, <1>6

LEMMA RedriveStep ==
    ASSUME QInv, NEW k \in Keys, Redrive(k)
    PROVE  QInv'
<1> USE DEF QInv, UntouchedByWorker, setting, api, worker
<1>1. /\ queue' = Without(queue, k) /\ dlq' = dlq \cup {k}
      /\ UNCHANGED <<setting, api, row, receiver, receives, worker, claim, review, evaluated, effects>>
  BY DEF Redrive
<1>2. /\ queue' \in Seq(Keys)
      /\ \A i \in 1..Len(queue') : \E j \in 1..Len(queue) : queue'[i] = queue[j]
      /\ \A i, j \in 1..Len(queue') : queue'[i] = queue'[j] => i = j
  BY <1>1, Removed DEF MessagesAreOfRows
<1>3. \A v \in Workers : Current(v)' = Current(v)
  BY <1>1 DEF Current
<1>4. WellTyped'
  BY <1>1, <1>2 DEF WellTyped
<1>5. MessagesAreOfRows'
  BY <1>1, <1>2 DEF MessagesAreOfRows
<1>6. OneChange' /\ HandledOnce' /\ HeldByOne'
  BY <1>1, <1>3 DEF OneChange, HandledOnce, HeldByOne
<1> QED BY <1>4, <1>5, <1>6

(***************************************************************************)
(* The handler, at one message.                                            *)
(***************************************************************************)
\* Steps that stay at the message.
LEMMA Staying ==
    ASSUME QInv, NEW w \in Workers, wpc[w] # "idle",
           NEW place \in Places \ {"idle"}, wpc' = [wpc EXCEPT ![w] = place],
           UNCHANGED <<setting, api, sqs, batch>>,
           row' \in [Keys -> {"none", "pending", "processing"} \cup Settled],
           \A k \in Keys : row[k] # "none" => row'[k] # "none"
    PROVE  /\ MessagesAreOfRows' /\ HeldByOne'
           /\ wpc' \in [Workers -> Places] /\ wpc'[w] = place
           /\ \A v \in Workers : Current(v)' = Current(v)
           /\ \A v \in Workers \ {w} : wpc'[v] = wpc[v]
           /\ covers => \A v \in Workers \ {w} : wpc[v] = "idle"
           /\ Current(w) \in Keys
<1> USE DEF QInv, UntouchedByWorker, setting, api, sqs
<1>1. /\ wpc' \in [Workers -> Places] /\ wpc'[w] = place
      /\ \A v \in Workers \ {w} : wpc'[v] = wpc[v]
  BY DEF WellTyped
<1>2. \A v \in Workers : Current(v)' = Current(v)
  BY DEF Current
<1>3. HeldByOne'
  BY <1>1 DEF HeldByOne
<1>4. MessagesAreOfRows'
  <2>1. /\ \A i \in 1..Len(queue) : row'[queue[i]] # "none"
        /\ \A v \in Workers : \A i \in 1..Len(batch[v]) : row'[batch[v][i]] # "none"
        /\ \A a \in Clients : apc[a] = "publish" => row'[akey[a]] # "none"
    BY DEF MessagesAreOfRows, WellTyped
  <2> QED BY <2>1 DEF MessagesAreOfRows
<1> QED BY <1>1, <1>2, <1>3, <1>4, CurrentIsKey DEF HeldByOne

LEMMA ReadStep ==
    ASSUME QInv, NEW w \in Workers, ReadRow(w) \/ MarkProcessing(w)
    PROVE  QInv'
<1> USE DEF QInv, UntouchedByWorker, setting, api, sqs, Goto
<1> DEFINE k == Current(w)
<1>1. k \in Keys
  BY CurrentIsKey DEF ReadRow, MarkProcessing
<1>2. CASE ReadRow(w)
  <2> DEFINE place == IF row[k] = "pending" THEN "mark" ELSE "delete"
  <2>1. /\ wpc[w] = "read" /\ wpc' = [wpc EXCEPT ![w] = place] /\ place \in Places \ {"idle"}
        /\ UNCHANGED <<setting, api, sqs, batch, outcome, row, claim, review, evaluated, effects>>
    BY <1>2 DEF ReadRow, Places
  <2>2. /\ MessagesAreOfRows' /\ HeldByOne'
        /\ wpc' \in [Workers -> Places] /\ wpc'[w] = place
        /\ \A v \in Workers : Current(v)' = Current(v)
        /\ \A v \in Workers \ {w} : wpc'[v] = wpc[v]
        /\ covers => \A v \in Workers \ {w} : wpc[v] = "idle"
    BY <2>1, Staying DEF WellTyped
  <2>3. WellTyped'
    BY <2>1, <2>2 DEF WellTyped
  <2>4. OneChange'
    BY <2>1, <2>2 DEF OneChange
  <2>5. HandledOnce'
    BY <2>1, <2>2 DEF HandledOnce
  <2> QED BY <2>2, <2>3, <2>4, <2>5
<1>3. CASE MarkProcessing(w)
  <2>1. /\ wpc[w] = "mark" /\ wpc' = [wpc EXCEPT ![w] = "execute"]
        /\ row' = [row EXCEPT ![k] = "processing"]
        /\ UNCHANGED <<setting, api, sqs, batch, outcome, claim, review, evaluated, effects>>
    BY <1>3 DEF MarkProcessing
  <2>2. /\ MessagesAreOfRows' /\ HeldByOne'
        /\ wpc' \in [Workers -> Places] /\ wpc'[w] = "execute"
        /\ \A v \in Workers : Current(v)' = Current(v)
        /\ \A v \in Workers \ {w} : wpc'[v] = wpc[v]
        /\ covers => \A v \in Workers \ {w} : wpc[v] = "idle"
    BY <1>1, <2>1, Staying DEF WellTyped, Places
  <2>3. WellTyped'
    BY <1>1, <2>1, <2>2 DEF WellTyped
  <2>4. OneChange'
    BY <2>1, <2>2 DEF OneChange
  <2>5. row'[k] = "processing" /\ \A m \in Keys \ {k} : row'[m] = row[m]
    BY <1>1, <2>1 DEF WellTyped
  <2>6. HandledOnce'
    BY <1>1, <2>1, <2>2, <2>5 DEF HandledOnce
  <2> QED BY <2>2, <2>3, <2>4, <2>6
<1> QED BY <1>2, <1>3

\* Steps 2 to 4: the guards and the claim of the key.
LEMMA ClaimStep ==
    ASSUME QInv, NEW w \in Workers, GuardRefuses(w) \/ ClaimKey(w) \/ ClaimTaken(w)
    PROVE  QInv'
<1> USE DEF QInv, UntouchedByWorker, setting, api, sqs, Goto, Outcome
<1> DEFINE k == Current(w)
<1>1. k \in Keys /\ wpc[w] = "execute"
  BY CurrentIsKey DEF GuardRefuses, ClaimKey, ClaimTaken
<1>2. PICK place \in {"reject", "executing", "record"} :
        /\ wpc' = [wpc EXCEPT ![w] = place]
        /\ UNCHANGED <<setting, api, sqs, batch, row, review, evaluated, effects>>
  BY DEF GuardRefuses, ClaimKey, ClaimTaken
<1>3. /\ MessagesAreOfRows' /\ HeldByOne'
      /\ wpc' \in [Workers -> Places] /\ wpc'[w] = place
      /\ \A v \in Workers : Current(v)' = Current(v)
      /\ \A v \in Workers \ {w} : wpc'[v] = wpc[v]
      /\ covers => \A v \in Workers \ {w} : wpc[v] = "idle"
  BY <1>1, <1>2, Staying DEF WellTyped, Places
<1>4. CASE GuardRefuses(w)
  <2>1. k \in forbidden /\ outcome' = [outcome EXCEPT ![w] = "failed"] /\ UNCHANGED claim
    BY <1>4 DEF GuardRefuses
  <2>2. place = "reject"
    BY <1>3, <1>4 DEF GuardRefuses, WellTyped
  <2>3. /\ outcome' \in [Workers -> Settled \cup {None}]
        /\ \A v \in Workers \ {w} : outcome'[v] = outcome[v]
    BY <2>1 DEF WellTyped, Settled
  <2>7. WellTyped'
    <3>1. \A v \in Workers :
             /\ wpc'[v] # "idle" => batch[v] # <<>>
             /\ wpc'[v] \in {"record", "evaluate"} => outcome'[v] \in Settled
      BY <1>1, <1>3, <2>2, <2>3 DEF WellTyped
    <3> QED BY <1>2, <1>3, <2>1, <2>3, <3>1 DEF WellTyped
  <2>4. OneChange'
    BY <1>2, <1>3, <2>1, <2>2, <2>3 DEF OneChange
  <2>5. effects[k] = 0
    BY <1>1, <2>1 DEF OneChange
  <2>6. HandledOnce'
    BY <1>1, <1>2, <1>3, <2>1, <2>2, <2>3, <2>5 DEF HandledOnce
  <2> QED BY <1>3, <2>4, <2>6, <2>7
<1>5. CASE ClaimKey(w)
  <2>1. k \notin forbidden /\ claim[k] = "none" /\ claim' = [claim EXCEPT ![k] = "in_progress"]
        /\ UNCHANGED outcome
    BY <1>5 DEF ClaimKey
  <2>2. place = "executing"
    BY <1>3, <1>5 DEF ClaimKey, WellTyped
  <2>3. WellTyped' /\ claim'[k] = "in_progress" /\ \A m \in Keys \ {k} : claim'[m] = claim[m]
    BY <1>1, <1>2, <1>3, <2>1, <2>2 DEF WellTyped
  <2>4. effects[k] = 0 /\ \A v \in Workers : wpc[v] = "executing" => Current(v) # k
    BY <1>1, <2>1 DEF OneChange
  <2>5. \A v \in Workers : wpc[v] # "idle" => Current(v) \in Keys
    BY CurrentIsKey
  <2>6. OneChange'
    BY <1>1, <1>2, <1>3, <2>1, <2>2, <2>3, <2>4, <2>5 DEF OneChange
  <2>7. covers => row[k] = "processing"
    BY <1>1 DEF HandledOnce
  <2>8. HandledOnce'
    BY <1>1, <1>2, <1>3, <2>1, <2>2, <2>3, <2>7 DEF HandledOnce
  <2> QED BY <1>3, <2>3, <2>6, <2>8
<1>6. CASE ClaimTaken(w)
  <2>1. /\ k \notin forbidden /\ claim[k] # "none"
        /\ outcome' = [outcome EXCEPT ![w] = IF claim[k] = "executed" THEN "completed" ELSE "failed"]
        /\ UNCHANGED claim \/ (claim[k] = "in_progress" /\ claim' = [claim EXCEPT ![k] = "failed"])
    BY <1>6 DEF ClaimTaken
  <2>2. place = "record"
    BY <1>3, <1>6 DEF ClaimTaken, WellTyped
  <2>3. /\ outcome'[w] = IF claim[k] = "executed" THEN "completed" ELSE "failed"
        /\ \A v \in Workers \ {w} : outcome'[v] = outcome[v]
        /\ outcome' \in [Workers -> Settled \cup {None}] /\ outcome'[w] \in Settled
    BY <2>1 DEF WellTyped, Settled
  <2>4. /\ claim' \in [Keys -> {"none", "in_progress", "executed", "refused", "failed"}]
        /\ \A m \in Keys : claim'[m] = claim[m] \/ (claim[m] = "in_progress" /\ claim'[m] = "failed" /\ m \notin forbidden)
    BY <1>1, <2>1 DEF WellTyped
  <2>5. WellTyped'
    <3>1. \A v \in Workers :
             /\ wpc'[v] # "idle" => batch[v] # <<>>
             /\ wpc'[v] \in {"record", "evaluate"} => outcome'[v] \in Settled
      BY <1>1, <1>3, <2>2, <2>3 DEF WellTyped
    <3> QED BY <1>2, <1>3, <2>3, <2>4, <3>1 DEF WellTyped
  <2>6. \A v \in Workers : wpc[v] # "idle" => Current(v) \in Keys
    BY CurrentIsKey
  <2>7. OneChange'
    BY <1>1, <1>2, <1>3, <2>2, <2>3, <2>4, <2>6 DEF OneChange
  <2>8. ~covers
    BY <1>1, <2>1 DEF HandledOnce
  <2>9. HandledOnce'
    BY <1>2, <2>8 DEF HandledOnce
  <2> QED BY <1>3, <2>5, <2>7, <2>9
<1> QED BY <1>4, <1>5, <1>6

\* How a tool call ends for the claim of its key: what it wrote is written once,
\* and nobody else is in a call for the key.
LEMMA CallEnds ==
    ASSUME QInv, NEW w \in Workers, wpc[w] = "executing",
           NEW status \in {"executed", "refused", "failed"}, NEW written \in 0..1,
           status = "executed" => written = 1,
           FinishClaim(Current(w), status) \/ UNCHANGED claim,
           effects' = [effects EXCEPT ![Current(w)] = @ + written]
    PROVE  /\ Current(w) \in Keys /\ effects'[Current(w)] = written
           /\ claim' \in [Keys -> {"none", "in_progress", "executed", "refused", "failed"}]
           /\ effects' \in [Keys -> 0..1]
           /\ \A k \in Keys \ {Current(w)} : claim'[k] = claim[k] /\ effects'[k] = effects[k]
           /\ \A k \in Keys :
                 /\ claim'[k] = "none" <=> claim[k] = "none"
                 /\ claim'[k] = "none" => effects'[k] = 0
                 /\ claim'[k] = "executed" => effects'[k] = 1
                 /\ effects[k] = 1 => effects'[k] = 1
           /\ \A v \in Workers \ {w} : wpc[v] = "executing" => Current(v) \in Keys \ {Current(w)}
<1> USE DEF QInv, UntouchedByWorker
<1> DEFINE k == Current(w)
<1>1. k \in Keys
  BY CurrentIsKey
<1>2. claim[k] # "none" /\ claim[k] # "executed" /\ effects[k] = 0
  BY <1>1 DEF OneChange
<1>3. /\ effects'[k] = written /\ effects' \in [Keys -> 0..1]
      /\ \A m \in Keys \ {k} : effects'[m] = effects[m]
  BY <1>1, <1>2 DEF WellTyped
<1>4. /\ claim' \in [Keys -> {"none", "in_progress", "executed", "refused", "failed"}]
      /\ \A m \in Keys \ {k} : claim'[m] = claim[m]
      /\ claim'[k] # "none" /\ (claim'[k] = "executed" => written = 1)
  <2>1. claim \in [Keys -> {"none", "in_progress", "executed", "refused", "failed"}]
    BY DEF WellTyped
  <2>2. FinishClaim(k, status) \/ UNCHANGED claim
    OBVIOUS
  <2> HIDE DEF k
  <2>3. CASE UNCHANGED claim
    BY <1>2, <2>1, <2>3
  <2>4. CASE FinishClaim(k, status)
    BY <1>1, <1>2, <2>1, <2>4 DEF FinishClaim
  <2> QED BY <2>2, <2>3, <2>4
<1>5. \A v \in Workers \ {w} : wpc[v] = "executing" => Current(v) \in Keys \ {k}
  BY CurrentIsKey DEF OneChange
<1> QED BY <1>1, <1>2, <1>3, <1>4, <1>5 DEF OneChange

LEMMA CallStep ==
    ASSUME QInv, NEW w \in Workers,
           \/ ToolRejects(w) \/ ToolHolds(w)
           \/ \E executed \in BOOLEAN : ToolReturns(w, executed)
    PROVE  QInv'
<1> USE DEF QInv, UntouchedByWorker, setting, api, sqs, Outcome
<1> DEFINE k == Current(w)
<1>1. wpc[w] = "executing"
  BY DEF ToolReturns, ToolRejects, ToolHolds
<1>2. PICK place \in {"record", "reject"}, said \in Settled, written \in 0..1 :
        /\ wpc' = [wpc EXCEPT ![w] = place]
        /\ outcome' = [outcome EXCEPT ![w] = said]
        /\ said = "completed" <=> written = 1
        /\ FinishClaim(k, IF said = "completed" THEN "executed"
                          ELSE IF place = "record" THEN "refused" ELSE "failed")
        /\ effects' = [effects EXCEPT ![k] = @ + written]
        /\ UNCHANGED <<setting, api, sqs, batch, row, evaluated>>
        /\ review' \in [Keys -> {"none", "open", "closed"}]
  <2>1. effects = [effects EXCEPT ![k] = @ + 0]
    <3>1. k \in Keys /\ effects \in [Keys -> 0..1]
      BY <1>1, CurrentIsKey DEF WellTyped
    <3> HIDE DEF k
    <3> QED BY <3>1
  <2>2. CASE ToolRejects(w)
    <3>1. /\ wpc' = [wpc EXCEPT ![w] = "reject"] /\ outcome' = [outcome EXCEPT ![w] = "failed"]
          /\ FinishClaim(k, "failed") /\ effects' = [effects EXCEPT ![k] = @ + 0]
          /\ UNCHANGED <<setting, api, sqs, batch, row, evaluated>>
          /\ review' \in [Keys -> {"none", "open", "closed"}]
      BY <2>1, <2>2 DEF ToolRejects, WellTyped
    <3> HIDE DEF k
    <3> QED BY <3>1 DEF Settled
  <2>3. ASSUME NEW executed \in BOOLEAN, ToolReturns(w, executed)
        PROVE  \E place \in {"record", "reject"}, said \in Settled, written \in 0..1 :
                  /\ wpc' = [wpc EXCEPT ![w] = place]
                  /\ outcome' = [outcome EXCEPT ![w] = said]
                  /\ said = "completed" <=> written = 1
                  /\ FinishClaim(k, IF said = "completed" THEN "executed"
                                    ELSE IF place = "record" THEN "refused" ELSE "failed")
                  /\ effects' = [effects EXCEPT ![k] = @ + written]
                  /\ UNCHANGED <<setting, api, sqs, batch, row, evaluated>>
                  /\ review' \in [Keys -> {"none", "open", "closed"}]
    <3>1. CASE executed
      <4>1. /\ wpc' = [wpc EXCEPT ![w] = "record"] /\ outcome' = [outcome EXCEPT ![w] = "completed"]
            /\ FinishClaim(k, "executed") /\ effects' = [effects EXCEPT ![k] = @ + 1]
            /\ UNCHANGED <<setting, api, sqs, batch, row, evaluated>>
            /\ review' \in [Keys -> {"none", "open", "closed"}]
        BY <2>3, <3>1 DEF ToolReturns, WellTyped
      <4> HIDE DEF k
      <4> QED BY <4>1 DEF Settled
    <3>2. CASE ~executed
      <4>1. /\ wpc' = [wpc EXCEPT ![w] = "record"] /\ outcome' = [outcome EXCEPT ![w] = "failed"]
            /\ FinishClaim(k, "refused")
            /\ UNCHANGED <<setting, api, sqs, batch, row, evaluated>>
            /\ review' \in [Keys -> {"none", "open", "closed"}]
        BY <2>3, <3>2 DEF ToolReturns, WellTyped
      <4>2. effects' = [effects EXCEPT ![k] = @ + 0]
        <5>1. effects' = [effects EXCEPT ![k] = @]
          BY <2>3, <3>2 DEF ToolReturns
        <5>2. effects = [effects EXCEPT ![k] = @]
          BY DEF WellTyped
        <5> QED BY <2>1, <5>1, <5>2
      <4> HIDE DEF k
      <4> QED BY <4>1, <4>2 DEF Settled
    <3> QED BY <3>1, <3>2
  <2>4. CASE ToolHolds(w)
    <3>1. /\ wpc' = [wpc EXCEPT ![w] = "record"] /\ outcome' = [outcome EXCEPT ![w] = "failed"]
          /\ FinishClaim(k, "refused") /\ effects' = [effects EXCEPT ![k] = @ + 0]
          /\ UNCHANGED <<setting, api, sqs, batch, row, evaluated>>
      BY <2>1, <2>4 DEF ToolHolds
    <3>2. review' \in [Keys -> {"none", "open", "closed"}]
      BY <2>4 DEF ToolHolds, WellTyped
    <3> HIDE DEF k
    <3> QED BY <3>1, <3>2 DEF Settled
  <2> QED BY <2>2, <2>3, <2>4
<1>3. /\ MessagesAreOfRows' /\ HeldByOne'
      /\ wpc' \in [Workers -> Places] /\ wpc'[w] = place
      /\ \A v \in Workers : Current(v)' = Current(v)
      /\ \A v \in Workers \ {w} : wpc'[v] = wpc[v]
      /\ covers => \A v \in Workers \ {w} : wpc[v] = "idle"
  BY <1>1, <1>2, Staying DEF WellTyped, Places
<1>4. /\ k \in Keys /\ effects'[k] = written
      /\ claim' \in [Keys -> {"none", "in_progress", "executed", "refused", "failed"}]
      /\ effects' \in [Keys -> 0..1]
      /\ \A m \in Keys \ {k} : claim'[m] = claim[m] /\ effects'[m] = effects[m]
      /\ \A m \in Keys :
            /\ claim'[m] = "none" <=> claim[m] = "none"
            /\ claim'[m] = "none" => effects'[m] = 0
            /\ claim'[m] = "executed" => effects'[m] = 1
            /\ effects[m] = 1 => effects'[m] = 1
      /\ \A v \in Workers \ {w} : wpc[v] = "executing" => Current(v) \in Keys \ {k}
  BY <1>1, <1>2, CallEnds
<1>5. /\ outcome'[w] = said /\ \A v \in Workers \ {w} : outcome'[v] = outcome[v]
      /\ outcome' \in [Workers -> Settled \cup {None}]
  BY <1>2 DEF WellTyped
<1>6. WellTyped'
  <2>1. \A v \in Workers :
           /\ wpc'[v] # "idle" => batch[v] # <<>>
           /\ wpc'[v] \in {"record", "evaluate"} => outcome'[v] \in Settled
    BY <1>1, <1>3, <1>5 DEF WellTyped
  <2> QED BY <1>2, <1>3, <1>4, <1>5, <2>1 DEF WellTyped
<1>7. OneChange'
  <2>1. \A v \in Workers : wpc[v] # "idle" => Current(v) \in Keys
    BY CurrentIsKey
  <2>2. \A m \in Keys :
           /\ m \in forbidden => claim'[m] = "none"
           /\ \A i \in 1..Len(evaluated[m]) : evaluated[m][i] = "completed" => effects'[m] = 1
    BY <1>4 DEF OneChange
  <2>3. ASSUME NEW v \in Workers
        PROVE  /\ wpc'[v] = "executing" =>
                     v # w /\ wpc[v] = "executing" /\ claim'[Current(v)] # "none" /\ effects'[Current(v)] = 0
               /\ wpc'[v] \in {"record", "evaluate"} /\ outcome'[v] = "completed" =>
                     effects'[Current(v)] = 1
    <3>1. CASE v = w
      BY <1>2, <1>3, <1>4, <1>5, <3>1
    <3>2. CASE v # w
      BY <1>3, <1>4, <1>5, <2>1, <3>2 DEF OneChange
    <3> QED BY <3>1, <3>2
  <2> QED BY <1>2, <1>3, <1>4, <2>2, <2>3 DEF OneChange
<1>8. HandledOnce'
  <2> SUFFICES ASSUME covers PROVE HandledOnce'
    BY <1>2 DEF HandledOnce
  <2>1. said # "completed" => UntouchedByWorker(k)'
    BY <1>2, <1>3, <1>4 DEF UntouchedByWorker
  <2>2. \A m \in Keys :
           /\ row[m] \in {"none", "pending"} => claim'[m] = "none"
           /\ row[m] \in {"none", "pending", "processing"} => evaluated[m] = <<>>
           /\ Len(evaluated[m]) <= 1
    BY <1>4 DEF HandledOnce
  <2>3. row[k] = "processing" /\ (place = "reject" => said = "failed")
    <3>1. row[k] = "processing"
      BY <1>1 DEF HandledOnce
    <3>2. place = "reject" => said = "failed"
      <4>1. place = "reject" => ToolRejects(w)
        BY <1>3 DEF ToolReturns, ToolHolds, WellTyped
      <4>2. ToolRejects(w) => outcome'[w] = "failed"
        BY DEF ToolRejects, WellTyped
      <4> QED BY <1>5, <4>1, <4>2
    <3> QED BY <3>1, <3>2
  <2>4. ASSUME NEW v \in Workers
        PROVE  /\ wpc'[v] = "mark" => row[Current(v)] = "pending"
               /\ wpc'[v] \in {"execute", "executing", "reject", "record"} =>
                     row[Current(v)] = "processing"
               /\ wpc'[v] = "execute" => claim'[Current(v)] = "none"
               /\ wpc'[v] = "reject" => UntouchedByWorker(Current(v))'
               /\ wpc'[v] = "record" /\ outcome'[v] = "failed" => UntouchedByWorker(Current(v))'
               /\ wpc'[v] = "evaluate" =>
                     row[Current(v)] \in Settled /\ evaluated[Current(v)] = <<>>
    <3>1. CASE v = w
      BY <1>2, <1>3, <1>4, <1>5, <2>1, <2>3, <3>1
    <3>2. CASE v # w
      BY <1>3, <3>2
    <3> QED BY <3>1, <3>2
  <2> QED BY <1>2, <1>3, <2>2, <2>4 DEF HandledOnce
<1> QED BY <1>3, <1>6, <1>7, <1>8

\* The outcome and its evaluation.
LEMMA RecordStep ==
    ASSUME QInv, NEW w \in Workers, RecordFailure(w) \/ RecordOutcome(w)
    PROVE  QInv'
<1> USE DEF QInv, UntouchedByWorker, setting, api, sqs, Goto, Handled
<1> DEFINE k == Current(w)
<1>1. k \in Keys /\ wpc[w] \in {"reject", "record"}
  BY CurrentIsKey DEF RecordFailure, RecordOutcome
<1>2. PICK place \in {"delete", "evaluate"}, said \in Settled :
        /\ wpc' = [wpc EXCEPT ![w] = place]
        /\ row' = [row EXCEPT ![k] = said]
        /\ place = "evaluate" => wpc[w] = "record" /\ UNCHANGED outcome
        /\ place = "delete" => outcome' = [outcome EXCEPT ![w] = None]
        /\ UNCHANGED <<setting, api, sqs, batch, claim, review, evaluated, effects>>
  <2>1. CASE RecordFailure(w)
    BY <2>1 DEF RecordFailure, Settled
  <2>2. CASE RecordOutcome(w)
    <3>1. outcome[w] \in Settled
      BY <2>2 DEF RecordOutcome, WellTyped
    <3> QED BY <2>2, <3>1 DEF RecordOutcome
  <2> QED BY <2>1, <2>2
<1>3. /\ row' \in [Keys -> {"none", "pending", "processing"} \cup Settled]
      /\ row'[k] \in Settled /\ \A m \in Keys \ {k} : row'[m] = row[m]
  BY <1>1, <1>2 DEF WellTyped
<1>4. /\ MessagesAreOfRows' /\ HeldByOne'
      /\ wpc' \in [Workers -> Places] /\ wpc'[w] = place
      /\ \A v \in Workers : Current(v)' = Current(v)
      /\ \A v \in Workers \ {w} : wpc'[v] = wpc[v]
      /\ covers => \A v \in Workers \ {w} : wpc[v] = "idle"
  <2>1. wpc[w] # "idle" /\ place \in Places \ {"idle"}
    BY <1>1 DEF Places
  <2>2. \A m \in Keys : row[m] # "none" => row'[m] # "none"
    BY <1>1, <1>3 DEF Settled
  <2> HIDE DEF k, QInv
  <2> QED BY <1>2, <1>3, <2>1, <2>2, Staying
<1>5. /\ outcome' \in [Workers -> Settled \cup {None}]
      /\ \A v \in Workers \ {w} : outcome'[v] = outcome[v]
      /\ place = "evaluate" => outcome'[w] = outcome[w]
  BY <1>2 DEF WellTyped
<1>6. WellTyped'
  <2>1. \A v \in Workers :
           /\ wpc'[v] # "idle" => batch[v] # <<>>
           /\ wpc'[v] \in {"record", "evaluate"} => outcome'[v] \in Settled
    BY <1>1, <1>2, <1>4, <1>5 DEF WellTyped
  <2> QED BY <1>2, <1>3, <1>4, <1>5, <2>1 DEF WellTyped
<1>7. OneChange'
  BY <1>2, <1>4, <1>5 DEF OneChange
<1>8. HandledOnce'
  <2> SUFFICES ASSUME covers PROVE HandledOnce'
    BY <1>2 DEF HandledOnce
  <2>1. evaluated[k] = <<>>
    BY <1>1 DEF HandledOnce
  <2>2. \A m \in Keys :
           /\ row'[m] \in {"none", "pending"} => claim[m] = "none"
           /\ row'[m] \in {"none", "pending", "processing"} => evaluated[m] = <<>>
           /\ Len(evaluated[m]) <= 1
    BY <1>3 DEF HandledOnce, Settled
  <2>3. ASSUME NEW v \in Workers
        PROVE  /\ wpc'[v] \notin {"mark", "execute", "executing", "reject", "record"}
               /\ wpc'[v] = "evaluate" => v = w
    BY <1>4
  <2> QED BY <1>2, <1>3, <1>4, <2>1, <2>2, <2>3 DEF HandledOnce
<1> QED BY <1>4, <1>6, <1>7, <1>8

LEMMA EvaluationStep ==
    ASSUME QInv, NEW w \in Workers, RecordEvaluation(w)
    PROVE  QInv'
<1> USE DEF QInv, UntouchedByWorker, setting, api, sqs, Handled
<1> DEFINE k == Current(w)
<1>1. k \in Keys /\ wpc[w] = "evaluate" /\ outcome[w] \in Settled
  BY CurrentIsKey DEF RecordEvaluation, WellTyped
<1>2. /\ wpc' = [wpc EXCEPT ![w] = "delete"]
      /\ outcome' = [outcome EXCEPT ![w] = None]
      /\ evaluated' = [evaluated EXCEPT ![k] = Append(@, outcome[w])] \/ UNCHANGED evaluated
      /\ UNCHANGED <<setting, api, row, sqs, batch, claim, review, effects>>
  BY DEF RecordEvaluation
<1>3. /\ MessagesAreOfRows' /\ HeldByOne'
      /\ wpc' \in [Workers -> Places] /\ wpc'[w] = "delete"
      /\ \A v \in Workers : Current(v)' = Current(v)
      /\ \A v \in Workers \ {w} : wpc'[v] = wpc[v]
      /\ covers => \A v \in Workers \ {w} : wpc[v] = "idle"
  BY <1>1, <1>2, Staying DEF WellTyped, Places
<1>4. /\ evaluated' \in [Keys -> Seq(Settled)]
      /\ \A m \in Keys \ {k} : evaluated'[m] = evaluated[m]
      /\ \/ evaluated'[k] = evaluated[k]
         \/ /\ Len(evaluated'[k]) = Len(evaluated[k]) + 1
            /\ \A i \in 1..Len(evaluated[k]) : evaluated'[k][i] = evaluated[k][i]
            /\ evaluated'[k][Len(evaluated[k]) + 1] = outcome[w]
  <2>1. evaluated[k] \in Seq(Settled)
    BY <1>1 DEF WellTyped
  <2>2. CASE UNCHANGED evaluated
    BY <2>2 DEF WellTyped
  <2>3. CASE evaluated' = [evaluated EXCEPT ![k] = Append(@, outcome[w])]
    <3>1. /\ evaluated'[k] = Append(evaluated[k], outcome[w])
          /\ \A m \in Keys \ {k} : evaluated'[m] = evaluated[m]
      BY <1>1, <2>3 DEF WellTyped
    <3>2. Append(evaluated[k], outcome[w]) \in Seq(Settled)
      BY <1>1, <2>1
    <3>3. evaluated' \in [Keys -> Seq(Settled)]
      BY <2>3, <3>2 DEF WellTyped
    <3>4. /\ Len(Append(evaluated[k], outcome[w])) = Len(evaluated[k]) + 1
          /\ \A i \in 1..Len(evaluated[k]) : Append(evaluated[k], outcome[w])[i] = evaluated[k][i]
          /\ Append(evaluated[k], outcome[w])[Len(evaluated[k]) + 1] = outcome[w]
      BY <1>1, <2>1
    <3> QED BY <3>1, <3>3, <3>4
  <2> QED BY <1>2, <2>2, <2>3
<1>5. WellTyped'
  BY <1>1, <1>2, <1>3, <1>4 DEF WellTyped
<1>6. OneChange'
  <2>1. ASSUME NEW m \in Keys, NEW i \in 1..Len(evaluated'[m]), evaluated'[m][i] = "completed"
        PROVE  effects[m] = 1
    <3>1. CASE i \in 1..Len(evaluated[m]) /\ evaluated'[m][i] = evaluated[m][i]
      BY <2>1, <3>1 DEF OneChange
    <3>2. CASE m = k /\ evaluated'[m][i] = outcome[w]
      BY <1>1, <2>1, <3>2 DEF OneChange
    <3>3. Len(evaluated[m]) \in Nat
      BY DEF WellTyped
    <3> QED BY <1>4, <3>1, <3>2, <3>3
  <2>2. \A v \in Workers :
           /\ wpc'[v] = "executing" => wpc[v] = "executing"
           /\ wpc'[v] \in {"record", "evaluate"} => wpc'[v] = wpc[v] /\ outcome'[v] = outcome[v]
    BY <1>2, <1>3 DEF WellTyped
  <2> QED BY <1>2, <1>3, <2>1, <2>2 DEF OneChange
<1>7. HandledOnce'
  <2> SUFFICES ASSUME covers PROVE HandledOnce'
    BY <1>2 DEF HandledOnce
  <2>1. row[k] \in Settled /\ evaluated[k] = <<>>
    BY <1>1 DEF HandledOnce
  <2>2. Len(evaluated'[k]) <= 1
    <3>1. Len(<<>>) = 0
      OBVIOUS
    <3> HIDE DEF k
    <3>2. Len(evaluated[k]) = 0
      BY <2>1, <3>1
    <3>3. Len(evaluated'[k]) = Len(evaluated[k]) \/ Len(evaluated'[k]) = Len(evaluated[k]) + 1
      BY <1>4
    <3>4. Len(evaluated'[k]) \in {0, 1}
      BY <3>2, <3>3
    <3>5. \A n \in {0, 1} : n <= 1
      OBVIOUS
    <3> QED BY <3>4, <3>5, Zenon
  <2>3. \A m \in Keys :
           /\ row[m] \in {"none", "pending"} => claim[m] = "none"
           /\ row[m] \in {"none", "pending", "processing"} => evaluated'[m] = <<>>
           /\ Len(evaluated'[m]) <= 1
    BY <1>4, <2>1, <2>2 DEF HandledOnce, Settled
  <2> QED BY <1>2, <1>3, <2>3 DEF HandledOnce
<1> QED BY <1>3, <1>5, <1>6, <1>7

(***************************************************************************)
(* The loop around the handler: the next message, or a worker that starts   *)
(* again, whether or not the call it was in has written.                   *)
(***************************************************************************)
LEMMA MovingOn ==
    ASSUME QInv, NEW w \in Workers, wpc[w] # "idle",
           NextMessage(w) \/ Restarted(w),
           UNCHANGED <<setting, api, row, dlq, receives, evaluated>>,
           queue' = queue \/ queue' = Without(queue, Current(w)),
           receiver' \in [Keys -> Workers \cup {None}],
           review' \in [Keys -> {"none", "open", "closed"}],
           \A k \in Keys : receiver'[k] = receiver[k] \/ (k = Current(w) /\ NextMessage(w)),
           claim' \in [Keys -> {"none", "in_progress", "executed", "refused", "failed"}],
           effects' \in [Keys -> 0..1],
           \A k \in Keys :
              /\ claim'[k] = "none" <=> claim[k] = "none"
              /\ claim'[k] = "none" => effects'[k] = 0
              /\ claim'[k] = "executed" => effects'[k] = 1
              /\ effects[k] = 1 => effects'[k] = 1,
           \A v \in Workers \ {w} : wpc[v] = "executing" => effects'[Current(v)] = 0
    PROVE  QInv'
<1> USE DEF QInv, UntouchedByWorker, setting, api
<1>1. /\ wpc' \in [Workers -> Places]
      /\ batch' \in [Workers -> Seq(Keys)]
      /\ outcome' \in [Workers -> Settled \cup {None}]
      /\ wpc'[w] \in {"idle", "read"}
      /\ wpc'[w] # "idle" => batch'[w] # <<>> /\ NextMessage(w)
      /\ \A v \in Workers \ {w} :
            wpc'[v] = wpc[v] /\ batch'[v] = batch[v] /\ outcome'[v] = outcome[v]
      /\ \A i \in 1..Len(batch'[w]) :
            i + 1 \in 1..Len(batch[w]) /\ batch'[w][i] = batch[w][i + 1] /\ i # 0
  <2>1. CASE NextMessage(w)
    <3>1. batch' \in [Workers -> Seq(Keys)]
      BY <2>1, Shortened
    <3>2. \A i \in 1..Len(batch'[w]) : i # 0
      OBVIOUS
    <3> QED BY <2>1, <3>2, Shortened
  <2>2. CASE Restarted(w)
    BY <2>2, Emptied
  <2> QED BY <2>1, <2>2
<1>2. /\ queue' \in Seq(Keys)
      /\ \A i \in 1..Len(queue') : \E j \in 1..Len(queue) : queue'[i] = queue[j]
      /\ \A i, j \in 1..Len(queue') : queue'[i] = queue'[j] => i = j
  <2>1. CASE queue' = queue
    BY <2>1 DEF WellTyped, MessagesAreOfRows
  <2>2. CASE queue' = Without(queue, Current(w))
    BY <2>2, Removed, CurrentIsKey DEF MessagesAreOfRows
  <2> QED BY <2>1, <2>2
<1>3. \A v \in Workers \ {w} : Current(v)' = Current(v)
  BY <1>1 DEF Current
<1>4. \A v \in Workers : wpc[v] # "idle" => Current(v) \in Keys
  BY CurrentIsKey
<1>5. WellTyped'
  <2>1. \A v \in Workers \ {w} :
           /\ wpc'[v] # "idle" => batch'[v] # <<>>
           /\ wpc'[v] \in {"record", "evaluate"} => outcome'[v] \in Settled
    BY <1>1 DEF WellTyped
  <2>2. /\ wpc'[w] # "idle" => batch'[w] # <<>>
        /\ wpc'[w] \notin {"record", "evaluate"}
    BY <1>1
  <2> QED BY <1>1, <1>2, <2>1, <2>2 DEF WellTyped
<1>6. MessagesAreOfRows'
  <2>1. \A v \in Workers : \A i \in 1..Len(batch'[v]) : row[batch'[v][i]] # "none"
    <3>1. \A i \in 1..Len(batch'[w]) : \E j \in 1..Len(batch[w]) : batch'[w][i] = batch[w][j]
      BY <1>1
    <3>2. \A v \in Workers : \A i \in 1..Len(batch[v]) : row[batch[v][i]] # "none"
      BY DEF MessagesAreOfRows
    <3>3. \A i \in 1..Len(batch'[w]) : row[batch'[w][i]] # "none"
      <4>1. \A j \in 1..Len(batch[w]) : row[batch[w][j]] # "none"
        BY <3>2
      <4> QED BY <3>1, <4>1
    <3>4. \A v \in Workers \ {w} : \A i \in 1..Len(batch'[v]) : row[batch'[v][i]] # "none"
      BY <1>1, <3>2
    <3> QED BY <3>3, <3>4
  <2> QED BY <1>2, <2>1 DEF MessagesAreOfRows
<1>7. OneChange'
  <2>1. \A k \in Keys :
           /\ k \in forbidden => claim'[k] = "none"
           /\ \A i \in 1..Len(evaluated[k]) : evaluated[k][i] = "completed" => effects'[k] = 1
    BY DEF OneChange
  <2>2. ASSUME NEW v \in Workers
        PROVE  /\ wpc'[v] \in {"executing", "record", "evaluate"} => v # w
               /\ wpc'[v] = "executing" => claim'[Current(v)] # "none" /\ effects'[Current(v)] = 0
               /\ wpc'[v] \in {"record", "evaluate"} /\ outcome'[v] = "completed" =>
                     effects'[Current(v)] = 1
    BY <1>1, <1>4 DEF OneChange
  <2>3. \A v \in Workers \ {w} : wpc'[v] = wpc[v] /\ Current(v)' = Current(v)
    BY <1>1, <1>3
  <2>4. \A v \in Workers :
           /\ wpc'[v] = "executing" => claim'[Current(v)'] # "none" /\ effects'[Current(v)'] = 0
           /\ wpc'[v] \in {"record", "evaluate"} /\ outcome'[v] = "completed" =>
                 effects'[Current(v)'] = 1
    BY <2>2, <2>3
  <2>5. \A v, u \in Workers :
           wpc'[v] = "executing" /\ wpc'[u] = "executing" /\ Current(v)' = Current(u)' => v = u
    BY <2>2, <2>3 DEF OneChange
  <2>6. \A k \in Keys :
           /\ claim'[k] = "none" => effects'[k] = 0
           /\ claim'[k] = "executed" => effects'[k] = 1
           /\ k \in forbidden' => claim'[k] = "none"
           /\ \A i \in 1..Len(evaluated'[k]) : evaluated'[k][i] = "completed" => effects'[k] = 1
    BY <2>1
  <2> QED BY <2>4, <2>5, <2>6 DEF OneChange
<1>8. HeldByOne'
  <2> SUFFICES ASSUME covers PROVE HeldByOne'
    BY DEF HeldByOne
  <2>1. \A v \in Workers \ {w} : wpc'[v] = "idle"
    BY <1>1 DEF HeldByOne
  <2>2. ASSUME wpc'[w] # "idle", NEW i \in 1..Len(batch'[w])
        PROVE  receiver'[batch'[w][i]] = w
    <3>1. i + 1 \in 1..Len(batch[w]) /\ batch'[w][i] = batch[w][i + 1] /\ i + 1 # 1
      BY <1>1
    <3>2. Current(w) = batch[w][1] /\ 1 \in 1..Len(batch[w])
      BY CurrentIsKey
    <3>3. batch[w][i + 1] # Current(w) /\ receiver[batch[w][i + 1]] = w
      <4> DEFINE next == i + 1
      <4>1. next \in 1..Len(batch[w]) /\ next # 1
        BY <3>1
      <4> HIDE DEF next
      <4>2. wpc[w] # "idle"
        OBVIOUS
      <4>3. batch[w][next] # batch[w][1] /\ receiver[batch[w][next]] = w
        BY <3>2, <4>1, <4>2, Zenon DEF HeldByOne
      <4> QED BY <3>2, <4>3 DEF next
    <3>4. batch[w][i + 1] \in Keys
      BY <3>1 DEF WellTyped
    <3> QED BY <3>1, <3>3, <3>4
  <2>3. \A i, j \in 1..Len(batch'[w]) : wpc'[w] # "idle" /\ batch'[w][i] = batch'[w][j] => i = j
    <3>1. ASSUME NEW i \in 1..Len(batch'[w]), NEW j \in 1..Len(batch'[w]), batch'[w][i] = batch'[w][j]
          PROVE  i = j
      <4> DEFINE here == i + 1
                 there == j + 1
      <4>1. here \in 1..Len(batch[w]) /\ there \in 1..Len(batch[w]) /\ batch[w][here] = batch[w][there]
        BY <1>1, <3>1
      <4> HIDE DEF here, there
      <4>2. wpc[w] # "idle"
        OBVIOUS
      <4>3. here = there
        BY <4>1, <4>2, Zenon DEF HeldByOne
      <4>4. i \in Int /\ j \in Int
        OBVIOUS
      <4> QED BY <4>3, <4>4 DEF here, there
    <3> QED BY <3>1
  <2> QED BY <2>1, <2>2, <2>3 DEF HeldByOne
<1>9. HandledOnce'
  <2> SUFFICES ASSUME covers PROVE HandledOnce'
    BY DEF HandledOnce
  <2>1. \A v \in Workers : wpc'[v] \in {"idle", "read"}
    BY <1>1 DEF HeldByOne
  <2>2. \A k \in Keys :
           /\ row[k] \in {"none", "pending"} => claim'[k] = "none"
           /\ row[k] \in {"none", "pending", "processing"} => evaluated[k] = <<>>
           /\ Len(evaluated[k]) <= 1
    BY DEF HandledOnce
  <2> QED BY <2>1, <2>2 DEF HandledOnce
<1> QED BY <1>5, <1>6, <1>7, <1>8, <1>9

\* A call that is cut short has written at most once.
LEMMA WrittenWhenCut ==
    ASSUME QInv, NEW w \in Workers, wpc[w] # "idle", CutShort(Current(w))
    PROVE  /\ review' \in [Keys -> {"none", "open", "closed"}]
           /\ \E n \in 0..1 : effects' = [effects EXCEPT ![Current(w)] = @ + n]
<1> DEFINE k == Current(w)
<1>1. /\ k \in Keys /\ effects \in [Keys -> 0..1]
      /\ review \in [Keys -> {"none", "open", "closed"}]
  BY CurrentIsKey DEF QInv, WellTyped
<1> HIDE DEF k
<1>2. effects = [effects EXCEPT ![k] = @ + 0]
  BY <1>1
<1>3. \/ UNCHANGED <<review, effects>>
      \/ effects' = [effects EXCEPT ![k] = @ + 1] /\ UNCHANGED review
      \/ review' = [review EXCEPT ![k] = "open"] /\ UNCHANGED effects
  BY DEF CutShort, k
<1>4. review' \in [Keys -> {"none", "open", "closed"}]
  BY <1>1, <1>3
<1>5. \E n \in 0..1 : effects' = [effects EXCEPT ![k] = @ + n]
  BY <1>2, <1>3
<1> QED BY <1>4, <1>5 DEF k

LEMMA LoopStep ==
    ASSUME QInv, NEW w \in Workers,
           \/ ToolFails(w) \/ HandlerRaises(w) \/ DeleteMessage(w) \/ DeleteExpired(w) \/ Crash(w)
    PROVE  QInv'
<1> USE DEF QInv, UntouchedByWorker, setting, api, sqs
<1>1. wpc[w] # "idle"
  BY DEF ToolFails, HandlerRaises, DeleteMessage, DeleteExpired, Crash
<1>2. Current(w) \in Keys
  BY <1>1, CurrentIsKey
<1>3. ASSUME UNCHANGED <<claim, effects>>
      PROVE  /\ claim' \in [Keys -> {"none", "in_progress", "executed", "refused", "failed"}]
             /\ effects' \in [Keys -> 0..1]
             /\ \A k \in Keys :
                   /\ claim'[k] = "none" <=> claim[k] = "none"
                   /\ claim'[k] = "none" => effects'[k] = 0
                   /\ claim'[k] = "executed" => effects'[k] = 1
                   /\ effects[k] = 1 => effects'[k] = 1
             /\ \A v \in Workers \ {w} : wpc[v] = "executing" => effects'[Current(v)] = 0
  BY <1>3 DEF WellTyped, OneChange
<1>4. ASSUME wpc[w] = "executing", NEW written \in 0..1,
             FinishClaim(Current(w), "failed") \/ UNCHANGED claim,
             effects' = [effects EXCEPT ![Current(w)] = @ + written]
      PROVE  /\ claim' \in [Keys -> {"none", "in_progress", "executed", "refused", "failed"}]
             /\ effects' \in [Keys -> 0..1]
             /\ \A k \in Keys :
                   /\ claim'[k] = "none" <=> claim[k] = "none"
                   /\ claim'[k] = "none" => effects'[k] = 0
                   /\ claim'[k] = "executed" => effects'[k] = 1
                   /\ effects[k] = 1 => effects'[k] = 1
             /\ \A v \in Workers \ {w} : wpc[v] = "executing" => effects'[Current(v)] = 0
  <2>1. /\ claim' \in [Keys -> {"none", "in_progress", "executed", "refused", "failed"}]
        /\ effects' \in [Keys -> 0..1]
        /\ \A k \in Keys \ {Current(w)} : claim'[k] = claim[k] /\ effects'[k] = effects[k]
        /\ \A k \in Keys :
              /\ claim'[k] = "none" <=> claim[k] = "none"
              /\ claim'[k] = "none" => effects'[k] = 0
              /\ claim'[k] = "executed" => effects'[k] = 1
              /\ effects[k] = 1 => effects'[k] = 1
        /\ \A v \in Workers \ {w} : wpc[v] = "executing" => Current(v) \in Keys \ {Current(w)}
    BY <1>4, CallEnds
  <2>2. \A v \in Workers \ {w} : wpc[v] = "executing" => effects[Current(v)] = 0
    BY DEF OneChange
  <2> QED BY <2>1, <2>2
<1>6. CASE ToolFails(w)
  <2>1. /\ wpc[w] = "executing" /\ CutShort(Current(w))
        /\ FinishClaim(Current(w), "failed") /\ NextMessage(w)
        /\ UNCHANGED <<setting, api, row, sqs, evaluated>>
    BY <1>6 DEF ToolFails
  <2>2. /\ review' \in [Keys -> {"none", "open", "closed"}]
        /\ \E n \in 0..1 : effects' = [effects EXCEPT ![Current(w)] = @ + n]
    BY <1>1, <2>1, WrittenWhenCut
  <2>3. receiver' \in [Keys -> Workers \cup {None}]
    BY <2>1 DEF WellTyped
  <2> QED BY <1>1, <1>4, <2>1, <2>2, <2>3, MovingOn
<1>7. CASE HandlerRaises(w) \/ DeleteExpired(w)
  <2>1. /\ NextMessage(w) \/ Restarted(w)
        /\ UNCHANGED <<setting, api, row, sqs, claim, review, evaluated, effects>>
    BY <1>7 DEF HandlerRaises, DeleteExpired
  <2>2. /\ receiver' \in [Keys -> Workers \cup {None}]
        /\ review' \in [Keys -> {"none", "open", "closed"}]
    BY <2>1 DEF WellTyped
  <2> QED BY <1>1, <1>3, <2>1, <2>2, MovingOn
<1>8. CASE DeleteMessage(w)
  <2>1. /\ NextMessage(w) /\ queue' = Without(queue, Current(w))
        /\ receiver' = [receiver EXCEPT ![Current(w)] = None]
        /\ UNCHANGED <<setting, api, row, dlq, receives, claim, review, evaluated, effects>>
    BY <1>8 DEF DeleteMessage
  <2>2. /\ receiver' \in [Keys -> Workers \cup {None}]
        /\ review' \in [Keys -> {"none", "open", "closed"}]
        /\ \A k \in Keys : receiver'[k] = receiver[k] \/ k = Current(w)
    BY <1>2, <2>1 DEF WellTyped
  <2> QED BY <1>1, <1>3, <2>1, <2>2, MovingOn
<1>9. CASE Crash(w)
  <2>1. /\ Restarted(w) /\ UNCHANGED <<setting, api, row, sqs, claim, evaluated>>
        /\ IF wpc[w] = "executing" THEN CutShort(Current(w)) ELSE UNCHANGED <<review, effects>>
    BY <1>9 DEF Crash
  <2>2. receiver' \in [Keys -> Workers \cup {None}]
    BY <2>1 DEF WellTyped
  <2>3. CASE wpc[w] # "executing"
    <3>1. review' \in [Keys -> {"none", "open", "closed"}]
      BY <2>1, <2>3 DEF WellTyped
    <3> QED BY <1>1, <1>3, <2>1, <2>2, <2>3, <3>1, MovingOn
  <2>4. CASE wpc[w] = "executing"
    <3>1. /\ review' \in [Keys -> {"none", "open", "closed"}]
          /\ \E n \in 0..1 : effects' = [effects EXCEPT ![Current(w)] = @ + n]
      BY <1>1, <2>1, <2>4, WrittenWhenCut
    <3> QED BY <1>1, <1>4, <2>1, <2>2, <2>4, <3>1, MovingOn
  <2> QED BY <2>3, <2>4
<1> QED BY <1>6, <1>7, <1>8, <1>9

(***************************************************************************)
(* The reviewer.                                                           *)
(***************************************************************************)
\* The reviewer decides on a key that was claimed by a call which has ended, and
\* for which nothing was changed.
LEMMA DecisionStep ==
    ASSUME WInv, NEW k \in Keys, NEW written \in BOOLEAN, Review(k, written)
    PROVE  WInv'
<1> USE DEF WInv, QInv, setting, api, sqs, worker
<1> DEFINE n == IF written THEN 1 ELSE 0
<1>1. /\ review[k] = "open" /\ review' = [review EXCEPT ![k] = "closed"]
      /\ UNCHANGED <<setting, api, row, sqs, worker, claim, evaluated>>
  BY DEF Review
<1>2. claim[k] \notin {"none", "executed"} /\ effects[k] = 0
  BY <1>1 DEF ReviewerActsAlone
<1>3. effects' \in [Keys -> 0..1] /\ \A m \in Keys \ {k} : effects'[m] = effects[m]
  BY <1>2 DEF Review, WellTyped
<1>4. /\ review' \in [Keys -> {"none", "open", "closed"}]
      /\ review'[k] = "closed" /\ \A m \in Keys \ {k} : review'[m] = review[m]
  BY <1>1 DEF WellTyped
<1>5. \A w \in Workers : Current(w)' = Current(w) /\ (wpc[w] # "idle" => Current(w) \in Keys)
  BY <1>1, CurrentIsKey DEF Current
<1>6. WellTyped' /\ MessagesAreOfRows' /\ HeldByOne'
  BY <1>1, <1>3, <1>4 DEF WellTyped, MessagesAreOfRows, HeldByOne
<1>7. \A w \in Workers :
         \/ wpc[w] = "executing"
         \/ wpc[w] \in {"record", "evaluate"} /\ outcome[w] = "completed"
         => Current(w) \in Keys \ {k}
  BY <1>1, <1>5 DEF ReviewerActsAlone
<1>8. OneChange'
  <2>1. \A m \in Keys :
           /\ claim[m] = "none" => effects'[m] = 0
           /\ claim[m] = "executed" => effects'[m] = 1
    BY <1>2, <1>3 DEF OneChange
  <2>2. \A m \in Keys : \A i \in 1..Len(evaluated[m]) :
           evaluated[m][i] = "completed" => effects'[m] = 1
    <3>1. \A i \in 1..Len(evaluated[k]) : evaluated[k][i] # "completed"
      BY <1>2 DEF OneChange
    <3> QED BY <1>3, <3>1 DEF OneChange
  <2>3. \A w \in Workers :
           /\ wpc[w] = "executing" => effects'[Current(w)] = 0
           /\ wpc[w] \in {"record", "evaluate"} /\ outcome[w] = "completed" =>
                 effects'[Current(w)] = 1
    BY <1>3, <1>7 DEF OneChange
  <2> QED BY <1>1, <1>5, <2>1, <2>2, <2>3 DEF OneChange
<1>9. HandledOnce'
  <2>1. \A m \in Keys : UntouchedByWorker(m) => UntouchedByWorker(m)'
    BY <1>3, <1>4 DEF UntouchedByWorker
  <2> QED BY <1>1, <1>5, <2>1 DEF HandledOnce
<1>10. ReviewerActsAlone'
  <2>1. \A m \in Keys :
           /\ claim[m] \in {"none", "executed"} => review'[m] = "none"
           /\ review'[m] = "open" => effects'[m] = 0
    BY <1>2, <1>3, <1>4 DEF ReviewerActsAlone
  <2>2. \A w \in Workers :
           \/ wpc[w] = "executing"
           \/ wpc[w] \in {"record", "evaluate"} /\ outcome[w] = "completed"
           => review'[Current(w)] = "none"
    BY <1>4, <1>7 DEF ReviewerActsAlone
  <2> QED BY <1>1, <1>5, <2>1, <2>2 DEF ReviewerActsAlone
<1> QED BY <1>6, <1>8, <1>9, <1>10

\* Steps that leave the reviewer's requests alone, and after which a worker says
\* "completed" only if it did before.
LEMMA NotReviewed ==
    ASSUME WInv, UNCHANGED <<review, effects>>,
           \A k \in Keys : claim'[k] \in {"none", "executed"} => claim'[k] = claim[k],
           \A v \in Workers :
              \/ wpc'[v] = "executing"
              \/ wpc'[v] \in {"record", "evaluate"} /\ outcome'[v] = "completed"
              => /\ \/ wpc[v] = "executing"
                    \/ wpc[v] \in {"record", "evaluate"} /\ outcome[v] = "completed"
                 /\ Current(v)' = Current(v)
    PROVE  ReviewerActsAlone'
BY DEF WInv, ReviewerActsAlone

\* A worker's step moves that worker.
LEMMA OtherWorkers ==
    ASSUME WInv, NEW w \in Workers, wpc[w] # "idle",
           \/ NextMessage(w) \/ Restarted(w)
           \/ /\ UNCHANGED batch
              /\ \E place \in Places : wpc' = [wpc EXCEPT ![w] = place]
              /\ UNCHANGED outcome \/ \E said : outcome' = [outcome EXCEPT ![w] = said]
    PROVE  /\ \A v \in Workers \ {w} :
                 wpc'[v] = wpc[v] /\ outcome'[v] = outcome[v] /\ Current(v)' = Current(v)
           /\ NextMessage(w) \/ Restarted(w) => wpc'[w] \in {"idle", "read"}
           /\ UNCHANGED batch => Current(w)' = Current(w)
<1> USE DEF WInv, QInv, WellTyped, Current
<1>1. CASE NextMessage(w)
  BY <1>1 DEF NextMessage
<1>2. CASE Restarted(w)
  BY <1>2 DEF Restarted
<1>3. CASE /\ UNCHANGED batch
           /\ \E place \in Places : wpc' = [wpc EXCEPT ![w] = place]
           /\ UNCHANGED outcome \/ \E said : outcome' = [outcome EXCEPT ![w] = said]
  BY <1>3 DEF NextMessage, Restarted, Places
<1> QED BY <1>1, <1>2, <1>3

\* A worker may be where its key has not been put to a reviewer.
Concerned(w) ==
    \/ wpc[w] = "executing"
    \/ wpc[w] \in {"record", "evaluate"} /\ outcome[w] = "completed"

\* A call that ends, or is cut short, asks a reviewer only about a change that
\* it did not write.
LEMMA CallReviewed ==
    ASSUME WInv, NEW w \in Workers, wpc[w] = "executing",
           \A m \in Keys \ {Current(w)} :
              claim'[m] = claim[m] /\ effects'[m] = effects[m] /\ review'[m] = review[m],
           \A v \in Workers \ {w} :
              wpc'[v] = wpc[v] /\ outcome'[v] = outcome[v] /\ Current(v)' = Current(v),
           \/ /\ review'[Current(w)] = review[Current(w)]
              /\ Concerned(w)' => Current(w)' = Current(w)
           \/ /\ effects'[Current(w)] = effects[Current(w)]
              /\ claim'[Current(w)] \notin {"none", "executed"}
              /\ ~Concerned(w)'
    PROVE  ReviewerActsAlone'
<1> USE DEF WInv, QInv, Concerned
<1> DEFINE k == Current(w)
<1>1. k \in Keys /\ review[k] = "none" /\ effects[k] = 0
  BY CurrentIsKey DEF ReviewerActsAlone, OneChange
<1>2. \A v \in Workers \ {w} : Concerned(v) => Current(v) \in Keys \ {k}
  BY <1>1, CurrentIsKey DEF OneChange, WellTyped
<1>3. \A v \in Workers : Concerned(v) => review[Current(v)] = "none"
  BY DEF ReviewerActsAlone
<1>4. \A m \in Keys :
         /\ claim'[m] \in {"none", "executed"} => review'[m] = "none"
         /\ review'[m] = "open" => effects'[m] = 0
  BY <1>1 DEF ReviewerActsAlone
<1>5. \A v \in Workers \ {w} : Concerned(v)' => review'[Current(v)'] = "none"
  BY <1>2, <1>3
<1>6. Concerned(w)' => review'[Current(w)'] = "none"
  BY <1>1
<1> QED BY <1>4, <1>5, <1>6 DEF ReviewerActsAlone

\* The five ways in which a tool call ends.
LEMMA CallEndsAlone ==
    ASSUME WInv, NEW w \in Workers, wpc[w] = "executing",
           \/ ToolRejects(w) \/ ToolHolds(w) \/ ToolFails(w) \/ Crash(w)
           \/ \E executed \in BOOLEAN : ToolReturns(w, executed)
    PROVE  ReviewerActsAlone'
<1> USE DEF WInv, QInv
<1> DEFINE k == Current(w)
<1>1. /\ k \in Keys /\ effects[k] = 0 /\ claim[k] \notin {"none", "executed"}
      /\ claim \in [Keys -> {"none", "in_progress", "executed", "refused", "failed"}]
      /\ effects \in [Keys -> 0..1] /\ review \in [Keys -> {"none", "open", "closed"}]
      /\ wpc \in [Workers -> Places] /\ wpc[w] # "idle"
  BY CurrentIsKey DEF OneChange, WellTyped
<1>2. ASSUME NEW status \in {"refused", "failed", "executed"}, FinishClaim(k, status)
      PROVE  /\ \A m \in Keys \ {k} : claim'[m] = claim[m]
             /\ status # "executed" => claim'[k] \notin {"none", "executed"}
  BY <1>1, <1>2 DEF FinishClaim
<1>3. ASSUME CutShort(k)
      PROVE  /\ \A m \in Keys \ {k} : effects'[m] = effects[m] /\ review'[m] = review[m]
             /\ review'[k] = review[k] \/ effects'[k] = effects[k]
  BY <1>1, <1>3 DEF CutShort
<1>4. CASE \E executed \in BOOLEAN : ToolReturns(w, executed)
  <2>1. PICK executed \in BOOLEAN : ToolReturns(w, executed)
    BY <1>4
  <2>2. /\ Outcome(w, "record", IF executed THEN "completed" ELSE "failed")
        /\ FinishClaim(k, IF executed THEN "executed" ELSE "refused")
        /\ effects' = [effects EXCEPT ![k] = IF executed THEN @ + 1 ELSE @]
        /\ UNCHANGED review
    BY <2>1 DEF ToolReturns
  <2>3. /\ \A m \in Keys \ {k} :
              claim'[m] = claim[m] /\ effects'[m] = effects[m] /\ review'[m] = review[m]
        /\ review'[k] = review[k]
    BY <1>1, <1>2, <2>2
  <2>4. /\ \A v \in Workers \ {w} :
              wpc'[v] = wpc[v] /\ outcome'[v] = outcome[v] /\ Current(v)' = Current(v)
        /\ Current(w)' = k
    BY <1>1, <2>2, OtherWorkers DEF Outcome, Places
  <2> QED BY <2>3, <2>4, CallReviewed
<1>5. CASE ToolRejects(w)
  <2>1. Outcome(w, "reject", "failed") /\ FinishClaim(k, "failed") /\ UNCHANGED <<review, effects>>
    BY <1>5 DEF ToolRejects
  <2>2. /\ \A v \in Workers \ {w} :
              wpc'[v] = wpc[v] /\ outcome'[v] = outcome[v] /\ Current(v)' = Current(v)
        /\ Current(w)' = k
    BY <1>1, <2>1, OtherWorkers DEF Outcome, Places
  <2> QED BY <1>1, <1>2, <2>1, <2>2, CallReviewed
<1>6. CASE ToolHolds(w)
  <2>1. /\ Outcome(w, "record", "failed") /\ FinishClaim(k, "refused")
        /\ review' = [review EXCEPT ![k] = "open"] /\ UNCHANGED effects
    BY <1>6 DEF ToolHolds
  <2>2. /\ \A v \in Workers \ {w} :
              wpc'[v] = wpc[v] /\ outcome'[v] = outcome[v] /\ Current(v)' = Current(v)
        /\ ~Concerned(w)'
    <3>1. \A v \in Workers \ {w} :
             wpc'[v] = wpc[v] /\ outcome'[v] = outcome[v] /\ Current(v)' = Current(v)
      BY <1>1, <2>1, OtherWorkers DEF Outcome, Places
    <3>2. wpc'[w] = "record" /\ outcome'[w] = "failed"
      BY <1>1, <2>1 DEF Outcome, WellTyped
    <3> QED BY <3>1, <3>2 DEF Concerned
  <2>3. claim'[k] \notin {"none", "executed"} /\ \A m \in Keys \ {k} : claim'[m] = claim[m]
    BY <1>2, <2>1
  <2> QED BY <1>1, <2>1, <2>2, <2>3, CallReviewed
<1>7. CASE ToolFails(w) \/ Crash(w)
  <2>1. /\ CutShort(k)
        /\ FinishClaim(k, "failed") \/ UNCHANGED claim
        /\ NextMessage(w) \/ Restarted(w)
    BY <1>7 DEF ToolFails, Crash
  <2>2. /\ \A v \in Workers \ {w} :
              wpc'[v] = wpc[v] /\ outcome'[v] = outcome[v] /\ Current(v)' = Current(v)
        /\ ~Concerned(w)'
    BY <1>1, <2>1, OtherWorkers DEF Concerned
  <2>3. claim'[k] \notin {"none", "executed"} /\ \A m \in Keys \ {k} : claim'[m] = claim[m]
    BY <1>1, <1>2, <2>1
  <2>4. /\ \A m \in Keys \ {k} : effects'[m] = effects[m] /\ review'[m] = review[m]
        /\ review'[k] = review[k] \/ effects'[k] = effects[k]
    BY <1>3, <2>1
  <2>5. CASE review'[k] = review[k]
    BY <2>2, <2>3, <2>4, <2>5, CallReviewed
  <2>6. CASE effects'[k] = effects[k]
    BY <2>2, <2>3, <2>4, <2>6, CallReviewed
  <2> QED BY <2>4, <2>5, <2>6
<1> QED BY <1>4, <1>5, <1>6, <1>7

\* The other steps of a worker; a claim is taken of a key nobody was asked about.
LEMMA WorkerActsAlone ==
    ASSUME WInv, NEW w \in Workers, wpc[w] # "idle", wpc[w] # "executing",
           \/ WorkerStep(w) \/ HandlerRaises(w) \/ Crash(w)
    PROVE  ReviewerActsAlone'
<1> USE DEF WInv, QInv
<1>1. UNCHANGED <<review, effects>>
  BY DEF WorkerStep, ReadRow, MarkProcessing, GuardRefuses, ClaimKey, ClaimTaken, ToolReturns,
         ToolHolds, ToolRejects, RecordFailure, RecordOutcome, RecordEvaluation,
         DeleteMessage, DeleteExpired, HandlerRaises, Crash
<1>2. ASSUME UNCHANGED claim, NextMessage(w) \/ Restarted(w) PROVE ReviewerActsAlone'
  BY <1>1, <1>2, OtherWorkers, NotReviewed
<1>3. ASSUME UNCHANGED <<claim, batch>>, NEW place \in Places \ {"executing", "record"},
             wpc' = [wpc EXCEPT ![w] = place],
             UNCHANGED outcome \/ outcome' = [outcome EXCEPT ![w] = None]
                               \/ outcome' = [outcome EXCEPT ![w] = "failed"],
             place = "evaluate" => wpc[w] = "record" /\ UNCHANGED outcome
      PROVE  ReviewerActsAlone'
  <2>1. /\ \A v \in Workers \ {w} :
              wpc'[v] = wpc[v] /\ outcome'[v] = outcome[v] /\ Current(v)' = Current(v)
        /\ Current(w)' = Current(w)
    BY <1>3, OtherWorkers
  <2>2. wpc'[w] = place
    BY <1>3 DEF WellTyped
  <2> QED BY <1>1, <1>3, <2>1, <2>2, NotReviewed
<1>4. CASE ReadRow(w) \/ MarkProcessing(w) \/ GuardRefuses(w)
  BY <1>3, <1>4 DEF ReadRow, MarkProcessing, GuardRefuses, Goto, Outcome, Places
<1>5. CASE RecordFailure(w) \/ RecordOutcome(w) \/ RecordEvaluation(w)
  BY <1>3, <1>5 DEF RecordFailure, RecordOutcome, RecordEvaluation, Handled, Goto, Places
<1>6. CASE DeleteMessage(w) \/ DeleteExpired(w) \/ HandlerRaises(w) \/ Crash(w)
  BY <1>2, <1>6 DEF DeleteMessage, DeleteExpired, HandlerRaises, Crash
<1>7. CASE ClaimKey(w) \/ ClaimTaken(w)
  <2> DEFINE k == Current(w)
  <2>1. k \in Keys /\ UNCHANGED batch
    BY <1>7, CurrentIsKey DEF ClaimKey, ClaimTaken, Goto, Outcome
  <2>2. /\ \A v \in Workers \ {w} :
              wpc'[v] = wpc[v] /\ outcome'[v] = outcome[v] /\ Current(v)' = Current(v)
        /\ Current(w)' = k
    BY <1>7, OtherWorkers DEF ClaimKey, ClaimTaken, Goto, Outcome, Places
  <2>3. \A m \in Keys : claim'[m] \in {"none", "executed"} => claim'[m] = claim[m]
    BY <1>7, <2>1 DEF ClaimKey, ClaimTaken, WellTyped
  <2>4. Concerned(w)' => review[k] = "none"
    <3>1. CASE ClaimKey(w)
      BY <2>1, <3>1 DEF ClaimKey, ReviewerActsAlone
    <3>2. CASE ClaimTaken(w)
      <4>1. wpc'[w] = "record" /\ (outcome'[w] = "completed" => claim[k] = "executed")
        BY <3>2 DEF ClaimTaken, Outcome, WellTyped
      <4> QED BY <2>1, <4>1 DEF Concerned, ReviewerActsAlone
    <3> QED BY <1>7, <3>1, <3>2
  <2>5. \A v \in Workers : Concerned(v)' => review'[Current(v)'] = "none"
    BY <1>1, <2>2, <2>4 DEF Concerned, ReviewerActsAlone
  <2> QED BY <1>1, <2>3, <2>5 DEF Concerned, ReviewerActsAlone
<1>8. ~ToolHolds(w) /\ ~ToolRejects(w) /\ \A executed \in BOOLEAN : ~ToolReturns(w, executed)
  BY DEF ToolHolds, ToolRejects, ToolReturns
<1> QED BY <1>4, <1>5, <1>6, <1>7, <1>8 DEF WorkerStep

\* SQS and the API do not know the reviewer's requests.
LEMMA OthersActAlone ==
    ASSUME WInv,
           \/ \E a \in Clients : \/ ApiStep(a) \/ PublishFails(a)
                                 \/ \E k \in Keys : Submit(a, k)
           \/ \E w \in Workers : VisibilityTimeout(w)
           \/ \E k \in Keys : Redrive(k)
    PROVE  ReviewerActsAlone'
<1>1. UNCHANGED <<worker, claim, review, effects>>
  BY DEF ApiStep, InsertRow, InsertConflict, Publish, PublishFails, Submit, VisibilityTimeout, Redrive
<1> QED BY <1>1, NotReviewed DEF worker, Current

LEMMA ReceivedAlone ==
    ASSUME WInv, NEW w \in Workers, Receive(w)
    PROVE  ReviewerActsAlone'
<1>1. UNCHANGED <<claim, review, effects, outcome>> /\ wpc[w] = "idle"
  BY DEF Receive
<1>2. /\ wpc'[w] = "read"
      /\ \A v \in Workers \ {w} : wpc'[v] = wpc[v] /\ Current(v)' = Current(v)
  BY DEF Receive, Current, WInv, QInv, WellTyped
<1> QED BY <1>1, <1>2, NotReviewed

(***************************************************************************)
(* The invariant, and what follows from it.                                *)
(***************************************************************************)
LEMMA Invariance == Spec => []WInv
<1>1. ASSUME WInv, [Next]_vars PROVE WInv'
  <2>1. CASE UNCHANGED vars
    <3>1. \A w \in Workers : Current(w)' = Current(w)
      BY <2>1 DEF vars, Current
    <3>2. WellTyped' /\ MessagesAreOfRows'
      BY <1>1, <2>1 DEF vars, WInv, QInv, WellTyped, MessagesAreOfRows
    <3>3. OneChange' /\ HeldByOne' /\ HandledOnce'
      BY <1>1, <2>1, <3>1
      DEF vars, WInv, QInv, OneChange, HeldByOne, HandledOnce, UntouchedByWorker
    <3>4. ReviewerActsAlone'
      BY <1>1, <2>1, <3>1 DEF vars, WInv, ReviewerActsAlone
    <3> QED BY <3>2, <3>3, <3>4 DEF WInv, QInv
  <2>2. ASSUME NEW a \in Clients,
               ApiStep(a) \/ PublishFails(a) \/ \E k \in Sends[a] : Submit(a, k)
        PROVE  WInv'
    <3>1. ApiStep(a) \/ PublishFails(a) \/ \E k \in Keys : Submit(a, k)
      BY <2>2, BoundsAssumption DEF BoundsAssumption
    <3>2. QInv'
      BY <1>1, <3>1, SubmissionStep DEF ApiStep, WInv
    <3> QED BY <1>1, <3>1, <3>2, OthersActAlone DEF WInv
  <2>3. ASSUME NEW w \in Workers,
               \/ Receive(w) \/ WorkerStep(w) \/ HandlerRaises(w) \/ ToolFails(w)
               \/ Crash(w) \/ VisibilityTimeout(w)
        PROVE  WInv'
    <3>1. CASE Receive(w)
      BY <1>1, <3>1, ReceiveStep, ReceivedAlone DEF WInv
    <3>2. CASE VisibilityTimeout(w)
      BY <1>1, <3>2, ExpiryStep, OthersActAlone DEF WInv
    <3>3. CASE WorkerStep(w) \/ HandlerRaises(w) \/ ToolFails(w) \/ Crash(w)
      <4>1. QInv'
        <5>1. CASE \/ ToolFails(w) \/ HandlerRaises(w) \/ Crash(w)
                   \/ DeleteMessage(w) \/ DeleteExpired(w)
          BY <1>1, <5>1, LoopStep DEF WInv
        <5>2. CASE ReadRow(w) \/ MarkProcessing(w)
          BY <1>1, <5>2, ReadStep DEF WInv
        <5>3. CASE GuardRefuses(w) \/ ClaimKey(w) \/ ClaimTaken(w)
          BY <1>1, <5>3, ClaimStep DEF WInv
        <5>4. CASE \/ ToolRejects(w) \/ ToolHolds(w)
                   \/ \E executed \in BOOLEAN : ToolReturns(w, executed)
          BY <1>1, <5>4, CallStep DEF WInv
        <5>5. CASE RecordFailure(w) \/ RecordOutcome(w)
          BY <1>1, <5>5, RecordStep DEF WInv
        <5>6. CASE RecordEvaluation(w)
          BY <1>1, <5>6, EvaluationStep DEF WInv
        <5> QED BY <3>3, <5>1, <5>2, <5>3, <5>4, <5>5, <5>6 DEF WorkerStep
      <4>2. CASE wpc[w] = "executing"
        <5>1. \/ ToolRejects(w) \/ ToolHolds(w) \/ ToolFails(w) \/ Crash(w)
              \/ \E executed \in BOOLEAN : ToolReturns(w, executed)
          BY <3>3, <4>2
          DEF WorkerStep, ReadRow, MarkProcessing, GuardRefuses, ClaimKey, ClaimTaken,
              RecordFailure, RecordOutcome, RecordEvaluation, DeleteMessage, DeleteExpired,
              HandlerRaises
        <5> QED BY <1>1, <4>1, <4>2, <5>1, CallEndsAlone DEF WInv
      <4>3. CASE wpc[w] # "executing"
        <5>1. wpc[w] # "idle" /\ ~ToolFails(w)
          BY <3>3, <4>3
          DEF WorkerStep, ReadRow, MarkProcessing, GuardRefuses, ClaimKey, ClaimTaken,
              ToolRejects, ToolHolds, ToolReturns, ToolFails,
              RecordFailure, RecordOutcome, RecordEvaluation, DeleteMessage, DeleteExpired,
              HandlerRaises, Crash
        <5> QED BY <1>1, <3>3, <4>1, <4>3, <5>1, WorkerActsAlone DEF WInv
      <4> QED BY <4>2, <4>3
    <3> QED BY <2>3, <3>1, <3>2, <3>3
  <2>4. ASSUME NEW k \in Keys, Redrive(k) PROVE WInv'
    BY <1>1, <2>4, RedriveStep, OthersActAlone DEF WInv
  <2>5. ASSUME NEW k \in Keys, NEW written \in BOOLEAN, Review(k, written) PROVE WInv'
    BY <1>1, <2>5, DecisionStep
  <2> QED BY <1>1, <2>1, <2>2, <2>3, <2>4, <2>5 DEF Next
<1> QED BY Initially, <1>1, PTL DEF Spec

\* Every variable keeps its type, and a message is queued once: the row of a key
\* is inserted once, and only the request that inserted it publishes.
THEOREM TypeCorrect == Spec => []TypeOK
<1>1. ASSUME WInv PROVE TypeOK
  <2>1. queue \in Seq(Keys) /\ DOMAIN queue = 1..Len(queue)
    BY <1>1 DEF WInv, QInv, WellTyped
  <2>2. IsInjective(queue)
    <3>1. \A i, j \in DOMAIN queue : queue[i] = queue[j] => i = j
      BY <1>1, <2>1 DEF WInv, QInv, MessagesAreOfRows
    <3> QED BY <3>1, Zenon DEF IsInjective
  <2>3. effects \in [Keys -> Nat]
    <3>1. effects \in [Keys -> 0..1]
      BY <1>1 DEF WInv, QInv, WellTyped
    <3>2. 0..1 \subseteq Nat
      OBVIOUS
    <3> QED BY <3>1, <3>2
  <2>4. WellTyped
    BY <1>1 DEF WInv, QInv
  <2>5. wpc \in [Workers -> {"idle", "read", "mark", "execute", "executing",
                           "reject", "record", "evaluate", "delete"}]
    BY <2>4 DEF WellTyped, Places
  <2> QED BY <2>2, <2>3, <2>4, <2>5, Zenon DEF WellTyped, TypeOK
<1> QED BY <1>1, Invariance, PTL

\* A message in the queue is of a committed row: submit_action publishes after
\* its commit, and nothing removes a row.
THEOREM QueuedRowsExist == Spec => []MessagesHaveRows
<1>1. WInv => MessagesHaveRows
  BY DEF WInv, QInv, MessagesAreOfRows, MessagesHaveRows, ToSet
<1> QED BY <1>1, Invariance, PTL

\* While the visibility timeout covers a batch, one worker at a time is between
\* reading a request of the tenant and recording its outcome: the message group
\* holds back every other delivery.
THEOREM OneWorkerAtATime == Spec => []TenantWorkIsSerialized
<1>1. ASSUME WInv, covers PROVE Cardinality({w \in Workers : wpc[w] \in Busy}) <= 1
  <2> DEFINE busy == {w \in Workers : wpc[w] \in Busy}
  <2>1. \A w, v \in busy : w = v
    BY <1>1 DEF WInv, QInv, HeldByOne, Busy
  <2>2. CASE busy = {}
    BY <2>2, FS_EmptySet
  <2>3. CASE busy # {}
    <3>1. PICK w \in busy : TRUE
      BY <2>3
    <3>2. busy = {w}
      BY <2>1, <3>1
    <3>3. Cardinality({w}) = 1
      BY FS_Singleton
    <3> QED BY <3>2, <3>3
  <2> QED BY <2>2, <2>3
<1>2. WInv => TenantWorkIsSerialized
  BY <1>1 DEF TenantWorkIsSerialized
<1> QED BY <1>2, Invariance, PTL

\* The evaluation records tell of a success only when the change was written,
\* and count a request once unless two workers held it.
THEOREM EvaluationsAreTrue == Spec => []EvaluationsMatch
<1>1. WInv => EvaluationsMatch
  BY DEF WInv, QInv, OneChange, HandledOnce, EvaluationsMatch, ToSet
<1> QED BY <1>1, Invariance, PTL

(***************************************************************************)
(* Refinement of ActionRequests.                                           *)
(***************************************************************************)
LEMMA SeenIsTold ==
    ASSUME WInv, NEW k \in Keys
    PROVE  /\ Seen[k] = Told(row[k])
           /\ Seen[k] = "unknown" <=> row[k] = "none"
           /\ row[k] \in {"pending", "processing"} => Seen[k] = "open"
           /\ row[k] \in Settled => Seen[k] = row[k]
<1>1. row[k] \in {"none", "pending", "processing"} \cup Settled
  BY DEF WInv, QInv, WellTyped
<1> QED BY <1>1 DEF Seen, Told, Settled

\* A new status of one row shows to the client as a new answer for its key.
LEMMA RowChangeIsSeen ==
    ASSUME WInv, NEW k \in Keys, NEW status, row' = [row EXCEPT ![k] = status]
    PROVE  Seen' = [Seen EXCEPT ![k] = Told(status)]
<1>1. row \in [Keys -> {"none", "pending", "processing"} \cup Settled]
  BY DEF WInv, QInv, WellTyped
<1>2. \A m \in Keys : row'[m] = IF m = k THEN status ELSE row[m]
  BY <1>1
<1>3. \A m \in Keys : Seen'[m] = Told(row'[m]) /\ Seen[m] = Told(row[m])
  BY DEF Seen, Told
<1>4. \A m \in Keys : Seen'[m] = IF m = k THEN Told(status) ELSE Seen[m]
  BY <1>2, <1>3
<1>5. Seen = [m \in Keys |-> Seen[m]] /\ Seen' = [m \in Keys |-> Seen'[m]]
  BY DEF Seen
<1> QED BY <1>4, <1>5

\* A request that a worker holds has been accepted; while one worker at most
\* holds it, it is still open.
LEMMA HeldIsOpen ==
    ASSUME WInv, NEW w \in Workers,
           wpc[w] \in {"mark", "execute", "executing", "reject", "record"}
    PROVE  /\ Current(w) \in Keys /\ Seen[Current(w)] # "unknown"
           /\ covers => Seen[Current(w)] = "open"
<1>1. Current(w) \in Keys /\ row[Current(w)] # "none"
  BY CurrentIsKey DEF WInv, QInv, MessagesAreOfRows
<1>2. covers => row[Current(w)] \in {"pending", "processing"}
  BY DEF WInv, QInv, HandledOnce
<1> QED BY <1>1, <1>2, SeenIsTold

\* The steps that neither touch a row, write a change nor concern a reviewer.
Unseen == UNCHANGED <<covers, row, review, effects>>

LEMMA UnseenStutters ==
    ASSUME Unseen PROVE UNCHANGED <<covers, Seen, review, effects>>
BY DEF Unseen, Seen

\* A call that runs is of an accepted request for which nothing was done yet, so
\* its change, or its request for approval, is the first for the key.
LEMMA CallIsFirst ==
    ASSUME WInv, NEW w \in Workers, wpc[w] = "executing"
    PROVE  /\ Current(w) \in Keys
           /\ effects[Current(w)] = 0 /\ review[Current(w)] = "none"
           /\ Seen[Current(w)] # "unknown" /\ (covers => Seen[Current(w)] = "open")
<1>1. effects[Current(w)] = 0 /\ review[Current(w)] = "none"
  BY DEF WInv, QInv, OneChange, ReviewerActsAlone
<1> QED BY <1>1, HeldIsOpen

\* What a tool call may have done when it ends.
CallDoes(k) ==
    \/ UNCHANGED <<review, effects>>
    \/ effects' = [effects EXCEPT ![k] = @ + 1] /\ UNCHANGED review
    \/ review' = [review EXCEPT ![k] = "open"] /\ UNCHANGED effects

\* A step in which a client can see something.
LEMMA Kinds ==
    ASSUME WInv, [Next]_vars
    PROVE  \/ Unseen
           \/ \E a \in Clients : InsertRow(a)
           \/ \E w \in Workers :
                 \/ MarkProcessing(w) \/ RecordFailure(w) \/ RecordOutcome(w)
                 \/ /\ wpc[w] = "executing" /\ UNCHANGED <<covers, row>>
                    /\ CallDoes(Current(w))
           \/ \E k \in Keys, written \in BOOLEAN : Review(k, written)
<1> USE DEF Unseen, setting
<1>1. CASE UNCHANGED vars
  BY <1>1 DEF vars
<1>2. ASSUME NEW a \in Clients,
             ApiStep(a) \/ PublishFails(a) \/ \E k \in Sends[a] : Submit(a, k)
      PROVE  Unseen \/ InsertRow(a)
  BY <1>2 DEF ApiStep, InsertConflict, Publish, PublishFails, Submit
<1>3. ASSUME NEW w \in Workers, WorkerStep(w)
      PROVE  \/ Unseen \/ MarkProcessing(w) \/ RecordFailure(w) \/ RecordOutcome(w)
             \/ ToolHolds(w) \/ \E executed \in BOOLEAN : ToolReturns(w, executed)
  BY <1>3 DEF WorkerStep, ReadRow, GuardRefuses, ClaimKey, ClaimTaken, ToolRejects,
              RecordEvaluation, DeleteMessage, DeleteExpired
<1>4. ASSUME NEW w \in Workers,
             ToolHolds(w) \/ ToolFails(w) \/ \E executed \in BOOLEAN : ToolReturns(w, executed)
      PROVE  wpc[w] = "executing" /\ UNCHANGED <<covers, row>> /\ CallDoes(Current(w))
  <2>1. effects = [effects EXCEPT ![Current(w)] = @]
    BY DEF WInv, QInv, WellTyped
  <2>2. CASE ToolHolds(w) \/ ToolFails(w)
    BY <2>2 DEF ToolHolds, ToolFails, CallDoes, CutShort
  <2>3. ASSUME NEW executed \in BOOLEAN, ToolReturns(w, executed)
        PROVE  wpc[w] = "executing" /\ UNCHANGED <<covers, row>> /\ CallDoes(Current(w))
    <3>1. /\ wpc[w] = "executing" /\ UNCHANGED <<covers, row, review>>
          /\ effects' = [effects EXCEPT ![Current(w)] = IF executed THEN @ + 1 ELSE @]
      BY <2>3 DEF ToolReturns
    <3>2. CASE executed
      BY <3>1, <3>2 DEF CallDoes
    <3>3. CASE ~executed
      BY <2>1, <3>1, <3>3 DEF CallDoes
    <3> QED BY <3>2, <3>3
  <2> QED BY <1>4, <2>2, <2>3
<1>5. ASSUME NEW w \in Workers, Receive(w) \/ HandlerRaises(w) \/ VisibilityTimeout(w)
      PROVE  Unseen
  BY <1>5 DEF Receive, HandlerRaises, VisibilityTimeout
<1>6. ASSUME NEW w \in Workers, Crash(w)
      PROVE  \/ Unseen
             \/ wpc[w] = "executing" /\ UNCHANGED <<covers, row>> /\ CallDoes(Current(w))
  BY <1>6 DEF Crash, CallDoes, CutShort
<1>7. ASSUME NEW k \in Keys, Redrive(k) PROVE Unseen
  BY <1>7 DEF Redrive
<1> HIDE DEF Unseen
<1> QED BY <1>1, <1>2, <1>3, <1>4, <1>5, <1>6, <1>7, Zenon DEF Next

\* The asynchronous path implements ActionRequests: what a client that polls sees
\* and how often the restaurant changes is what that specification allows, for
\* any number of clients, workers, requests, deliveries and failures.
THEOREM Refinement == Spec => ImplementsRequests
<1>1. Init => Requests!Init
  <2> SUFFICES ASSUME Init PROVE Requests!Init
    OBVIOUS
  <2>1. covers \in BOOLEAN
    BY BoundsAssumption DEF Init, BoundsAssumption
  <2>2. /\ Seen = [k \in Keys |-> "unknown"] /\ effects = [k \in Keys |-> 0]
        /\ review = [k \in Keys |-> "none"]
    BY DEF Init, Seen, Told
  <2> QED BY <2>1, <2>2 DEF Requests!Init
<1>2. ASSUME WInv, [Next]_vars PROVE [Requests!Next]_(Requests!vars)
  <2>1. CASE Unseen
    BY <2>1, UnseenStutters DEF Requests!vars
  <2>2. ASSUME NEW a \in Clients, InsertRow(a) PROVE Requests!Next
    <3>1. akey[a] \in Keys /\ row[akey[a]] = "none" /\ row' = [row EXCEPT ![akey[a]] = "pending"]
          /\ UNCHANGED <<covers, review, effects>>
      BY <1>2, <2>2 DEF InsertRow, WInv, QInv, WellTyped, setting
    <3>2. Seen[akey[a]] = "unknown" /\ Seen' = [Seen EXCEPT ![akey[a]] = Told("pending")]
      BY <1>2, <3>1, SeenIsTold, RowChangeIsSeen
    <3>3. Told("pending") = "open"
      BY DEF Told, Settled
    <3>4. Requests!Accept(akey[a])
      BY <3>1, <3>2, <3>3 DEF Requests!Accept
    <3> QED BY <3>1, <3>4 DEF Requests!Next
  <2>3. ASSUME NEW w \in Workers, MarkProcessing(w) PROVE [Requests!Next]_(Requests!vars)
    <3> DEFINE k == Current(w)
    <3>1. k \in Keys /\ Seen[k] # "unknown" /\ (covers => Seen[k] = "open")
      BY <1>2, <2>3, HeldIsOpen DEF MarkProcessing
    <3>2. row' = [row EXCEPT ![k] = "processing"] /\ UNCHANGED <<covers, review, effects>>
      BY <2>3 DEF MarkProcessing, setting
    <3>3. Seen' = [Seen EXCEPT ![k] = "open"]
      <4>1. Told("processing") = "open"
        BY DEF Told, Settled
      <4> QED BY <1>2, <3>1, <3>2, <4>1, RowChangeIsSeen
    <3>4. CASE Seen[k] = "open"
      <4>1. Seen' = Seen
        BY <3>1, <3>3, <3>4 DEF Seen
      <4> QED BY <3>2, <4>1 DEF Requests!vars
    <3>5. CASE Seen[k] # "open"
      <4>1. row[k] \in Settled /\ Seen[k] = row[k] /\ ~covers
        BY <1>2, <3>1, <3>5, SeenIsTold DEF WInv, QInv, WellTyped
      <4>2. Requests!Reopen(k)
        BY <3>2, <3>3, <4>1 DEF Requests!Reopen, Requests!Answers, Settled
      <4> QED BY <3>1, <4>2 DEF Requests!Next
    <3> QED BY <3>4, <3>5
  <2>4. ASSUME NEW w \in Workers, RecordFailure(w) \/ RecordOutcome(w) PROVE Requests!Next
    <3> DEFINE k == Current(w)
    <3>1. k \in Keys /\ Seen[k] # "unknown" /\ (covers => Seen[k] = "open")
      BY <1>2, <2>4, HeldIsOpen DEF RecordFailure, RecordOutcome
    <3>2. PICK said \in Settled :
             /\ row' = [row EXCEPT ![k] = said] /\ UNCHANGED <<covers, review, effects>>
             /\ said = "completed" => effects[k] = 1 /\ review[k] = "none"
             /\ covers /\ said = "failed" => UntouchedByWorker(k)
      <4>1. CASE RecordFailure(w)
        <5>1. /\ row' = [row EXCEPT ![k] = "failed"] /\ UNCHANGED <<covers, review, effects>>
              /\ wpc[w] = "reject"
          BY <4>1 DEF RecordFailure, setting
        <5>2. covers => UntouchedByWorker(k)
          BY <1>2, <5>1 DEF WInv, QInv, HandledOnce
        <5> QED BY <5>1, <5>2 DEF Settled
      <4>2. CASE RecordOutcome(w)
        <5>1. /\ row' = [row EXCEPT ![k] = outcome[w]] /\ UNCHANGED <<covers, review, effects>>
              /\ wpc[w] = "record"
          BY <4>2 DEF RecordOutcome, setting
        <5>2. /\ outcome[w] \in Settled
              /\ outcome[w] = "completed" => effects[k] = 1 /\ review[k] = "none"
          BY <1>2, <5>1 DEF WInv, QInv, WellTyped, OneChange, ReviewerActsAlone
        <5>3. covers /\ outcome[w] = "failed" => UntouchedByWorker(k)
          BY <1>2, <5>1 DEF WInv, QInv, HandledOnce
        <5> QED BY <5>1, <5>2, <5>3
      <4> QED BY <2>4, <4>1, <4>2
    <3>3. Seen' = [Seen EXCEPT ![k] = said]
      <4>1. Told(said) = said
        BY DEF Told, Settled
      <4>2. WInv /\ k \in Keys /\ row' = [row EXCEPT ![k] = said]
        BY <1>2, <3>1, <3>2
      <4> HIDE DEF k
      <4>3. Seen' = [Seen EXCEPT ![k] = Told(said)]
        BY <4>2, RowChangeIsSeen
      <4> QED BY <4>1, <4>3
    <3>4. Requests!Answer(k, said)
      BY <3>1, <3>2, <3>3 DEF Requests!Answer, UntouchedByWorker
    <3>5. said \in Requests!Answers
      BY DEF Requests!Answers, Settled
    <3> QED BY <3>1, <3>4, <3>5 DEF Requests!Next
  <2>5. ASSUME NEW w \in Workers, wpc[w] = "executing", UNCHANGED <<covers, row>>,
               CallDoes(Current(w))
        PROVE  [Requests!Next]_(Requests!vars)
    <3> DEFINE k == Current(w)
    <3>1. Seen' = Seen /\ effects \in [Keys -> 0..1]
      BY <1>2, <2>5 DEF Seen, WInv, QInv, WellTyped
    <3>2. /\ k \in Keys /\ effects[k] = 0 /\ review[k] = "none"
          /\ Seen[k] # "unknown" /\ (covers => Seen[k] = "open")
      BY <1>2, <2>5, CallIsFirst
    <3>3. CASE UNCHANGED <<review, effects>>
      BY <2>5, <3>1, <3>3 DEF Requests!vars
    <3>4. CASE effects' = [effects EXCEPT ![k] = @ + 1] /\ UNCHANGED review
      <4>1. effects' = [effects EXCEPT ![k] = 1]
        BY <3>1, <3>2, <3>4
      <4>2. Requests!Write(k)
        BY <2>5, <3>1, <3>2, <3>4, <4>1 DEF Requests!Write
      <4> QED BY <3>2, <4>2 DEF Requests!Next
    <3>5. CASE review' = [review EXCEPT ![k] = "open"] /\ UNCHANGED effects
      <4>1. Requests!Ask(k)
        BY <2>5, <3>1, <3>2, <3>5 DEF Requests!Ask
      <4> QED BY <3>2, <4>1 DEF Requests!Next
    <3> QED BY <2>5, <3>3, <3>4, <3>5 DEF CallDoes
  <2>6. ASSUME NEW k \in Keys, NEW written \in BOOLEAN, Review(k, written) PROVE Requests!Next
    <3>1. /\ review[k] = "open" /\ review' = [review EXCEPT ![k] = "closed"]
          /\ effects' = [effects EXCEPT ![k] = IF written THEN @ + 1 ELSE @]
          /\ UNCHANGED <<covers, row>>
      BY <2>6 DEF Review, setting
    <3>2. effects[k] = 0 /\ effects \in [Keys -> 0..1]
      BY <1>2, <3>1 DEF WInv, QInv, WellTyped, ReviewerActsAlone
    <3>3. \E n \in {0, 1} : effects' = [effects EXCEPT ![k] = n]
      <4>1. (IF written THEN effects[k] + 1 ELSE effects[k]) \in {0, 1}
        BY <3>2
      <4>2. effects' = [effects EXCEPT ![k] = IF written THEN effects[k] + 1 ELSE effects[k]]
        BY <3>1
      <4> QED BY <4>1, <4>2
    <3>4. Seen' = Seen
      BY <3>1 DEF Seen
    <3>5. Requests!Review(k)
      BY <3>1, <3>2, <3>3, <3>4 DEF Requests!Review
    <3> QED BY <3>5 DEF Requests!Next
  <2> QED BY <1>2, <2>1, <2>2, <2>3, <2>4, <2>5, <2>6, Kinds
<1> QED BY <1>1, <1>2, Invariance, PTL DEF Spec, ImplementsRequests, Requests!Spec
=============================================================================
