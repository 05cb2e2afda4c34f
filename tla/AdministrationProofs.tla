------------------------ MODULE AdministrationProofs ------------------------
(***************************************************************************)
(* Whatever commands run at the same time and wherever they fail, a tenant  *)
(* whose key was revoked has a valid one; what a rotation delivers, and      *)
(* which steps may take the last copy of a key; and what is proved about    *)
(* the commands on API keys and about those on roles holds where an         *)
(* administrator has both.                                                 *)
(***************************************************************************)
EXTENDS Administration, TLAPS

(***************************************************************************)
(* The inductive invariant.  A commit revokes the rows that were updated;   *)
(* for each of their tenants the same transaction must still hold a key of  *)
(* its own that nobody else can have committed or revoked.                  *)
(***************************************************************************)
\* A fixture carries a key that was drawn for its tenant.
Fits(f) == \A t \in Tenants : f[t] # None => owner[f[t]] = t

Committed(f) == \A t \in Tenants : f[t] # None => row[f[t]] # "none"

KeysFit ==
    /\ \A k \in Keys : row[k] # "none" => owner[k] \in Tenants
    /\ \A p \in Operators : Fits(mine[p])
    /\ secret # None => Fits(secret) /\ Committed(secret)

\* A key that is not yet committed is in the memory of one process.
FreshKeysAreOwn ==
    \A p, q \in Operators, t, u \in Tenants :
        p # q /\ mine[p][t] # None /\ mine[p][t] = mine[q][u] => row[mine[p][t]] # "none"

Issuing == {"idle", "issue", "insert", "print", "open", "dump"}

RowsAreListed ==
    \A p \in Operators :
        /\ held[p] \subseteq target[p]
        /\ at[p] \in Issuing => target[p] = {}
        /\ at[p] = "insert" => todo[p] # <<>>
        /\ at[p] = "idle" => mine[p] = NoFixtures
        /\ at[p] = "publish" => held[p] = {} /\ Committed(mine[p])

\* A row that a transaction may revoke has its replacement in the same process.
RowsAreReplaced ==
    \A p \in Operators : at[p] # "publish" =>
        \A k \in target[p] :
            /\ owner[k] \in Tenants
            /\ mine[p][owner[k]] # None
            /\ row[mine[p][owner[k]]] = "none"

CInv == TypeOK /\ KeysFit /\ FreshKeysAreOwn /\ RowsAreListed /\ RowsAreReplaced /\ NoLockOut

(***************************************************************************)
(* Keys: drawn, committed, revoked.                                        *)
(***************************************************************************)
\* Drawing a key that nobody has seen disturbs no row and no fixture.
LEMMA UnseenKeys ==
    ASSUME CInv
    PROVE  /\ Undrawn # {} => NextKey \in Undrawn
           /\ \A k \in Undrawn :
                 /\ k \in Keys /\ k # None /\ row[k] = "none" /\ owner[k] = None
                 /\ \A p \in Operators, t \in Tenants : mine[p][t] # k
                 /\ secret # None => \A t \in Tenants : secret[t] # k
                 /\ \A p \in Operators : at[p] # "publish" => k \notin target[p]
<1>1. Undrawn # {} => NextKey \in Undrawn
  BY DEF NextKey
<1>2. \A k \in Undrawn : /\ k \in Keys /\ k # None
                         /\ owner[k] = None /\ row[k] = "none"
  BY CredentialsAssumption DEF Undrawn, CInv, KeysFit
<1>3. \A k \in Undrawn : \A p \in Operators, t \in Tenants : mine[p][t] # k
  BY <1>2, CredentialsAssumption DEF CInv, KeysFit, Fits
<1>4. \A k \in Undrawn : secret # None => \A t \in Tenants : secret[t] # k
  BY <1>2, CredentialsAssumption DEF CInv, KeysFit, Fits
<1>5. \A k \in Undrawn : \A p \in Operators : at[p] # "publish" => k \notin target[p]
  BY <1>2, CredentialsAssumption DEF CInv, RowsAreReplaced
<1> QED BY <1>1, <1>2, <1>3, <1>4, <1>5

\* What a command takes from its list of tenants, and what is left.
LEMMA ListOfTenants ==
    ASSUME NEW S, NEW s \in Seq(S), s # <<>>
    PROVE  Head(s) \in S /\ Tail(s) \in Seq(S)
OBVIOUS

\* The commit of api/rotate_tenant_api_keys.py:160: it ends the rows that were
\* updated, and starts the keys in the memory of the process, no others.
LEMMA CommitStep ==
    ASSUME CInv, NEW p \in Operators, at[p] = "commit", Commit(p)
    PROVE  /\ row' \in [Keys -> {"none", "active", "revoked"}]
           /\ \A k \in Keys : row[k] # "none" => row'[k] # "none"
           /\ \A t \in Tenants : mine[p][t] # None => row'[mine[p][t]] # "none"
           /\ \A q \in Operators \ {p} : \A t \in Tenants :
                 mine[q][t] # None /\ row[mine[q][t]] = "none" => row'[mine[q][t]] = "none"
           /\ \A q \in Operators \ {p} : \A k \in held[q] : row'[k] = "active"
           /\ \A k \in Keys : row'[k] # "none" => owner[k] \in Tenants
           /\ \A k \in Keys : row'[k] = "revoked" =>
                 \E l \in Keys : owner[l] = owner[k] /\ row'[l] = "active"
<1> USE CredentialsAssumption DEF CInv, TypeOK, Fixtures
<1>1. row' = [k \in Keys |-> IF k \in held[p] THEN "revoked"
                             ELSE IF k \in New(p) THEN "active" ELSE row[k]]
  BY DEF Commit
<1>2. \A k : k \in New(p) <=> /\ k \in Keys /\ row[k] = "none"
                               /\ \E t \in Tenants : mine[p][t] = k
  BY DEF New, Range
<1>3. \A k \in held[p] : k \in Keys /\ row[k] = "active" /\ owner[k] \in Tenants
  BY DEF ActiveKeys
<1>4. row' \in [Keys -> {"none", "active", "revoked"}]
  BY <1>1
<1>5. \A k \in Keys : row[k] # "none" => row'[k] # "none"
  BY <1>1, <1>2
<1>6. \A t \in Tenants : mine[p][t] # None => row'[mine[p][t]] # "none"
  <2> SUFFICES ASSUME NEW t \in Tenants, mine[p][t] # None PROVE row'[mine[p][t]] # "none"
    OBVIOUS
  <2>1. mine[p][t] \in Keys
    OBVIOUS
  <2>2. CASE row[mine[p][t]] = "none"
    <3>1. mine[p][t] \in New(p)
      BY <2>1, <2>2, <1>2
    <3> QED BY <1>1, <2>1, <3>1
  <2>3. CASE row[mine[p][t]] # "none"
    BY <2>1, <2>3, <1>5
  <2> QED BY <2>2, <2>3
<1>7. ASSUME NEW q \in Operators \ {p}, NEW t \in Tenants,
             mine[q][t] # None, row[mine[q][t]] = "none"
      PROVE  row'[mine[q][t]] = "none"
  <2>1. mine[q][t] \in Keys
    BY <1>7
  <2>2. mine[q][t] \notin New(p)
    BY <1>2, <1>7 DEF FreshKeysAreOwn
  <2>3. mine[q][t] \notin held[p]
    BY <1>3, <1>7
  <2> QED BY <1>1, <1>7, <2>1, <2>2, <2>3
<1>8. ASSUME NEW q \in Operators \ {p}, NEW k \in held[q]
      PROVE  row'[k] = "active"
  <2>1. k \in Keys /\ row[k] = "active"
    BY DEF ActiveKeys
  <2>2. k \notin held[p]
    OBVIOUS
  <2> QED BY <1>1, <1>2, <2>1, <2>2
<1>9. \A k \in Keys : row'[k] # "none" => owner[k] \in Tenants
  <2>1. ASSUME NEW k \in New(p) PROVE owner[k] \in Tenants
    <3>1. PICK t \in Tenants : mine[p][t] = k
      BY <1>2
    <3>2. k # None
      BY <1>2
    <3>3. owner[mine[p][t]] = t
      BY <3>1, <3>2 DEF KeysFit, Fits
    <3> QED BY <3>1, <3>3
  <2> QED BY <1>1, <1>3, <2>1 DEF KeysFit
<1>10. ASSUME NEW k \in Keys, row'[k] = "revoked"
       PROVE  \E l \in Keys : owner[l] = owner[k] /\ row'[l] = "active"
  <2>1. ASSUME NEW h \in held[p]
        PROVE  \E l \in Keys : owner[l] = owner[h] /\ row'[l] = "active"
    <3> DEFINE l == mine[p][owner[h]]
    <3>1. h \in target[p] /\ owner[h] \in Tenants
      BY <1>3 DEF RowsAreListed
    <3>2. l # None /\ row[l] = "none"
      BY <3>1 DEF RowsAreReplaced
    <3>3. l \in Keys /\ owner[l] = owner[h]
      BY <3>1, <3>2 DEF KeysFit, Fits
    <3>4. l \in New(p) /\ l \notin held[p]
      BY <1>2, <1>3, <3>1, <3>2, <3>3
    <3> QED BY <1>1, <3>3, <3>4
  <2>2. CASE k \in held[p]
    BY <2>1, <2>2
  <2>3. CASE k \notin held[p]
    <3>1. row[k] = "revoked"
      BY <1>1, <1>10, <2>3
    <3>2. PICK l \in Keys : owner[l] = owner[k] /\ row[l] = "active"
      BY <3>1 DEF NoLockOut, ActiveKeys
    <3>3. CASE l \in held[p]
      BY <2>1, <3>2, <3>3
    <3>4. CASE l \notin held[p]
      BY <1>1, <1>2, <3>2, <3>4
    <3> QED BY <3>3, <3>4
  <2> QED BY <2>2, <2>3
<1> QED BY <1>4, <1>5, <1>6, <1>7, <1>8, <1>9, <1>10

(***************************************************************************)
(* The steps, those first that change no row and draw no key.               *)
(***************************************************************************)
\* Memory, stores and the lists of rows change, the keys themselves do not.
LEMMA QuietStep ==
    ASSUME CInv, NEW p \in Operators,
           \/ UpdateRows(p) \/ WritePending(p) \/ Publish(p)
           \/ StartEscalation(p) \/ KeepKey(p) \/ Examined(p)
           \/ StartSeed(p) \/ LookForKey(p) \/ OpenFile(p) \/ DumpFixtures(p)
           \/ \E t \in Tenants : StartGenerate(p, t)
           \/ PrintKey(p) \/ Fail(p) \/ PublishFails(p) \/ Crash(p)
    PROVE  CInv'
<1> USE CredentialsAssumption DEF CInv, TypeOK, KeysFit, FreshKeysAreOwn, RowsAreListed, RowsAreReplaced, NoLockOut,
       Fits, Committed, Fixtures, NoFixtures, ActiveKeys, Issuing, Goto, Begin, End, stores, Rotations
<1>1. CASE UpdateRows(p)
  <2> USE <1>1 DEF UpdateRows, AfterUpdate
  <2>1. TypeOK'
    <3>1. held'[p] \subseteq target[p]
      OBVIOUS
    <3>2. \A k \in target[p] : k \in Keys /\ owner[k] \in Tenants
      OBVIOUS
    <3>3. held' \in [Operators -> SUBSET ActiveKeys(Tenants)]
      BY <3>2
    <3>4. at'[p] \in {"write", "commit", "examine"}
      OBVIOUS
    <3>5. \A q, r \in Operators : q # r => held'[q] \cap held'[r] = {}
      BY <3>1
    <3> QED BY <3>3, <3>4, <3>5
  <2>2. KeysFit' /\ FreshKeysAreOwn' /\ NoLockOut'
    OBVIOUS
  <2>3. RowsAreListed'
    OBVIOUS
  <2>4. RowsAreReplaced'
    OBVIOUS
  <2> QED BY <2>1, <2>2, <2>3, <2>4
<1>2. CASE WritePending(p)
  BY <1>2, SMTT(60) DEF WritePending
<1>3. CASE Publish(p)
  BY <1>3, SMTT(60) DEF Publish
<1>4. CASE StartEscalation(p)
  <2> USE <1>4 DEF StartEscalation
  <2>1. TypeOK'
    OBVIOUS
  <2>2. KeysFit' /\ FreshKeysAreOwn'
    OBVIOUS
  <2>3. RowsAreListed' /\ NoLockOut'
    OBVIOUS
  <2>4. RowsAreReplaced'
    OBVIOUS
  <2> QED BY <2>1, <2>2, <2>3, <2>4
<1>5. CASE Examined(p)
  BY <1>5, SMTT(60) DEF Examined
<1>6. CASE StartSeed(p)
  BY <1>6, SMTT(60) DEF StartSeed
<1>7. CASE OpenFile(p)
  BY <1>7, SMTT(60) DEF OpenFile
<1>8. CASE DumpFixtures(p)
  BY <1>8, SMTT(60) DEF DumpFixtures
<1>9. CASE PrintKey(p)
  <2> USE <1>9 DEF PrintKey
  <2>1. Range(mine[p]) \ {None} \subseteq Keys
    BY DEF Range
  <2>2. TypeOK'
    BY <2>1
  <2>3. KeysFit' /\ FreshKeysAreOwn' /\ RowsAreListed' /\ RowsAreReplaced' /\ NoLockOut'
    OBVIOUS
  <2> QED BY <2>2, <2>3
<1>10. CASE Fail(p)
  BY <1>10, SMTT(60) DEF Fail
<1>11. CASE PublishFails(p)
  BY <1>11, SMTT(60) DEF PublishFails
<1>12. CASE Crash(p)
  BY <1>12, SMTT(60) DEF Crash
<1>13. CASE KeepKey(p)
  <2>1. Tail(todo[p]) \in Seq(Tenants)
    BY <1>13, ListOfTenants DEF KeepKey
  <2>2. TypeOK'
    BY <1>13, <2>1 DEF KeepKey
  <2>3. KeysFit' /\ FreshKeysAreOwn' /\ RowsAreListed' /\ RowsAreReplaced' /\ NoLockOut'
    BY <1>13 DEF KeepKey
  <2> QED BY <2>2, <2>3
<1>14. CASE LookForKey(p)
  <2>1. todo[p] # <<>> => Tail(todo[p]) \in Seq(Tenants)
    BY ListOfTenants
  <2>2. CASE todo[p] = <<>>
    <3> USE DEF LookForKey
    <3>1. at' = [at EXCEPT ![p] = "open"] /\ UNCHANGED todo
      BY <1>14, <2>2
    <3>2. TypeOK'
      BY <1>14, <3>1
    <3>3. KeysFit' /\ FreshKeysAreOwn' /\ RowsAreListed' /\ RowsAreReplaced' /\ NoLockOut'
      BY <1>14, <3>1
    <3> QED BY <3>2, <3>3
  <2>3. CASE todo[p] # <<>> /\ ActiveKeys({Head(todo[p])}) = {}
    <3> USE DEF LookForKey
    <3>1. at' = [at EXCEPT ![p] = "insert"] /\ UNCHANGED todo
      BY <1>14, <2>3
    <3>2. TypeOK'
      BY <1>14, <3>1
    <3>3. KeysFit' /\ FreshKeysAreOwn' /\ RowsAreListed' /\ RowsAreReplaced' /\ NoLockOut'
      BY <1>14, <2>3, <3>1
    <3> QED BY <3>2, <3>3
  <2>4. CASE todo[p] # <<>> /\ ActiveKeys({Head(todo[p])}) # {}
    <3> USE DEF LookForKey
    <3>1. UNCHANGED at /\ todo' = [todo EXCEPT ![p] = Tail(@)] /\ at[p] = "issue"
      BY <1>14, <2>4
    <3>2. TypeOK'
      BY <1>14, <2>1, <2>4, <3>1
    <3>3. KeysFit' /\ FreshKeysAreOwn' /\ RowsAreListed' /\ RowsAreReplaced' /\ NoLockOut'
      BY <1>14, <3>1
    <3> QED BY <3>2, <3>3
  <2> QED BY <2>2, <2>3, <2>4
<1>15. CASE \E t \in Tenants : StartGenerate(p, t)
  BY <1>15 DEF StartGenerate
<1> QED BY <1>1, <1>2, <1>3, <1>4, <1>5, <1>6, <1>7, <1>8, <1>9, <1>10, <1>11, <1>12, <1>13, <1>14, <1>15

\* A commit, whether or not its acknowledgement arrives.
LEMMA CommitKeysStep ==
    ASSUME CInv, NEW p \in Operators, CommitKeys(p) \/ CommitUnacknowledged(p)
    PROVE  CInv'
<1> USE CredentialsAssumption DEF CInv, TypeOK, KeysFit, FreshKeysAreOwn, RowsAreListed, RowsAreReplaced, NoLockOut,
       Fits, Committed, Fixtures, NoFixtures, ActiveKeys, Issuing, Goto, Begin, End, stores, Rotations
<1>1. /\ at[p] = "commit" /\ Commit(p)
      /\ UNCHANGED <<owner, secret>>
      /\ held' = [held EXCEPT ![p] = {}]
      /\ \/ at' = [at EXCEPT ![p] = "publish"] /\ UNCHANGED <<mine, target, todo>>
         \/ /\ at' = [at EXCEPT ![p] = "idle"]
            /\ mine' = [mine EXCEPT ![p] = NoFixtures]
            /\ target' = [target EXCEPT ![p] = {}]
            /\ todo' = [todo EXCEPT ![p] = <<>>]
  BY DEF CommitKeys, CommitUnacknowledged
<1> HIDE DEF CInv
<1>2. /\ row' \in [Keys -> {"none", "active", "revoked"}]
      /\ \A k \in Keys : row[k] # "none" => row'[k] # "none"
      /\ \A t \in Tenants : mine[p][t] # None => row'[mine[p][t]] # "none"
      /\ \A q \in Operators \ {p} : \A t \in Tenants :
            mine[q][t] # None /\ row[mine[q][t]] = "none" => row'[mine[q][t]] = "none"
      /\ \A q \in Operators \ {p} : \A k \in held[q] : row'[k] = "active"
      /\ \A k \in Keys : row'[k] # "none" => owner[k] \in Tenants
      /\ \A k \in Keys : row'[k] = "revoked" =>
            \E l \in Keys : owner[l] = owner[k] /\ row'[l] = "active"
  BY <1>1, CommitStep
<1> USE DEF CInv
<1>3. /\ mine' \in [Operators -> Fixtures]
      /\ \A q \in Operators : mine'[q] = mine[q] \/ mine'[q] = NoFixtures
  <2>1. CASE UNCHANGED mine
    BY <2>1
  <2>2. CASE mine' = [mine EXCEPT ![p] = NoFixtures]
    BY <2>2
  <2> QED BY <1>1, <2>1, <2>2
<1>4. \A q \in Operators, t \in Tenants :
          mine'[q][t] # None => mine'[q][t] = mine[q][t] /\ mine[q][t] \in Keys
  <2> SUFFICES ASSUME NEW q \in Operators, NEW t \in Tenants, mine'[q][t] # None
               PROVE  mine'[q][t] = mine[q][t] /\ mine[q][t] \in Keys
    OBVIOUS
  <2>1. mine[q] \in Fixtures /\ NoFixtures[t] = None
    OBVIOUS
  <2>2. mine'[q] = mine[q]
    BY <1>3, <2>1
  <2> QED BY <2>1, <2>2
<1>5. TypeOK'
  <2>1. held' \in [Operators -> SUBSET (ActiveKeys(Tenants)')]
    BY <1>1, <1>2
  <2>2. /\ file' \in Fixtures /\ secret' \in Fixtures \cup {None}
        /\ pending' \subseteq Fixtures /\ printed' \subseteq Keys
        /\ job' \in [Operators -> Rotations \cup {"escalate", "seed", "generate", None}]
    <3>1. TypeOK
      OBVIOUS
    <3> HIDE DEF CInv
    <3> QED BY <3>1 DEF CommitKeys, CommitUnacknowledged
  <2>3. UNCHANGED alone
    BY DEF CommitKeys, CommitUnacknowledged
  <2>4. /\ at' \in [Operators -> {"idle", "update", "write", "commit", "publish", "examine",
                                   "issue", "insert", "print", "open", "dump"}]
        /\ todo' \in [Operators -> Seq(Tenants)]
        /\ target' \in [Operators -> SUBSET Keys]
    <3>1. <<>> \in Seq(Tenants)
      OBVIOUS
    <3>2. at' = [at EXCEPT ![p] = "publish"] \/ at' = [at EXCEPT ![p] = "idle"]
      BY <1>1
    <3>3. todo' = todo \/ todo' = [todo EXCEPT ![p] = <<>>]
      BY <1>1
    <3>4. target' = target \/ target' = [target EXCEPT ![p] = {}]
      BY <1>1
    <3>5. /\ at \in [Operators -> {"idle", "update", "write", "commit", "publish", "examine",
                                   "issue", "insert", "print", "open", "dump"}]
          /\ todo \in [Operators -> Seq(Tenants)]
          /\ target \in [Operators -> SUBSET Keys]
      OBVIOUS
    <3> HIDE DEF CInv
    <3>6. todo' \in [Operators -> Seq(Tenants)]
      BY <3>1, <3>3, <3>5
    <3>7. target' \in [Operators -> SUBSET Keys]
      BY <3>4, <3>5
    <3> QED BY <3>2, <3>5, <3>6, <3>7
  <2>5. \A q, r \in Operators :
           /\ at'[q] = "idle" => held'[q] = {}
           /\ q # r => held'[q] \cap held'[r] = {}
    BY <1>1
  <2>6. owner' \in [Keys -> Tenants \cup {None}]
    BY <1>1
  <2> QED BY <1>2, <1>3, <2>1, <2>2, <2>3, <2>4, <2>5, <2>6
<1>6. KeysFit'
  <2>1. \A q \in Operators : Fits(mine[q])'
    BY <1>1, <1>4
  <2>2. ASSUME secret # None PROVE Fits(secret)' /\ Committed(secret)'
    <3>1. secret \in Fixtures
      BY <2>2
    <3> QED BY <1>1, <1>2, <2>2, <3>1
  <2> QED BY <1>1, <1>2, <2>1, <2>2
<1>7. FreshKeysAreOwn'
  <2> SUFFICES ASSUME NEW q \in Operators, NEW r \in Operators, NEW t \in Tenants, NEW u \in Tenants,
                      q # r, mine'[q][t] # None, mine'[q][t] = mine'[r][u]
               PROVE  row'[mine'[q][t]] # "none"
    OBVIOUS
  <2>1. mine'[q][t] = mine[q][t] /\ mine'[r][u] = mine[r][u] /\ mine[q][t] \in Keys
    BY <1>4
  <2>2. row[mine[q][t]] # "none"
    <3>1. FreshKeysAreOwn
      OBVIOUS
    <3> HIDE DEF CInv
    <3> QED BY <2>1, <3>1
  <2> QED BY <1>2, <2>1, <2>2
<1>8. RowsAreListed'
  <2>1. \A q \in Operators \ {p} : at[q] = "publish" => Committed(mine[q])'
    BY <1>1, <1>2
  <2>2. at'[p] = "publish" => Committed(mine[p])'
    BY <1>1, <1>2
  <2> QED BY <1>1, <2>1, <2>2
<1>9. RowsAreReplaced'
  <2> SUFFICES ASSUME NEW q \in Operators, at'[q] # "publish", NEW k \in target'[q]
               PROVE  /\ owner[k] \in Tenants
                      /\ mine'[q][owner[k]] # None
                      /\ row'[mine'[q][owner[k]]] = "none"
    BY <1>1
  <2>1. q # p
    BY <1>1
  <2>2. /\ owner[k] \in Tenants
        /\ mine[q][owner[k]] # None
        /\ row[mine[q][owner[k]]] = "none"
    BY <1>1, <2>1
  <2> QED BY <1>1, <1>2, <2>1, <2>2
<1>10. NoLockOut'
  BY <1>1, <1>2
<1> QED BY <1>5, <1>6, <1>7, <1>8, <1>9, <1>10

\* One key is drawn: it becomes the replacement of its tenant's rows, or is
\* committed at once.
LEMMA DrawStep ==
    ASSUME CInv, NEW p \in Operators, ReplaceKey(p) \/ IssueKey(p)
    PROVE  CInv'
<1> DEFINE t == Head(todo[p])
           k == NextKey
<1>1. Undrawn # {} /\ todo[p] # <<>>
  BY DEF ReplaceKey, IssueKey, CInv, RowsAreListed
<1>2. /\ k \in Undrawn /\ k \in Keys /\ k # None /\ row[k] = "none" /\ owner[k] = None
      /\ \A q \in Operators, u \in Tenants : mine[q][u] # k
      /\ secret # None => \A u \in Tenants : secret[u] # k
      /\ \A q \in Operators : at[q] # "publish" => k \notin target[q]
  BY <1>1, UnseenKeys
<1>3. t \in Tenants /\ Tail(todo[p]) \in Seq(Tenants)
  BY <1>1, ListOfTenants DEF CInv, TypeOK
<1>4. /\ owner' = [owner EXCEPT ![k] = t]
      /\ mine' = [mine EXCEPT ![p][t] = k]
      /\ todo' = [todo EXCEPT ![p] = Tail(@)]
      /\ UNCHANGED <<file, secret, pending, printed, job, held, alone>>
  BY DEF ReplaceKey, IssueKey, stores
<1> HIDE DEF t, k
<1> USE CredentialsAssumption DEF CInv, TypeOK, KeysFit, FreshKeysAreOwn, RowsAreListed, RowsAreReplaced, NoLockOut,
       Fits, Committed, Fixtures, NoFixtures, ActiveKeys, Issuing, Goto, Begin, End, stores, Rotations
<1>5. CASE ReplaceKey(p)
  <2>1. /\ at[p] = "examine" /\ at' = [at EXCEPT ![p] = "update"]
        /\ target' = [target EXCEPT ![p] = @ \cup {l \in Keys : owner[l] = t /\ row[l] = "active"}]
        /\ UNCHANGED row
    <3> HIDE DEF CInv
    <3> QED BY <1>5 DEF ReplaceKey, t
  <2>2. TypeOK'
    BY <1>2, <1>3, <1>4, <2>1
  <2>3. KeysFit'
    BY <1>2, <1>3, <1>4, <2>1
  <2>4. FreshKeysAreOwn'
    BY <1>2, <1>3, <1>4, <2>1
  <2>5. RowsAreListed'
    BY <1>2, <1>3, <1>4, <2>1
  <2>6. RowsAreReplaced'
    BY <1>2, <1>3, <1>4, <2>1
  <2>7. NoLockOut'
    <3> SUFFICES ASSUME NEW j \in Keys, row[j] = "revoked"
                 PROVE  \E l \in Keys : owner'[l] = owner'[j] /\ row[l] = "active"
      BY <2>1
    <3>1. PICK l \in Keys : owner[l] = owner[j] /\ row[l] = "active"
      OBVIOUS
    <3>2. l # k /\ j # k
      BY <1>2, <3>1
    <3> QED BY <1>4, <3>1, <3>2
  <2> QED BY <2>2, <2>3, <2>4, <2>5, <2>6, <2>7
<1>6. CASE IssueKey(p)
  <2>1. /\ at[p] = "insert" /\ at'[p] \in {"issue", "print"}
        /\ at' = [at EXCEPT ![p] = at'[p]]
        /\ row' = [row EXCEPT ![k] = "active"]
        /\ UNCHANGED target
    BY <1>6 DEF IssueKey, k
  <2>2. TypeOK'
    <3>1. held' \in [Operators -> SUBSET (ActiveKeys(Tenants)')]
      BY <1>2, <1>3, <1>4, <2>1
    <3>2. /\ at' \in [Operators -> {"idle", "update", "write", "commit", "publish", "examine",
                                     "issue", "insert", "print", "open", "dump"}]
          /\ \A q \in Operators : at'[q] = "idle" => at[q] = "idle"
      <4>1. at' = [at EXCEPT ![p] = "issue"] \/ at' = [at EXCEPT ![p] = "print"]
        BY <2>1
      <4>2. at \in [Operators -> {"idle", "update", "write", "commit", "publish", "examine",
                                 "issue", "insert", "print", "open", "dump"}]
        OBVIOUS
      <4> HIDE DEF CInv
      <4> QED BY <4>1, <4>2
    <3> QED BY <1>2, <1>3, <1>4, <2>1, <3>1, <3>2
  <2>3. KeysFit'
    BY <1>2, <1>3, <1>4, <2>1
  <2>4. FreshKeysAreOwn'
    BY <1>2, <1>3, <1>4, <2>1
  <2>5. RowsAreListed'
    BY <1>2, <1>3, <1>4, <2>1
  <2>6. RowsAreReplaced'
    BY <1>2, <1>3, <1>4, <2>1
  <2>7. NoLockOut'
    BY <1>2, <1>3, <1>4, <2>1
  <2> QED BY <2>2, <2>3, <2>4, <2>5, <2>6, <2>7
<1> QED BY <1>5, <1>6

\* A rotation begins: it draws a key for every configured tenant and sees the
\* rows that it is going to revoke.
LEMMA StartRotationStep ==
    ASSUME CInv, NEW p \in Operators, NEW j \in Rotations, StartRotation(p, j)
    PROVE  CInv'
<1> DEFINE S == ToSet(Configured)
           issued == CHOOSE f \in Draws(S) : TRUE
<1>1. S \subseteq Tenants
  BY DEF Tenants
<1>2. /\ issued \in [S -> Undrawn]
      /\ \A t, u \in S : issued[t] = issued[u] => t = u
  <2>1. issued \in Injection(S, Undrawn)
    BY DEF StartRotation, Draws
  <2> QED BY <2>1 DEF Injection, IsInjective
<1>3. \A k \in Undrawn :
        /\ k \in Keys /\ k # None /\ row[k] = "none" /\ owner[k] = None
        /\ \A q \in Operators, u \in Tenants : mine[q][u] # k
        /\ secret # None => \A u \in Tenants : secret[u] # k
        /\ \A q \in Operators : at[q] # "publish" => k \notin target[q]
  BY UnseenKeys
<1>4. /\ at[p] = "idle" /\ at' = [at EXCEPT ![p] = "update"] /\ job' = [job EXCEPT ![p] = j]
      /\ alone' \in BOOLEAN
      /\ owner' = [k \in Keys |-> IF k \in Range(issued) THEN CHOOSE t \in S : issued[t] = k ELSE owner[k]]
      /\ mine' = [mine EXCEPT ![p] = [t \in Tenants |-> IF t \in S THEN issued[t] ELSE None]]
      /\ target' = [target EXCEPT ![p] = {k \in Keys : owner[k] \in S /\ row[k] = "active"}]
      /\ UNCHANGED <<row, file, secret, pending, printed, todo, held>>
  BY DEF StartRotation, Begin, Goto, ActiveKeys, stores
<1>5. \A t \in S : issued[t] \in Undrawn /\ owner'[issued[t]] = t
  <2> SUFFICES ASSUME NEW t \in S PROVE issued[t] \in Undrawn /\ owner'[issued[t]] = t
    OBVIOUS
  <2>1. issued[t] \in Undrawn /\ issued[t] \in Keys /\ issued[t] \in Range(issued)
    BY <1>2, <1>3 DEF Range
  <2>2. (CHOOSE u \in S : issued[u] = issued[t]) = t
    BY <1>2
  <2> QED BY <1>4, <2>1, <2>2
<1>6. \A k \in Keys : k \notin Undrawn => owner'[k] = owner[k]
  BY <1>2, <1>4 DEF Range
<1>7. /\ \A k \in Keys : owner'[k] = owner[k] \/ owner'[k] \in S
      /\ owner' = [k \in Keys |-> owner'[k]]
  <2>1. \A k \in Range(issued) : (CHOOSE t \in S : issued[t] = k) \in S
    BY <1>2 DEF Range
  <2>2. ASSUME NEW k \in Keys PROVE owner'[k] = owner[k] \/ owner'[k] \in S
    BY <1>4, <2>1
  <2>3. owner' = [k \in Keys |-> owner'[k]]
    BY <1>4
  <2> QED BY <2>2, <2>3
<1> HIDE DEF S, issued
<1> USE CredentialsAssumption DEF CInv, TypeOK, KeysFit, FreshKeysAreOwn, RowsAreListed, RowsAreReplaced, NoLockOut,
       Fits, Committed, Fixtures, NoFixtures, ActiveKeys, Issuing, Goto, Begin, End, stores, Rotations
<1>8. TypeOK'
  <2>1. owner' \in [Keys -> Tenants \cup {None}]
    BY <1>1, <1>7
  <2>2. mine' \in [Operators -> Fixtures]
    BY <1>3, <1>4, <1>5
  <2>3. held' \in [Operators -> SUBSET (ActiveKeys(Tenants)')]
    BY <1>3, <1>4, <1>6
  <2>4. /\ job' \in [Operators -> Rotations \cup {"escalate", "seed", "generate", None}]
        /\ at' \in [Operators -> {"idle", "update", "write", "commit", "publish", "examine",
                                   "issue", "insert", "print", "open", "dump"}]
        /\ target' \in [Operators -> SUBSET Keys]
    BY <1>4
  <2>5. \A q, r \in Operators :
           /\ at'[q] = "idle" => held'[q] = {}
           /\ q # r => held'[q] \cap held'[r] = {}
    BY <1>4
  <2>6. /\ row' \in [Keys -> {"none", "active", "revoked"}]
        /\ file' \in Fixtures /\ secret' \in Fixtures \cup {None}
        /\ pending' \subseteq Fixtures /\ printed' \subseteq Keys
        /\ todo' \in [Operators -> Seq(Tenants)]
        /\ alone' \in BOOLEAN
    BY <1>4
  <2> QED BY <2>1, <2>2, <2>3, <2>4, <2>5, <2>6
<1>9. \A q \in Operators \ {p} : mine'[q] = mine[q] /\ target'[q] = target[q] /\ at'[q] = at[q]
  BY <1>4
<1>10. \A t \in Tenants : mine'[p][t] = IF t \in S THEN issued[t] ELSE None
  BY <1>4
<1>11. KeysFit'
  <2>1. \A k \in Keys : row[k] # "none" => owner'[k] \in Tenants
    BY <1>3, <1>6
  <2>2. Fits(mine[p])'
    BY <1>5, <1>10
  <2>3. ASSUME NEW q \in Operators \ {p} PROVE Fits(mine[q])'
    <3>1. mine[q] \in Fixtures /\ Fits(mine[q])
      OBVIOUS
    <3>2. \A t \in Tenants : mine[q][t] # None => mine[q][t] \in Keys /\ mine[q][t] \notin Undrawn
      BY <1>3, <3>1
    <3> QED BY <1>6, <1>9, <3>1, <3>2
  <2>4. secret # None => Fits(secret)' /\ Committed(secret)'
    BY <1>3, <1>4, <1>6
  <2>5. \A q \in Operators : Fits(mine[q])'
    BY <2>2, <2>3
  <2>6. UNCHANGED <<row, secret>>
    BY <1>4
  <2> QED BY <2>1, <2>4, <2>5, <2>6
<1>12. FreshKeysAreOwn'
  <2> SUFFICES ASSUME NEW q \in Operators, NEW r \in Operators, NEW t \in Tenants, NEW u \in Tenants,
                      q # r, mine'[q][t] # None, mine'[q][t] = mine'[r][u]
               PROVE  row[mine'[q][t]] # "none"
    BY <1>4
  <2>1. \A v \in Tenants : mine'[p][v] # None => mine'[p][v] \in Undrawn
    BY <1>5, <1>10
  <2>2. \A o \in Operators \ {p}, v \in Tenants : mine'[o][v] \notin Undrawn
    <3> HIDE DEF CInv
    <3> QED BY <1>3, <1>9
  <2>3. q # p /\ r # p
    BY <2>1, <2>2
  <2> QED BY <1>9, <2>3
<1>13. RowsAreListed'
  BY <1>4
<1>14. RowsAreReplaced'
  <2>1. \A k \in target'[p] : /\ k \in Keys /\ owner[k] \in S /\ k \notin Undrawn
    BY <1>3, <1>4
  <2>2. \A k \in target'[p] : /\ owner'[k] \in S /\ owner'[k] \in Tenants
                               /\ mine'[p][owner'[k]] # None
                               /\ row[mine'[p][owner'[k]]] = "none"
    <3> TAKE k \in target'[p]
    <3>1. owner'[k] = owner[k] /\ owner[k] \in S
      BY <1>6, <2>1
    <3>2. owner[k] \in Tenants /\ mine'[p][owner[k]] = issued[owner[k]]
      BY <1>1, <1>10, <3>1
    <3> QED BY <1>3, <1>5, <3>1, <3>2
  <2>3. ASSUME NEW q \in Operators \ {p}, at[q] # "publish", NEW k \in target[q]
        PROVE  /\ owner'[k] \in Tenants
               /\ mine[q][owner'[k]] # None
               /\ row[mine[q][owner'[k]]] = "none"
    <3>1. owner'[k] = owner[k]
      BY <1>3, <1>6, <2>3
    <3> QED BY <2>3, <3>1
  <2>4. UNCHANGED row
    BY <1>4
  <2> HIDE DEF CInv
  <2> QED BY <1>9, <2>2, <2>3, <2>4
<1>15. NoLockOut'
  <2> SUFFICES ASSUME NEW k \in Keys, row[k] = "revoked"
               PROVE  \E l \in Keys : owner'[l] = owner'[k] /\ row[l] = "active"
    <3> HIDE DEF CInv
    <3>1. UNCHANGED row
      BY <1>4
    <3> QED BY <3>1
  <2>1. PICK l \in Keys : owner[l] = owner[k] /\ row[l] = "active"
    OBVIOUS
  <2> QED BY <1>3, <1>6, <2>1
<1> QED BY <1>8, <1>11, <1>12, <1>13, <1>14, <1>15

(***************************************************************************)
(* The theorem.                                                            *)
(***************************************************************************)
\* The empty table.
LEMMA Initially == Init => CInv
BY CredentialsAssumption, SMTT(30) DEF Init, CInv, TypeOK, KeysFit, FreshKeysAreOwn, RowsAreListed, RowsAreReplaced, NoLockOut,
       Fits, Committed, Fixtures, NoFixtures, ActiveKeys, Issuing, Goto, Begin, End, stores, Rotations

\* The inductive invariant holds in every state.
LEMMA Invariant == Spec => []CInv
<1>1. Init => CInv
  BY Initially
<1>2. CInv /\ [Next]_vars => CInv'
  <2> SUFFICES ASSUME CInv, [Next]_vars PROVE CInv'
    OBVIOUS
  <2>1. CASE UNCHANGED vars
    BY <2>1 DEF vars, CInv, TypeOK, KeysFit, FreshKeysAreOwn, RowsAreListed, RowsAreReplaced, NoLockOut,
       Fits, Committed, Fixtures, NoFixtures, ActiveKeys, Issuing, Goto, Begin, End, stores, Rotations
  <2>2. ASSUME NEW p \in Operators, NEW j \in Rotations, StartRotation(p, j) PROVE CInv'
    BY <2>2, StartRotationStep
  <2>3. ASSUME NEW p \in Operators, CommitKeys(p) \/ CommitUnacknowledged(p) PROVE CInv'
    BY <2>3, CommitKeysStep
  <2>4. ASSUME NEW p \in Operators, ReplaceKey(p) \/ IssueKey(p) PROVE CInv'
    BY <2>4, DrawStep
  <2>5. ASSUME NEW p \in Operators,
               \/ UpdateRows(p) \/ WritePending(p) \/ Publish(p)
               \/ StartEscalation(p) \/ KeepKey(p) \/ Examined(p)
               \/ StartSeed(p) \/ LookForKey(p) \/ OpenFile(p) \/ DumpFixtures(p)
               \/ \E t \in Tenants : StartGenerate(p, t)
               \/ PrintKey(p) \/ Fail(p) \/ PublishFails(p) \/ Crash(p)
        PROVE  CInv'
    BY <2>5, QuietStep
  <2> QED BY <2>1, <2>2, <2>3, <2>4, <2>5 DEF Next
<1> QED BY <1>1, <1>2, PTL DEF Spec

\* Whatever commands on API keys run at the same time, and wherever each of them
\* fails or stops: a tenant of which a key was revoked has a valid key
\* (api/rotate_tenant_api_keys.py:99-109, seed_llm_escalation_tenants.py:125-147).
THEOREM NobodyIsLockedOut == Spec => []NoLockOut
<1>1. CInv => NoLockOut
  BY DEF CInv
<1> QED BY <1>1, Invariant, PTL

\* The rows of a command are its own, and are released when it ends.
THEOREM RowsAreOwn == Spec => []TypeOK
<1>1. CInv => TypeOK
  BY DEF CInv
<1> QED BY <1>1, Invariant, PTL

(***************************************************************************)
(* What a rotation delivers.  Beyond the rows and their replacements one    *)
(* must follow what a command means to publish: which keys it brings, which *)
(* it has ended, and where a copy of them is.                               *)
(***************************************************************************)
JobIsPlaced(p) ==
    /\ at[p] \in {"update", "commit", "publish"} => job[p] \in Rotations \cup {"escalate"}
    /\ at[p] = "write" => job[p] = "rotate_to_file"
    /\ at[p] = "examine" => job[p] = "escalate"
    /\ at[p] \in {"issue", "open", "dump"} => job[p] = "seed"
    /\ at[p] \in {"insert", "print"} => job[p] \in {"seed", "generate"}

Rotating(p) == at[p] \in {"update", "write", "commit", "publish"} /\ job[p] \in Rotations

\* The keys a rotation saw are over, or are about to be.
EndsKeys(p) ==
    Rotating(p) =>
        \A k \in target[p] :
            /\ row[k] # "none"
            /\ at[p] \in {"write", "commit"} /\ k \notin held[p] => row[k] = "revoked"
            /\ at[p] = "publish" => row[k] = "revoked"

\* It brings a key for each configured tenant, valid from its commit on for as long
\* as no other command runs, and has a copy of it in a temporary file.
BringsKeys(p) ==
    Rotating(p) =>
        /\ \A t \in Tenants : mine[p][t] # None <=> t \in ToSet(Configured)
        /\ \A t \in ToSet(Configured) :
              /\ at[p] # "publish" => row[mine[p][t]] = "none"
              /\ at[p] = "publish" /\ alone => row[mine[p][t]] = "active"
        /\ job[p] = "rotate_to_file" /\ at[p] \in {"commit", "publish"} /\ alone =>
              mine[p] \in pending

\* An escalation that runs alone goes on from the fixtures in the secret.
KeepsFixtures(p) ==
    alone /\ job[p] = "escalate" /\ at[p] \in {"examine", "update", "commit", "publish"} =>
        /\ secret # None
        /\ \A t \in Tenants :
              \/ mine[p][t] = secret[t]
              \/ /\ mine[p][t] # None
                 /\ row[mine[p][t]] = IF at[p] = "publish" THEN "active" ELSE "none"

SeedsConfigured(p) ==
    job[p] = "seed" /\ at[p] \in {"issue", "insert", "open", "dump"} =>
        /\ todo[p] \in Seq(ToSet(Configured))
        /\ \A t \in Tenants : mine[p][t] # None => t \in ToSet(Configured)

CommandInv(p) ==
    JobIsPlaced(p) /\ EndsKeys(p) /\ BringsKeys(p) /\ KeepsFixtures(p) /\ SeedsConfigured(p)

AloneIsOne ==
    alone => \A p, q \in Operators : at[p] # "idle" /\ at[q] # "idle" => p = q

FileIsConfigured == \A t \in Tenants : file[t] # None => t \in ToSet(Configured)

DInv == AloneIsOne /\ FileIsConfigured /\ \A p \in Operators : CommandInv(p)

\* What a step of one command leaves to the others.
LeavesOthers(p) ==
    \A q \in Operators \ {p} :
        /\ at'[q] = at[q] /\ job'[q] = job[q] /\ todo'[q] = todo[q]
        /\ mine'[q] = mine[q] /\ target'[q] = target[q] /\ held'[q] = held[q]
        /\ alone' => at[q] = "idle"
        /\ \A t \in Tenants : mine[q][t] # None /\ row[mine[q][t]] = "none" =>
              row'[mine[q][t]] = "none"

RowsGoForward ==
    \A k \in Keys : /\ row[k] # "none" => row'[k] # "none"
                    /\ row[k] = "revoked" => row'[k] = "revoked"

LEMMA OthersKeep ==
    ASSUME CInv, DInv, NEW p \in Operators, LeavesOthers(p), RowsGoForward, NEW q \in Operators \ {p}
    PROVE  CommandInv(q)'
<1>1. /\ at'[q] = at[q] /\ job'[q] = job[q] /\ todo'[q] = todo[q]
      /\ mine'[q] = mine[q] /\ target'[q] = target[q] /\ held'[q] = held[q]
      /\ alone' => at[q] = "idle"
      /\ \A t \in Tenants : mine[q][t] # None /\ row[mine[q][t]] = "none" => row'[mine[q][t]] = "none"
  BY DEF LeavesOthers
<1>2. CommandInv(q)
  BY DEF DInv
<1>3. JobIsPlaced(q)' /\ SeedsConfigured(q)' /\ KeepsFixtures(q)'
  BY <1>1, <1>2 DEF CommandInv, JobIsPlaced, SeedsConfigured, KeepsFixtures
<1>4. target[q] \subseteq Keys
  BY DEF CInv, TypeOK
<1>5. EndsKeys(q)'
  BY <1>1, <1>2, <1>4 DEF CommandInv, EndsKeys, Rotating, RowsGoForward
<1>6. BringsKeys(q)'
  <2>1. ToSet(Configured) \subseteq Tenants
    BY DEF Tenants
  <2> QED BY <1>1, <1>2, <2>1 DEF CommandInv, BringsKeys, Rotating
<1> QED BY <1>3, <1>5, <1>6 DEF CommandInv

\* The steps that change no row.
QuietCommand(p) ==
    \/ \E j \in Rotations : StartRotation(p, j)
    \/ UpdateRows(p) \/ WritePending(p) \/ Publish(p)
    \/ StartEscalation(p) \/ KeepKey(p) \/ ReplaceKey(p) \/ Examined(p)
    \/ StartSeed(p) \/ LookForKey(p) \/ OpenFile(p) \/ DumpFixtures(p)
    \/ \E t \in Tenants : StartGenerate(p, t)
    \/ PrintKey(p) \/ Fail(p) \/ PublishFails(p) \/ Crash(p)

LEMMA QuietLeaves ==
    ASSUME CInv, DInv, NEW p \in Operators, QuietCommand(p)
    PROVE  LeavesOthers(p) /\ RowsGoForward /\ AloneIsOne' /\ (at[p] # "idle" => alone' = alone)
<1>1. UNCHANGED row
  BY DEF QuietCommand, StartRotation, UpdateRows, WritePending, Publish, StartEscalation, KeepKey, ReplaceKey,
         Examined, StartSeed, LookForKey, OpenFile, DumpFixtures, StartGenerate, PrintKey, Fail, PublishFails, Crash
<1>2. \/ /\ at[p] = "idle" /\ alone' = \A q \in Operators \ {p} : at[q] = "idle"
      \/ at[p] # "idle" /\ UNCHANGED alone
  BY DEF QuietCommand, StartRotation, UpdateRows, WritePending, Publish, StartEscalation, KeepKey, ReplaceKey,
         Examined, StartSeed, LookForKey, OpenFile, DumpFixtures, StartGenerate, PrintKey, Fail, PublishFails, Crash,
         Begin, End
<1>3. \A q \in Operators \ {p} : at'[q] = at[q] /\ job'[q] = job[q] /\ todo'[q] = todo[q]
  BY DEF CInv, TypeOK, QuietCommand, StartRotation, UpdateRows, WritePending, Publish, StartEscalation, KeepKey, ReplaceKey,
         Examined, StartSeed, LookForKey, OpenFile, DumpFixtures, StartGenerate, PrintKey, Fail, PublishFails, Crash,
         Begin, End, Goto
<1>4. \A q \in Operators \ {p} : mine'[q] = mine[q] /\ target'[q] = target[q] /\ held'[q] = held[q]
  BY DEF CInv, TypeOK, QuietCommand, StartRotation, UpdateRows, WritePending, Publish, StartEscalation, KeepKey, ReplaceKey,
         Examined, StartSeed, LookForKey, OpenFile, DumpFixtures, StartGenerate, PrintKey, Fail, PublishFails, Crash,
         Begin, End
<1>5. alone' => \A q \in Operators \ {p} : at[q] = "idle"
  BY <1>2 DEF DInv, AloneIsOne
<1>6. AloneIsOne'
  BY <1>3, <1>5 DEF AloneIsOne
<1> QED BY <1>1, <1>2, <1>3, <1>4, <1>5, <1>6 DEF LeavesOthers, RowsGoForward

LEMMA EndKeeps ==
    ASSUME CInv, NEW p \in Operators, End(p)
    PROVE  CommandInv(p)'
BY DEF CInv, TypeOK, End, Goto, CommandInv, JobIsPlaced, EndsKeys, BringsKeys, KeepsFixtures,
       SeedsConfigured, Rotating

LEMMA RotationBegins ==
    ASSUME CInv, DInv, NEW p \in Operators, NEW j \in Rotations, StartRotation(p, j)
    PROVE  CommandInv(p)' /\ FileIsConfigured'
<1> DEFINE S == ToSet(Configured)
           issued == CHOOSE f \in Draws(S) : TRUE
<1>1. S \subseteq Tenants
  BY DEF Tenants
<1>2. \A t \in S : issued[t] \in Undrawn
  <2>1. issued \in Injection(S, Undrawn)
    BY DEF StartRotation, Draws
  <2> QED BY <2>1 DEF Injection
<1>3. \A t \in S : issued[t] # None /\ row[issued[t]] = "none"
  BY <1>2, UnseenKeys
<1>4. at' = [at EXCEPT ![p] = "update"] /\ job' = [job EXCEPT ![p] = j] /\ row' = row /\ file' = file
      /\ mine' = [mine EXCEPT ![p] = [t \in Tenants |-> IF t \in S THEN issued[t] ELSE None]]
      /\ target' = [target EXCEPT ![p] = {k \in Keys : owner[k] \in S /\ row[k] = "active"}]
  BY DEF StartRotation, Begin, Goto, ActiveKeys, stores
<1> HIDE DEF S, issued
<1>5. at'[p] = "update" /\ job'[p] = j /\ target'[p] = {k \in Keys : owner[k] \in S /\ row[k] = "active"}
      /\ \A t \in Tenants : mine'[p][t] = IF t \in S THEN issued[t] ELSE None
  BY <1>4 DEF CInv, TypeOK
<1>6. EndsKeys(p)'
  BY <1>4, <1>5 DEF EndsKeys
<1>7. BringsKeys(p)'
  BY <1>1, <1>3, <1>4, <1>5 DEF BringsKeys, S
<1>8. JobIsPlaced(p)' /\ KeepsFixtures(p)' /\ SeedsConfigured(p)'
  BY <1>5 DEF JobIsPlaced, KeepsFixtures, SeedsConfigured, Rotations
<1> QED BY <1>4, <1>6, <1>7, <1>8 DEF CommandInv, DInv, FileIsConfigured

\* A command that changes no row.
LEMMA QuietKeeps ==
    ASSUME CInv, DInv, NEW p \in Operators, QuietCommand(p)
    PROVE  DInv'
<1>0. LeavesOthers(p) /\ RowsGoForward /\ AloneIsOne' /\ (at[p] # "idle" => alone' = alone)
  BY QuietLeaves
<1> SUFFICES CommandInv(p)' /\ FileIsConfigured'
  BY <1>0, OthersKeep DEF DInv
<1>1. CommandInv(p) /\ FileIsConfigured
  BY DEF DInv
<1> USE DEF CommandInv, JobIsPlaced, EndsKeys, BringsKeys, KeepsFixtures, SeedsConfigured, Rotating,
            FileIsConfigured, Rotations
<1>2. ASSUME NEW j \in Rotations, StartRotation(p, j) PROVE CommandInv(p)' /\ FileIsConfigured'
  BY <1>2, RotationBegins
<1>3. CASE UpdateRows(p)
  <2>1. /\ at[p] = "update" /\ at'[p] = AfterUpdate(p)
        /\ held'[p] = {k \in target[p] : row[k] = "active"}
        /\ UNCHANGED <<row, job, todo, mine, target, alone, file, secret, pending>>
    BY <1>3 DEF UpdateRows, Goto, CInv, TypeOK, stores
  <2>2. AfterUpdate(p) = CASE job[p] = "rotate_to_file" -> "write"
                           [] job[p] = "rotate_to_secret" -> "commit"
                           [] OTHER -> "examine"
    BY DEF AfterUpdate
  <2>3. \A k \in target[p] : row[k] \in {"none", "active", "revoked"}
    BY DEF CInv, TypeOK
  <2> QED BY <1>1, <2>1, <2>2, <2>3
<1>4. CASE WritePending(p)
  <2>1. /\ at[p] = "write" /\ at'[p] = "commit" /\ mine[p] \in pending'
        /\ UNCHANGED <<row, job, todo, mine, target, held, alone, file, secret>>
    BY <1>4 DEF WritePending, Goto, CInv, TypeOK
  <2> QED BY <1>1, <2>1
<1>5. CASE Publish(p)
  <2>1. CommandInv(p)'
    BY <1>5, EndKeeps DEF Publish
  <2>2. FileIsConfigured'
    BY <1>1, <1>5 DEF Publish
  <2> QED BY <2>1, <2>2
<1>6. CASE StartEscalation(p)
  <2>1. /\ at'[p] = "examine" /\ job'[p] = "escalate" /\ mine'[p] = secret /\ secret # None
        /\ UNCHANGED <<secret, file>>
    BY <1>6 DEF StartEscalation, Begin, Goto, CInv, TypeOK, stores
  <2> QED BY <1>1, <2>1
<1>7. CASE KeepKey(p)
  <2>1. /\ at[p] = "examine"
        /\ UNCHANGED <<row, job, at, mine, target, held, alone, file, secret, pending>>
    BY <1>7 DEF KeepKey, stores
  <2> QED BY <1>1, <2>1
<1>8. CASE ReplaceKey(p)
  <2> DEFINE t == Head(todo[p])
  <2>1. NextKey # None /\ row[NextKey] = "none"
    BY <1>8, UnseenKeys DEF ReplaceKey
  <2>2. /\ at[p] = "examine" /\ at'[p] = "update"
        /\ \A u \in Tenants : mine'[p][u] = IF u = t THEN NextKey ELSE mine[p][u]
        /\ UNCHANGED <<row, job, alone, file, secret>>
    BY <1>8 DEF ReplaceKey, Goto, CInv, TypeOK, Fixtures, stores
  <2>3. job[p] = "escalate"
    BY <1>1, <2>2
  <2> HIDE DEF t
  <2> QED BY <1>1, <2>1, <2>2, <2>3
<1>9. CASE Examined(p)
  <2>1. /\ at[p] = "examine" /\ at'[p] = "commit"
        /\ UNCHANGED <<row, job, todo, mine, target, held, alone, file, secret, pending>>
    BY <1>9 DEF Examined, Goto, CInv, TypeOK, stores
  <2> QED BY <1>1, <2>1
<1>10. CASE StartSeed(p)
  <2>1. /\ at[p] = "idle" /\ at'[p] = "issue" /\ job'[p] = "seed" /\ todo'[p] = Configured
        /\ UNCHANGED <<mine, file>>
    BY <1>10 DEF StartSeed, Begin, Goto, CInv, TypeOK, stores
  <2>2. \A t \in Tenants : mine[p][t] = None
    BY <2>1 DEF CInv, RowsAreListed, NoFixtures
  <2>3. Configured \in Seq(ToSet(Configured))
    BY CredentialsAssumption DEF ToSet
  <2> QED BY <1>1, <2>1, <2>2, <2>3
<1>11. CASE LookForKey(p)
  <2>1. /\ at[p] = "issue" /\ at'[p] \in {"issue", "open", "insert"}
        /\ todo'[p] = todo[p] \/ (todo[p] # <<>> /\ todo'[p] = Tail(todo[p]))
        /\ UNCHANGED <<row, job, mine, target, held, alone, file, secret, pending>>
    BY <1>11 DEF LookForKey, Goto, CInv, TypeOK, stores
  <2>2. todo[p] \in Seq(ToSet(Configured)) /\ job[p] = "seed"
    BY <1>1, <2>1
  <2>3. todo'[p] \in Seq(ToSet(Configured))
    BY <2>1, <2>2, ListOfTenants
  <2> QED BY <1>1, <2>1, <2>2, <2>3
<1>12. CASE OpenFile(p)
  <2>1. /\ at[p] = "open" /\ at'[p] = "dump" /\ file' = NoFixtures
        /\ UNCHANGED <<row, job, todo, mine, target, held, alone, secret, pending>>
    BY <1>12 DEF OpenFile, Goto, CInv, TypeOK
  <2> QED BY <1>1, <2>1 DEF NoFixtures
<1>13. CASE DumpFixtures(p)
  <2>1. CommandInv(p)'
    BY <1>13, EndKeeps DEF DumpFixtures
  <2>2. FileIsConfigured'
    BY <1>1, <1>13 DEF DumpFixtures
  <2> QED BY <2>1, <2>2
<1>14. ASSUME NEW t \in Tenants, StartGenerate(p, t) PROVE CommandInv(p)' /\ FileIsConfigured'
  <2>1. /\ at'[p] = "insert" /\ job'[p] = "generate" /\ UNCHANGED file
    BY <1>14 DEF StartGenerate, Begin, Goto, CInv, TypeOK, stores
  <2> QED BY <1>1, <2>1
<1>15. CASE PrintKey(p) \/ Fail(p) \/ PublishFails(p) \/ Crash(p)
  <2>1. End(p) /\ UNCHANGED file
    BY <1>15 DEF PrintKey, Fail, PublishFails, Crash, stores
  <2> QED BY <1>1, <2>1, EndKeeps
<1> QED BY <1>2, <1>3, <1>4, <1>5, <1>6, <1>7, <1>8, <1>9, <1>10, <1>11, <1>12, <1>13, <1>14, <1>15
        DEF QuietCommand

\* A key is committed, by a transaction or by itself.
LEMMA CommitLeaves ==
    ASSUME CInv, DInv, NEW p \in Operators, CommitKeys(p) \/ CommitUnacknowledged(p) \/ IssueKey(p)
    PROVE  LeavesOthers(p) /\ RowsGoForward /\ AloneIsOne' /\ alone' = alone /\ at[p] # "idle"
<1>1. at[p] # "idle" /\ UNCHANGED alone
  BY DEF CommitKeys, CommitUnacknowledged, IssueKey, End
<1>2. \A q \in Operators \ {p} : at'[q] = at[q] /\ job'[q] = job[q] /\ todo'[q] = todo[q]
  BY DEF CInv, TypeOK, CommitKeys, CommitUnacknowledged, IssueKey, End, Goto
<1>3. \A q \in Operators \ {p} : mine'[q] = mine[q] /\ target'[q] = target[q] /\ held'[q] = held[q]
  BY DEF CInv, TypeOK, CommitKeys, CommitUnacknowledged, IssueKey, End
<1>4. alone' => \A q \in Operators \ {p} : at[q] = "idle"
  BY <1>1 DEF DInv, AloneIsOne
<1>5. AloneIsOne'
  BY <1>2, <1>4 DEF AloneIsOne
<1>6. CASE IssueKey(p)
  <2>1. NextKey \in Undrawn /\ row' = [row EXCEPT ![NextKey] = "active"]
    BY <1>6, UnseenKeys DEF IssueKey
  <2>2. row[NextKey] = "none" /\ \A q \in Operators, t \in Tenants : mine[q][t] # NextKey
    BY <2>1, UnseenKeys
  <2>3. RowsGoForward
    BY <2>1, <2>2 DEF RowsGoForward, CInv, TypeOK
  <2>4. \A q \in Operators \ {p}, t \in Tenants : mine[q][t] # None /\ row[mine[q][t]] = "none" =>
            row'[mine[q][t]] = "none"
    BY <2>1, <2>2 DEF CInv, TypeOK, Fixtures
  <2> QED BY <1>1, <1>2, <1>3, <1>4, <1>5, <2>3, <2>4 DEF LeavesOthers
<1>7. CASE CommitKeys(p) \/ CommitUnacknowledged(p)
  <2>1. at[p] = "commit" /\ Commit(p)
    BY <1>7 DEF CommitKeys, CommitUnacknowledged
  <2>2. /\ \A k \in Keys : row[k] # "none" => row'[k] # "none"
        /\ \A q \in Operators \ {p} : \A t \in Tenants :
              mine[q][t] # None /\ row[mine[q][t]] = "none" => row'[mine[q][t]] = "none"
    BY <2>1, CommitStep
  <2>3. \A k \in Keys : row[k] = "revoked" => row'[k] = "revoked"
    BY <2>1 DEF Commit, New
  <2> QED BY <1>1, <1>2, <1>3, <1>4, <1>5, <2>2, <2>3 DEF LeavesOthers, RowsGoForward
<1> QED BY <1>6, <1>7

LEMMA CommitKeeps ==
    ASSUME CInv, DInv, NEW p \in Operators, CommitKeys(p) \/ CommitUnacknowledged(p) \/ IssueKey(p)
    PROVE  DInv'
<1>0. LeavesOthers(p) /\ RowsGoForward /\ AloneIsOne' /\ alone' = alone /\ at[p] # "idle"
  BY CommitLeaves
<1> SUFFICES CommandInv(p)' /\ FileIsConfigured'
  BY <1>0, OthersKeep DEF DInv
<1>1. CommandInv(p) /\ FileIsConfigured
  BY DEF DInv
<1>2. FileIsConfigured'
  BY <1>1 DEF FileIsConfigured, CommitKeys, CommitUnacknowledged, IssueKey, stores
<1>3. CASE CommitKeys(p)
  <2>1. /\ at[p] = "commit" /\ Commit(p) /\ at'[p] = "publish"
        /\ UNCHANGED <<job, todo, mine, target, alone, file, secret, pending>>
    BY <1>3 DEF CommitKeys, Goto, CInv, TypeOK, stores
  <2>2. JobIsPlaced(p)' /\ SeedsConfigured(p)'
    BY <1>1, <2>1 DEF CommandInv, JobIsPlaced, SeedsConfigured, Rotations
  <2>3. \A k \in held[p] : k \in Keys /\ row[k] = "active"
    BY DEF CInv, TypeOK, ActiveKeys
  <2>4. \A k \in Keys : /\ k \in held[p] => row'[k] = "revoked"
                        /\ row[k] = "revoked" => row'[k] = "revoked"
    BY <2>1 DEF Commit, New
  <2>5. EndsKeys(p)'
    <3> SUFFICES ASSUME Rotating(p)', NEW k \in target[p]
                 PROVE  row'[k] # "none" /\ row'[k] = "revoked"
      BY <2>1 DEF EndsKeys
    <3>1. k \in Keys /\ Rotating(p)
      BY <2>1 DEF CInv, TypeOK, Rotating
    <3>2. k \notin held[p] => row[k] = "revoked"
      BY <1>1, <2>1, <3>1 DEF CommandInv, EndsKeys
    <3> QED BY <2>4, <3>1, <3>2
  <2>6. \A t \in Tenants : mine[p][t] # None /\ row[mine[p][t]] = "none" => row'[mine[p][t]] = "active"
    <3> SUFFICES ASSUME NEW t \in Tenants, mine[p][t] # None, row[mine[p][t]] = "none"
                 PROVE  row'[mine[p][t]] = "active"
      OBVIOUS
    <3>1. mine[p][t] \in Keys /\ mine[p][t] \notin held[p]
      BY <2>3 DEF CInv, TypeOK, Fixtures
    <3>2. mine[p][t] \in Range(mine[p])
      BY DEF CInv, TypeOK, Fixtures, Range
    <3> QED BY <2>1, <3>1, <3>2 DEF Commit, New
  <2>7. BringsKeys(p)'
    <3>1. ToSet(Configured) \subseteq Tenants
      BY DEF Tenants
    <3> QED BY <1>1, <2>1, <2>6, <3>1 DEF CommandInv, BringsKeys, Rotating
  <2>8. KeepsFixtures(p)'
    BY <1>1, <2>1, <2>6 DEF CommandInv, KeepsFixtures
  <2> QED BY <1>2, <2>2, <2>5, <2>7, <2>8 DEF CommandInv
<1>4. CASE CommitUnacknowledged(p)
  BY <1>2, <1>4, EndKeeps DEF CommitUnacknowledged
<1>5. CASE IssueKey(p)
  <2> DEFINE t == Head(todo[p])
             l == IF job[p] = "seed" THEN "issue" ELSE "print"
  <2>1. /\ at[p] = "insert" /\ at'[p] = l
        /\ \A u \in Tenants : mine'[p][u] = IF u = t THEN NextKey ELSE mine[p][u]
        /\ todo'[p] = Tail(todo[p])
        /\ UNCHANGED <<job, alone>>
    BY <1>5 DEF IssueKey, Goto, CInv, TypeOK, Fixtures
  <2>2. job[p] \in {"seed", "generate"}
    BY <1>1, <2>1 DEF CommandInv, JobIsPlaced
  <2>3. todo[p] # <<>>
    BY <2>1 DEF CInv, RowsAreListed
  <2>4. job[p] = "seed" => t \in ToSet(Configured) /\ Tail(todo[p]) \in Seq(ToSet(Configured))
    BY <1>1, <2>1, <2>3, ListOfTenants DEF CommandInv, SeedsConfigured
  <2> HIDE DEF t
  <2>5. SeedsConfigured(p)'
    BY <1>1, <2>1, <2>4 DEF CommandInv, SeedsConfigured
  <2>6. JobIsPlaced(p)' /\ EndsKeys(p)' /\ BringsKeys(p)' /\ KeepsFixtures(p)'
    BY <2>1, <2>2 DEF JobIsPlaced, EndsKeys, BringsKeys, KeepsFixtures, Rotating
  <2> QED BY <1>2, <2>5, <2>6 DEF CommandInv
<1> QED BY <1>3, <1>4, <1>5

LEMMA InvariantOfCommands == Spec => [](CInv /\ DInv)
<1>1. Init => DInv
  BY DEF Init, DInv, AloneIsOne, FileIsConfigured, CommandInv, JobIsPlaced, EndsKeys, BringsKeys, KeepsFixtures,
         SeedsConfigured, Rotating, NoFixtures
<1>2. CInv /\ DInv /\ [Next]_vars => DInv'
  <2> SUFFICES ASSUME CInv, DInv, [Next]_vars PROVE DInv'
    OBVIOUS
  <2>1. CASE UNCHANGED vars
    BY <2>1 DEF vars, DInv, AloneIsOne, FileIsConfigured, CommandInv, JobIsPlaced, EndsKeys, BringsKeys,
       KeepsFixtures, SeedsConfigured, Rotating
  <2>2. ASSUME NEW p \in Operators, QuietCommand(p) PROVE DInv'
    BY <2>2, QuietKeeps
  <2>3. ASSUME NEW p \in Operators, CommitKeys(p) \/ CommitUnacknowledged(p) \/ IssueKey(p) PROVE DInv'
    BY <2>3, CommitKeeps
  <2> QED BY <2>1, <2>2, <2>3 DEF Next, QuietCommand
<1> QED BY <1>1, <1>2, Invariant, PTL DEF Spec

\* A rotation that reports success has revoked every key that was valid when it
\* looked, and, when no other command ran meanwhile, its destination has a valid key
\* of every configured tenant (rotate_tenant_api_keys.py:160-173, 219).
THEOREM RotationsDeliver == Spec => RotationDelivers
<1> DEFINE Delivers ==
      \A p \in Operators : Publish(p) /\ job[p] \in Rotations =>
          /\ \A k \in target[p] : row[k] = "revoked"
          /\ alone =>
                LET destination == IF job[p] = "rotate_to_file" THEN file' ELSE secret'
                IN \A t \in ToSet(Configured) : destination[t] \in ActiveKeys({t})
<1>1. CInv /\ DInv => Delivers
  <2> SUFFICES ASSUME CInv, DInv, NEW p \in Operators, Publish(p), job[p] \in Rotations
               PROVE  /\ \A k \in target[p] : row[k] = "revoked"
                      /\ alone =>
                            LET destination == IF job[p] = "rotate_to_file" THEN file' ELSE secret'
                            IN \A t \in ToSet(Configured) : destination[t] \in ActiveKeys({t})
    OBVIOUS
  <2>1. at[p] = "publish" /\ (IF job[p] = "rotate_to_file" THEN file' ELSE secret') = mine[p]
    BY DEF Publish
  <2>2. Rotating(p) /\ EndsKeys(p) /\ BringsKeys(p)
    BY <2>1 DEF DInv, CommandInv, Rotating
  <2>3. \A k \in target[p] : row[k] = "revoked"
    BY <2>1, <2>2 DEF EndsKeys
  <2>4. ASSUME alone, NEW t \in ToSet(Configured) PROVE mine[p][t] \in ActiveKeys({t})
    <3>1. t \in Tenants
      BY DEF Tenants
    <3>2. mine[p][t] # None /\ row[mine[p][t]] = "active"
      BY <2>1, <2>2, <2>4, <3>1 DEF BringsKeys
    <3>3. mine[p][t] \in Keys /\ owner[mine[p][t]] = t
      BY <3>1, <3>2 DEF CInv, TypeOK, Fixtures, KeysFit, Fits
    <3> QED BY <3>2, <3>3 DEF ActiveKeys
  <2> QED BY <2>1, <2>3, <2>4
<1> QED BY <1>1, InvariantOfCommands, PTL DEF RotationDelivers

(***************************************************************************)
(* The last copy of a valid key.                                           *)
(***************************************************************************)
Copied(k, t) ==
    \/ k = file[t]
    \/ secret # None /\ k = secret[t]
    \/ k \in printed
    \/ \E f \in pending : k = f[t]
    \/ \E p \in Operators : k = mine[p][t]

\* Only a commit ends a key.
LEMMA ActiveStays ==
    ASSUME CInv, NEW p \in Operators, QuietCommand(p), NEW t \in Tenants, NEW k \in ActiveKeys({t})
    PROVE  k \in ActiveKeys({t})'
<1>1. k \in Keys /\ owner[k] = t /\ row[k] = "active" /\ t # None
  BY CredentialsAssumption DEF ActiveKeys
<1>2. k \notin Undrawn
  BY <1>1 DEF Undrawn
<1>3. UNCHANGED row
  BY DEF QuietCommand, StartRotation, UpdateRows, WritePending, Publish, StartEscalation, KeepKey, ReplaceKey,
         Examined, StartSeed, LookForKey, OpenFile, DumpFixtures, StartGenerate, PrintKey, Fail, PublishFails, Crash
<1>4. CASE UNCHANGED owner
  BY <1>1, <1>3, <1>4 DEF ActiveKeys
<1>5. CASE \E j \in Rotations : StartRotation(p, j)
  <2> DEFINE S == ToSet(Configured)
             issued == CHOOSE f \in Draws(S) : TRUE
  <2>1. \A u \in S : issued[u] \in Undrawn
    <3>1. issued \in Injection(S, Undrawn)
      BY <1>5 DEF StartRotation, Draws
    <3> QED BY <3>1 DEF Injection
  <2>2. DOMAIN issued = S
    <3>1. issued \in Injection(S, Undrawn)
      BY <1>5 DEF StartRotation, Draws
    <3> QED BY <3>1 DEF Injection
  <2>3. k \notin Range(issued)
    BY <1>2, <2>1, <2>2 DEF Range
  <2>4. owner' = [l \in Keys |-> IF l \in Range(issued) THEN CHOOSE u \in S : issued[u] = l ELSE owner[l]]
    BY <1>5 DEF StartRotation
  <2> HIDE DEF S, issued
  <2>5. owner'[k] = owner[k]
    BY <1>1, <2>3, <2>4
  <2> QED BY <1>1, <1>3, <2>5 DEF ActiveKeys
<1>6. CASE ReplaceKey(p)
  <2>1. NextKey # k
    BY <1>2, <1>6 DEF ReplaceKey, NextKey
  <2>2. owner'[k] = owner[k]
    BY <1>1, <1>6, <2>1 DEF ReplaceKey, CInv, TypeOK
  <2> QED BY <1>1, <1>3, <2>2 DEF ActiveKeys
<1> QED BY <1>4, <1>5, <1>6 DEF QuietCommand, UpdateRows, WritePending, Publish, StartEscalation, KeepKey,
           Examined, StartSeed, LookForKey, OpenFile, DumpFixtures, StartGenerate, PrintKey, Fail, PublishFails, Crash

\* What a command that is not one of those that may lose a key can rely on.
LEMMA Alone ==
    ASSUME CInv, DInv, NEW p \in Operators, alone, at[p] # "idle", NEW q \in Operators \ {p}, NEW t \in Tenants
    PROVE  mine[q][t] = None
<1>1. at[q] = "idle"
  BY DEF DInv, AloneIsOne
<1> QED BY <1>1 DEF CInv, RowsAreListed, NoFixtures

\* A step that keeps every copy.
LEMMA CopiesStay ==
    ASSUME CInv, DInv, NEW p \in Operators, NEW t \in Tenants, NEW k \in Keys, Copied(k, t),
           \/ \E j \in Rotations : StartRotation(p, j)
           \/ UpdateRows(p) \/ WritePending(p) \/ StartEscalation(p) \/ KeepKey(p) \/ Examined(p)
           \/ StartSeed(p) \/ LookForKey(p) \/ \E u \in Tenants : StartGenerate(p, u)
    PROVE  Copied(k, t)'
<1>1. k # None
  BY CredentialsAssumption
<1>2. CASE \E j \in Rotations : StartRotation(p, j)
  <2>1. /\ at[p] = "idle" /\ UNCHANGED <<file, secret, pending, printed>>
        /\ \A q \in Operators \ {p} : mine'[q] = mine[q]
    BY <1>2 DEF StartRotation, Begin, stores, CInv, TypeOK
  <2>2. mine[p][t] # k
    BY <1>1, <2>1 DEF CInv, RowsAreListed, NoFixtures
  <2> QED BY <2>1, <2>2 DEF Copied
<1>3. CASE StartEscalation(p)
  <2>1. /\ at[p] = "idle" /\ UNCHANGED <<file, secret, pending, printed>>
        /\ \A q \in Operators \ {p} : mine'[q] = mine[q]
    BY <1>3 DEF StartEscalation, Begin, stores, CInv, TypeOK
  <2>2. mine[p][t] # k
    BY <1>1, <2>1 DEF CInv, RowsAreListed, NoFixtures
  <2> QED BY <2>1, <2>2 DEF Copied
<1>4. CASE WritePending(p)
  BY <1>4 DEF WritePending, Copied
<1>5. CASE UNCHANGED <<file, secret, pending, printed, mine>>
  BY <1>5 DEF Copied
<1> QED BY <1>2, <1>3, <1>4, <1>5 DEF UpdateRows, KeepKey, Examined, StartSeed, LookForKey, StartGenerate, stores

\* A step that moves keys from one place to another.
LEMMA CopiesMove ==
    ASSUME CInv, DInv, NEW p \in Operators, NEW t \in Tenants, NEW k \in ActiveKeys({t}), Copied(k, t),
           alone, at[p] # "idle",
           \/ ReplaceKey(p)
           \/ Publish(p) /\ ~(job[p] = "rotate_to_secret" /\ t \notin ToSet(Configured))
           \/ Fail(p) /\ job[p] \notin {"seed", "generate"}
           \/ (PublishFails(p) \/ Crash(p)) /\ job[p] = "rotate_to_file"
    PROVE  \E l \in ActiveKeys({t}) : Copied(l, t)'
<1>1. k \in Keys /\ owner[k] = t /\ row[k] = "active" /\ k # None
  BY CredentialsAssumption DEF ActiveKeys
<1>2. /\ JobIsPlaced(p) /\ BringsKeys(p) /\ KeepsFixtures(p) /\ FileIsConfigured
      /\ mine[p] \in Fixtures
  BY DEF DInv, CommandInv, CInv, TypeOK
<1>3. \A q \in Operators : k = mine[q][t] => q = p
  BY <1>1, Alone
<1>4. CASE ReplaceKey(p)
  <2> DEFINE h == Head(todo[p])
  <2>1. UNCHANGED <<file, secret, pending, printed>>
    BY <1>4 DEF ReplaceKey, stores
  <2>2. \A u \in Tenants : u # h => mine'[p][u] = mine[p][u]
    BY <1>4 DEF ReplaceKey, CInv, TypeOK, Fixtures
  <2>3. t = h => k # mine[p][t]
    BY <1>4 DEF ReplaceKey
  <2> HIDE DEF h
  <2> QED BY <1>3, <2>1, <2>2, <2>3 DEF Copied
<1>5. CASE Publish(p) /\ job[p] = "rotate_to_file"
  <2>1. at[p] = "publish" /\ file' = mine[p] /\ pending' = pending \ {mine[p]} /\ UNCHANGED <<secret, printed>>
    BY <1>5 DEF Publish
  <2>2. Rotating(p)
    BY <1>5, <2>1 DEF Rotating, Rotations
  <2>3. CASE k = file[t]
    <3>1. t \in ToSet(Configured)
      BY <1>1, <1>2, <2>3 DEF FileIsConfigured
    <3>2. mine[p][t] # None /\ row[mine[p][t]] = "active"
      BY <1>2, <2>1, <2>2, <3>1 DEF BringsKeys
    <3>3. mine[p][t] \in ActiveKeys({t})
      BY <3>2 DEF ActiveKeys, CInv, KeysFit, Fits, TypeOK, Fixtures
    <3> QED BY <2>1, <3>3 DEF Copied
  <2>4. CASE \E f \in pending : k = f[t]
    BY <2>1, <2>4 DEF Copied
  <2>5. CASE k = mine[p][t]
    BY <2>1, <2>5 DEF Copied
  <2> QED BY <1>3, <2>1, <2>3, <2>4, <2>5 DEF Copied
<1>6. CASE Publish(p) /\ job[p] # "rotate_to_file"
  <2>1. at[p] = "publish" /\ secret' = mine[p] /\ UNCHANGED <<file, pending, printed>>
    BY <1>6 DEF Publish
  <2>2. secret' # None
    BY <1>2, <2>1, CredentialsAssumption DEF Fixtures
  <2>3. CASE k = mine[p][t]
    BY <2>1, <2>2, <2>3 DEF Copied
  <2>4. CASE secret # None /\ k = secret[t]
    <3>1. CASE job[p] = "escalate"
      <4>1. mine[p][t] = k \/ (mine[p][t] # None /\ row[mine[p][t]] = "active")
        BY <1>2, <2>1, <2>4, <3>1 DEF KeepsFixtures
      <4>2. mine[p][t] \in ActiveKeys({t})
        BY <1>1, <4>1 DEF ActiveKeys, CInv, KeysFit, Fits, TypeOK, Fixtures
      <4> QED BY <2>1, <2>2, <4>2 DEF Copied
    <3>2. CASE job[p] = "rotate_to_secret"
      <4>1. t \in ToSet(Configured) /\ Rotating(p)
        BY <1>6, <2>1, <3>2 DEF Rotating, Rotations, ReplaceKey, Fail, PublishFails, Crash, Publish
      <4>2. mine[p][t] # None /\ row[mine[p][t]] = "active"
        BY <1>2, <2>1, <4>1 DEF BringsKeys
      <4>3. mine[p][t] \in ActiveKeys({t})
        BY <4>2 DEF ActiveKeys, CInv, KeysFit, Fits, TypeOK, Fixtures
      <4> QED BY <2>1, <2>2, <4>3 DEF Copied
    <3> QED BY <1>2, <1>6, <2>1, <3>1, <3>2 DEF JobIsPlaced, Rotations
  <2> QED BY <1>3, <2>1, <2>3, <2>4 DEF Copied
<1>7. CASE Fail(p) /\ job[p] \notin {"seed", "generate"}
  <2>1. at[p] \notin {"idle", "publish"} /\ pending' = pending \ {mine[p]} /\ UNCHANGED <<file, secret, printed>>
    BY <1>7 DEF Fail
  <2>2. k = mine[p][t] => secret # None /\ k = secret[t]
    <3>1. at[p] \in {"update", "write", "commit", "examine"}
      BY <1>2, <1>7, <2>1 DEF JobIsPlaced, CInv, TypeOK
    <3>2. CASE job[p] = "escalate"
      BY <1>1, <1>2, <2>1, <3>1, <3>2 DEF KeepsFixtures, JobIsPlaced, Rotations
    <3>3. CASE job[p] \in Rotations
      BY <1>1, <1>2, <2>1, <3>1, <3>3 DEF BringsKeys, Rotating, JobIsPlaced, Rotations
    <3> QED BY <1>2, <3>1, <3>2, <3>3 DEF JobIsPlaced, Rotations
  <2> QED BY <1>3, <2>1, <2>2 DEF Copied
<1>8. CASE (PublishFails(p) \/ Crash(p)) /\ job[p] = "rotate_to_file"
  <2>1. UNCHANGED <<file, secret, pending, printed>>
    BY <1>8 DEF PublishFails, Crash, stores
  <2>2. at[p] \in {"update", "write", "commit", "publish"}
    BY <1>2, <1>8 DEF JobIsPlaced, CInv, TypeOK
  <2>3. Rotating(p)
    BY <1>8, <2>2 DEF Rotating, Rotations
  <2>4. k = mine[p][t] => at[p] = "publish"
    BY <1>1, <1>2, <2>3 DEF BringsKeys
  <2>5. at[p] = "publish" => mine[p] \in pending
    BY <1>2, <1>8, <2>3 DEF BringsKeys
  <2> QED BY <1>3, <2>1, <2>4, <2>5 DEF Copied
<1> QED BY <1>4, <1>5, <1>6, <1>7, <1>8

\* No step but those that MayLose names takes the last copy of a tenant's valid keys:
\* a rotation to a file that runs alone leaves one wherever it fails or stops, and
\* an escalation that runs alone leaves those it found
\* (rotate_tenant_api_keys.py:158-178, seed_llm_escalation_tenants.py:125-147).
THEOREM CopiesAreKept == Spec => KeysAreKept
<1> DEFINE Kept ==
      \A t \in Tenants : Recoverable(t) /\ ~Recoverable(t)' =>
          \E p \in Operators : at'[p] # at[p] /\ MayLose(p, t)
<1>1. CInv /\ DInv /\ [Next]_vars => [Kept]_vars
  <2> SUFFICES ASSUME CInv, DInv, Next, NEW t \in Tenants, Recoverable(t), ~Recoverable(t)'
               PROVE  \E p \in Operators : at'[p] # at[p] /\ MayLose(p, t)
    OBVIOUS
  <2>1. PICK k \in ActiveKeys({t}) : Copied(k, t)
    BY DEF Recoverable, Copied
  <2>2. ~\E l \in ActiveKeys({t})' : Copied(l, t)'
    BY DEF Recoverable, Copied
  <2>3. k \in Keys
    BY DEF ActiveKeys
  <2>4. PICK p \in Operators :
            \/ QuietCommand(p)
            \/ CommitKeys(p) \/ CommitUnacknowledged(p) \/ IssueKey(p)
    BY DEF Next, QuietCommand
  <2> SUFFICES ASSUME ~(at'[p] # at[p] /\ MayLose(p, t)) PROVE FALSE
    OBVIOUS
  <2>5. JobIsPlaced(p)
    BY DEF DInv, CommandInv
  <2>6. at \in [Operators -> {"idle", "update", "write", "commit", "publish", "examine",
                              "issue", "insert", "print", "open", "dump"}]
    BY DEF CInv, TypeOK
  <2>7. QuietCommand(p) => k \in ActiveKeys({t})'
    BY ActiveStays
  <2>8. CASE \/ \E j \in Rotations : StartRotation(p, j)
             \/ UpdateRows(p) \/ WritePending(p) \/ StartEscalation(p) \/ KeepKey(p) \/ Examined(p)
             \/ StartSeed(p) \/ LookForKey(p) \/ \E u \in Tenants : StartGenerate(p, u)
    <3>1. Copied(k, t)'
      BY <2>1, <2>3, <2>8, CopiesStay
    <3> QED BY <2>2, <2>7, <2>8, <3>1 DEF QuietCommand
  <2>9. CASE IssueKey(p) \/ OpenFile(p) \/ DumpFixtures(p) \/ PrintKey(p)
    <3>1. at'[p] # at[p]
      BY <2>6, <2>9 DEF IssueKey, OpenFile, DumpFixtures, PrintKey, End, Goto
    <3>2. job[p] \in {"seed", "generate"}
      BY <2>5, <2>9 DEF JobIsPlaced, IssueKey, OpenFile, DumpFixtures, PrintKey
    <3> QED BY <3>1, <3>2 DEF MayLose
  <2>10. CASE CommitUnacknowledged(p)
    <3>1. at'[p] # at[p]
      BY <2>6, <2>10 DEF CommitUnacknowledged, End, Goto
    <3> QED BY <2>10, <3>1 DEF MayLose
  <2>11. CASE CommitKeys(p)
    <3>1. at'[p] # at[p] /\ at[p] = "commit" /\ Commit(p)
          /\ UNCHANGED <<file, secret, pending, printed, mine, owner>>
      BY <2>6, <2>11 DEF CommitKeys, Goto, stores
    <3>2. \A l : Copied(l, t)' <=> Copied(l, t)
      BY <3>1 DEF Copied
    <3>3. k \in held[p]
      BY <2>1, <2>2, <2>3, <3>1, <3>2 DEF ActiveKeys, Commit, New
    <3> PICK l : l = mine[p][t]
      OBVIOUS
    <3>4. k \in target[p] /\ owner[k] = t
      BY <3>3 DEF CInv, RowsAreListed, ActiveKeys
    <3>5. l # None /\ row[l] = "none"
      BY <3>1, <3>4 DEF CInv, RowsAreReplaced
    <3>6. l \in Keys /\ owner[l] = t /\ l \in Range(mine[p])
      BY <3>5 DEF CInv, TypeOK, Fixtures, KeysFit, Fits, Range
    <3>7. l \notin held[p]
      BY <3>5 DEF CInv, TypeOK, ActiveKeys
    <3>8. row'[l] = "active"
      BY <3>1, <3>5, <3>6, <3>7 DEF Commit, New
    <3>9. l \in ActiveKeys({t})'
      BY <3>1, <3>6, <3>8 DEF ActiveKeys
    <3>10. Copied(l, t)'
      <4>1. Copied(l, t)
        BY DEF Copied
      <4> QED BY <3>2, <4>1
    <3> QED BY <2>2, <3>9, <3>10
  <2>12. CASE ReplaceKey(p) \/ Publish(p) \/ Fail(p) \/ PublishFails(p) \/ Crash(p)
    <3>1. at'[p] # at[p] /\ at[p] # "idle"
      BY <2>6, <2>12 DEF ReplaceKey, Publish, Fail, PublishFails, Crash, End, Goto
    <3>2. alone /\ job[p] \notin {"seed", "generate"}
      BY <3>1 DEF MayLose
    <3>3. PublishFails(p) \/ Crash(p) => job[p] = "rotate_to_file"
      BY <3>1 DEF MayLose
    <3>4. Publish(p) => ~(job[p] = "rotate_to_secret" /\ t \notin ToSet(Configured))
      BY <3>1 DEF MayLose, Publish
    <3>5. \E m \in ActiveKeys({t}) : Copied(m, t)'
      BY <2>1, <2>12, <3>1, <3>2, <3>3, <3>4, CopiesMove
    <3>6. PICK m \in ActiveKeys({t}) : Copied(m, t)'
      BY <3>5
    <3>7. m \in ActiveKeys({t})'
      BY <2>12, ActiveStays DEF QuietCommand
    <3> QED BY <2>2, <3>6, <3>7
  <2> QED BY <2>4, <2>8, <2>9, <2>10, <2>11, <2>12 DEF QuietCommand
<1> QED BY <1>1, InvariantOfCommands, PTL DEF KeysAreKept, Spec

(***************************************************************************)
(* Keys and roles together.                                                *)
(***************************************************************************)
RolesProofs == INSTANCE ProvisioningProofs
    WITH secret <- urlSecret, owner <- tableOwner,
         at <- step, mine <- drawnPassword, alone <- undisturbed

(***************************************************************************)
(* The two instances of Provisioning are the same.                         *)
(***************************************************************************)
LEMMA SameAssumption == RolesProofs!ProvisioningAssumption
BY RolesAssumption DEF Roles!ProvisioningAssumption, RolesProofs!ProvisioningAssumption,
                       Roles!Passwords, RolesProofs!Passwords

LEMMA SameInit == Roles!Init => RolesProofs!Init
BY DEF Roles!Init, RolesProofs!Init, Roles!Rotated, RolesProofs!Rotated, Roles!Tables, RolesProofs!Tables

LEMMA SameRolesCommand ==
    ASSUME NEW p \in Operators,
           Roles!StartRoles(p) \/ Roles!AlterRoles(p) \/ Roles!PutAppSecret(p) \/ Roles!Stop(p)
    PROVE  RolesProofs!StartRoles(p) \/ RolesProofs!AlterRoles(p) \/ RolesProofs!PutAppSecret(p)
           \/ RolesProofs!Stop(p)
<1> USE DEF Roles!Begin, Roles!Goto, Roles!End, Roles!schema,
            RolesProofs!Begin, RolesProofs!Goto, RolesProofs!End, RolesProofs!schema
<1>1. Roles!StartRoles(p) => RolesProofs!StartRoles(p)
  BY DEF Roles!StartRoles, Roles!ChooseAppPassword, Roles!ExistingAppPassword, Roles!DrawPassword,
         RolesProofs!StartRoles, RolesProofs!ChooseAppPassword, RolesProofs!ExistingAppPassword,
         RolesProofs!DrawPassword
<1>2. Roles!AlterRoles(p) => RolesProofs!AlterRoles(p)
  BY DEF Roles!AlterRoles, RolesProofs!AlterRoles
<1>3. Roles!PutAppSecret(p) => RolesProofs!PutAppSecret(p)
  BY DEF Roles!PutAppSecret, RolesProofs!PutAppSecret
<1>4. Roles!Stop(p) => RolesProofs!Stop(p)
  BY DEF Roles!Stop, RolesProofs!Stop
<1> QED BY <1>1, <1>2, <1>3, <1>4

LEMMA SameReaderCommand ==
    ASSUME NEW p \in Operators,
           \/ Roles!StartReader(p) \/ Roles!ProvisionReaderRole(p)
           \/ Roles!ConfigureReaderPolicies(p) \/ Roles!PutReaderSecret(p)
    PROVE  \/ RolesProofs!StartReader(p) \/ RolesProofs!ProvisionReaderRole(p)
           \/ RolesProofs!ConfigureReaderPolicies(p) \/ RolesProofs!PutReaderSecret(p)
<1> USE DEF Roles!Begin, Roles!Goto, Roles!End, Roles!schema,
            RolesProofs!Begin, RolesProofs!Goto, RolesProofs!End, RolesProofs!schema
<1>1. Roles!StartReader(p) => RolesProofs!StartReader(p)
  BY DEF Roles!StartReader, Roles!DrawPassword, RolesProofs!StartReader, RolesProofs!DrawPassword
<1>2. Roles!ProvisionReaderRole(p) => RolesProofs!ProvisionReaderRole(p)
  BY DEF Roles!ProvisionReaderRole, RolesProofs!ProvisionReaderRole
<1>3. Roles!ConfigureReaderPolicies(p) => RolesProofs!ConfigureReaderPolicies(p)
  BY DEF Roles!ConfigureReaderPolicies, RolesProofs!ConfigureReaderPolicies,
         Roles!IsGuarded, RolesProofs!IsGuarded
<1>4. Roles!PutReaderSecret(p) => RolesProofs!PutReaderSecret(p)
  BY DEF Roles!PutReaderSecret, RolesProofs!PutReaderSecret
<1> QED BY <1>1, <1>2, <1>3, <1>4

LEMMA SameTransaction ==
    /\ Roles!BootstrapSchema => RolesProofs!BootstrapSchema
    /\ Roles!InitDb => RolesProofs!InitDb
    /\ Roles!ConfigureRls => RolesProofs!ConfigureRls
    /\ Roles!NextRelease => RolesProofs!NextRelease
    /\ \A w \in Tasks : Roles!StartTask(w) => RolesProofs!StartTask(w)
<1> USE DEF Roles!CreateAll, Roles!Configurable, Roles!Tables, Roles!schema,
            RolesProofs!CreateAll, RolesProofs!Configurable, RolesProofs!Tables, RolesProofs!schema
<1>1. Roles!BootstrapSchema => RolesProofs!BootstrapSchema
  BY DEF Roles!BootstrapSchema, RolesProofs!BootstrapSchema
<1>2. Roles!InitDb => RolesProofs!InitDb
  BY DEF Roles!InitDb, RolesProofs!InitDb
<1>3. Roles!ConfigureRls => RolesProofs!ConfigureRls
  BY DEF Roles!ConfigureRls, RolesProofs!ConfigureRls
<1>4. Roles!NextRelease => RolesProofs!NextRelease
  BY DEF Roles!NextRelease, RolesProofs!NextRelease
<1>5. \A w \in Tasks : Roles!StartTask(w) => RolesProofs!StartTask(w)
  BY DEF Roles!StartTask, RolesProofs!StartTask
<1> QED BY <1>1, <1>2, <1>3, <1>4, <1>5

LEMMA SameNext == Roles!Next => RolesProofs!Next
BY SameRolesCommand, SameReaderCommand, SameTransaction DEF Roles!Next, RolesProofs!Next

LEMMA SameSpec == AdministrationSpec => Spec /\ RolesProofs!Spec
<1>1. AdministrationInit => Init /\ RolesProofs!Init
  BY SameInit DEF AdministrationInit
<1>2. [AdministrationNext]_<<work, vars, provisioning>> => [Next]_vars
  BY DEF AdministrationNext
<1>3. [AdministrationNext]_<<work, vars, provisioning>> => [RolesProofs!Next]_(RolesProofs!vars)
  BY SameNext DEF AdministrationNext, provisioning, RolesProofs!vars
<1> QED BY <1>1, <1>2, <1>3, PTL DEF AdministrationSpec, Spec, RolesProofs!Spec

(***************************************************************************)
(* Theorems.                                                               *)
(***************************************************************************)
\* A tenant of which the commands revoked a key has one that works
\* (rotate_tenant_api_keys.py, seed_llm_escalation_tenants.py).
THEOREM AdministrationLocksNobodyOut == AdministrationSpec => []NoLockOut
BY SameSpec, NobodyIsLockedOut, PTL

\* The types of both; a row of api_credentials is updated by one transaction at a
\* time, and only tables of the administrator are forced
\* (rotate_tenant_api_keys.py:99-108, enable_rls.py).
THEOREM TypeCorrect == AdministrationSpec => []AdministrationTypeOK
<1>1. RolesProofs!Spec => []RolesProofs!TypeOK
  BY SameAssumption, RolesProofs!TypeCorrect
<1>2. RolesProofs!TypeOK => Roles!TypeOK
  BY DEF Roles!TypeOK, RolesProofs!TypeOK, Roles!Rotated, RolesProofs!Rotated,
         Roles!Tables, RolesProofs!Tables, Roles!Passwords, RolesProofs!Passwords,
         Roles!Policies, RolesProofs!Policies
<1>3. TypeOK /\ Roles!TypeOK => AdministrationTypeOK
  BY DEF AdministrationTypeOK
<1> QED BY <1>1, <1>2, <1>3, SameSpec, RowsAreOwn, PTL

\* What a rotation that reports success has done, and which steps may take the last
\* copy of a valid key (rotate_tenant_api_keys.py:158-178, 219).
THEOREM AdministrationKeepsKeys == AdministrationSpec => RotationDelivers /\ KeysAreKept
BY SameSpec, RotationsDeliver, CopiesAreKept, PTL

\* A role reaches tenant data only behind a policy (enable_rls.py,
\* create_release_gate_reader.py).
THEOREM AdministrationGuardsGrants == AdministrationSpec => []GrantsAreGuarded
<1>1. RolesProofs!Spec => []RolesProofs!GrantsAreGuarded
  BY SameAssumption, RolesProofs!RolesAreGuarded
<1>2. RolesProofs!GrantsAreGuarded => GrantsAreGuarded
  BY DEF GrantsAreGuarded, Roles!GrantsAreGuarded, RolesProofs!GrantsAreGuarded,
         Roles!Rotated, RolesProofs!Rotated, Roles!Tables, RolesProofs!Tables,
         Roles!Preflight, RolesProofs!Preflight
<1> QED BY <1>1, <1>2, SameSpec, PTL

\* Commands that overlap with no other keep the passwords in the secrets those of
\* the roles, and cut off no task (provision_database_roles.py).
THEOREM AdministrationKeepsAccess == AdministrationSpec => AccessIsKept
<1> DEFINE Proved ==
              /\ \A p \in Operators :
                    /\ RolesProofs!PutAppSecret(p) /\ undisturbed =>
                          urlSecret'["app_user"] = password["app_user"]
                    /\ RolesProofs!PutReaderSecret(p) /\ undisturbed =>
                          urlSecret'["release_gate_reader"] = password["release_gate_reader"]
              /\ \A w \in Tasks :
                    /\ task[w] # None
                    /\ task[w] = password["app_user"] /\ task[w] = urlSecret["app_user"]
                    /\ undisturbed
                    => task[w] = password'["app_user"]
           Kept ==
              /\ \A p \in Operators :
                    /\ Roles!PutAppSecret(p) /\ undisturbed =>
                          urlSecret'["app_user"] = password["app_user"]
                    /\ Roles!PutReaderSecret(p) /\ undisturbed =>
                          urlSecret'["release_gate_reader"] = password["release_gate_reader"]
              /\ \A w \in Tasks :
                    /\ task[w] # None
                    /\ task[w] = password["app_user"] /\ task[w] = urlSecret["app_user"]
                    /\ undisturbed
                    => task[w] = password'["app_user"]
<1>1. RolesProofs!Spec => RolesProofs!AccessIsKept
  BY SameAssumption, RolesProofs!PasswordsAreKept
<1>2. [Proved]_(RolesProofs!vars) => [Kept]_(Roles!vars)
  <2>1. \A p \in Operators :
            /\ Roles!PutAppSecret(p) => RolesProofs!PutAppSecret(p)
            /\ Roles!PutReaderSecret(p) => RolesProofs!PutReaderSecret(p)
    BY DEF Roles!PutAppSecret, Roles!PutReaderSecret, Roles!End, Roles!Goto, Roles!schema,
           RolesProofs!PutAppSecret, RolesProofs!PutReaderSecret, RolesProofs!End, RolesProofs!Goto,
           RolesProofs!schema
  <2>2. Proved => Kept
    BY <2>1
  <2> QED BY <2>2 DEF Roles!vars, RolesProofs!vars
<1> QED BY <1>1, <1>2, SameSpec, PTL DEF AccessIsKept, Roles!AccessIsKept, RolesProofs!AccessIsKept
=============================================================================
