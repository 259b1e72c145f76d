--------------------------- MODULE AuditChainProofs ---------------------------
(***************************************************************************)
(* The audit chain verifies, and replays to the tables, for any number of  *)
(* transactions, objects and values.                                       *)
(***************************************************************************)
EXTENDS AuditChain, TLAPS, FiniteSetTheorems

(* A set of rows has a newest one, so Latest is well defined.               *)
HasLatest(S) == S # {} => \E r \in S : \A q \in S : q.id <= r.id

(* The rows of B continue S with the ids N, N + 1, ..., N + n - 1.          *)
Extends(B, S, N, n) ==
  /\ \A k \in 1 .. n : \E b \in B : b.id = N + k - 1
  /\ \A b \in B : \E k \in 1 .. n :
       b.id = N + k - 1 /\ b.prev = IF k = 1 THEN Latest(S) ELSE N + k - 2

-----------------------------------------------------------------------------
(* A batch hashed from the newest row of a verified chain leaves a verified *)
(* chain: the arithmetic of _write_audit_rows.                              *)
LEMMA BatchExtendsChain ==
  ASSUME NEW S \in SUBSET Row, NEW B \in SUBSET Row, NEW N \in Nat \ {0}, NEW n \in Nat \ {0},
         VerifyChain(S), HasLatest(S), \A r \in S : r.id < N,
         Extends(B, S, N, n)
  PROVE  /\ VerifyChain(S \cup B) /\ HasLatest(S \cup B)
         /\ \A r \in S \cup B : r.id < N + n
         /\ \A b \in B : N <= b.id
<1>0. /\ \A r \in S : r.id \in Nat /\ r.id < N
      /\ \A b \in B : b.id \in Nat /\ N <= b.id /\ b.id < N + n
  BY DEF Row, Extends
<1>1. HasLatest(S \cup B)
  <2>1. PICK b \in B : b.id = N + n - 1
    BY DEF Extends
  <2>2. \A q \in S \cup B : q.id <= b.id
    BY <1>0, <2>1
  <2> QED BY <2>1, <2>2, Zenon DEF HasLatest
<1>2. ASSUME NEW r \in S
      PROVE  \/ r.prev = 0 /\ \A q \in S \cup B : r.id <= q.id
             \/ \E p \in S \cup B : /\ p.id = r.prev /\ p.id < r.id
                                    /\ \A q \in S \cup B : q.id < r.id => q.id <= p.id
  <2>1. CASE r.prev = 0 /\ \A q \in S : r.id <= q.id
    BY <1>0, <2>1
  <2>2. CASE \E p \in S : /\ p.id = r.prev /\ p.id < r.id
                          /\ \A q \in S : q.id < r.id => q.id <= p.id
    BY <1>0, <2>2
  <2> QED BY <2>1, <2>2, Zenon DEF VerifyChain
<1>3. ASSUME NEW r \in B
      PROVE  \/ r.prev = 0 /\ \A q \in S \cup B : r.id <= q.id
             \/ \E p \in S \cup B : /\ p.id = r.prev /\ p.id < r.id
                                    /\ \A q \in S \cup B : q.id < r.id => q.id <= p.id
  <2>1. PICK k \in 1 .. n : /\ r.id = N + k - 1
                            /\ r.prev = IF k = 1 THEN Latest(S) ELSE N + k - 2
    BY Zenon DEF Extends
  <2>2. CASE k = 1 /\ S = {}
    BY <1>0, <2>1, <2>2 DEF Latest
  <2>3. CASE k = 1 /\ S # {}
    <3>1. PICK p \in S : p = CHOOSE s \in S : \A q \in S : q.id <= s.id
      BY <2>3, Zenon DEF HasLatest
    <3>2. \A q \in S : q.id <= p.id
      BY <2>3, <3>1, Zenon DEF HasLatest
    <3>3. r.prev = p.id /\ r.id = N
      BY <2>1, <2>3, <3>1 DEF Latest
    <3> QED BY <1>0, <3>2, <3>3
  <2>4. CASE k > 1
    <3>1. k - 1 \in 1 .. n
      BY <2>4
    <3>2. PICK p \in B : p.id = N + (k - 1) - 1
      BY <3>1, Zenon DEF Extends
    <3> QED BY <1>0, <2>1, <2>4, <3>2
  <2> QED BY <2>2, <2>3, <2>4
<1>4. VerifyChain(S \cup B)
  BY ONLY <1>2, <1>3, Zenon DEF VerifyChain
<1>5. \A r \in S \cup B : r.id < N + n
  BY <1>0
<1> QED BY <1>0, <1>1, <1>4, <1>5, Zenon

(* Rows about other objects do not matter to what is last said of o.        *)
LEMMA LastSaysSame ==
  ASSUME NEW S, NEW T, NEW o, NEW v,
         \A r : r.obj = o => (r \in S <=> r \in T),
         LastSays(S, o, v)
  PROVE  LastSays(T, o, v)
BY Zenon DEF LastSays

-----------------------------------------------------------------------------
(* The chain part of the inductive invariant: only the holder of the        *)
(* advisory lock has rows to commit; their ids follow the committed ones;   *)
(* and the chain verifies as every transaction sees it, since a commit      *)
(* makes one such view the committed log.                                   *)
Below(S) == \A r \in S : r.id < nextId

ChainInv ==
  /\ Below(log) /\ VerifyChain(log) /\ HasLatest(log)
  /\ \A t \in Txns :
       /\ Below(rows[t])
       /\ VerifyChain(Visible(t)) /\ HasLatest(Visible(t))
       /\ rows[t] # {} => chainLock = t
       /\ \A r \in rows[t] : \A q \in log : q.id < r.id

(* The trail part: an uncommitted write holds its row lock and is either    *)
(* still to be logged or the last thing its transaction's rows say; for an  *)
(* object that is locked when it is loaded, what the session knows as       *)
(* stored is what is stored.                                                *)
WriteInv ==
  \A t \in Txns : \A o \in Objects :
    /\ value[t][o] = NoValue <=> loaded[t][o] = NoValue
    /\ wrote[t][o] # NoValue => rowLock[o] = t /\ loaded[t][o] # NoValue
    /\ o \in DOMAIN pending[t] => pending[t][o].new = wrote[t][o]
    /\ wrote[t][o] = NoValue => \A r \in rows[t] : r.obj # o
    /\ wrote[t][o] # NoValue /\ o \notin DOMAIN pending[t]
         => LastSays(Visible(t), o, wrote[t][o])

LockedInv ==
  /\ \A t \in Txns : \A o \in Locked :
       /\ loaded[t][o] # NoValue =>
            /\ rowLock[o] = t
            /\ loaded[t][o] = IF wrote[t][o] = NoValue THEN table[o] ELSE wrote[t][o]
       /\ o \in DOMAIN pending[t] => LastSays(Visible(t), o, pending[t][o].old)
  /\ \A t \in Txns : \A r \in Visible(t) : r.obj \in Locked => Continues(Visible(t), r)

IInv == TypeOK /\ ChainInv /\ WriteInv /\ TrailReplays /\ LockedInv /\ OldIsPrevious

-----------------------------------------------------------------------------
(* What WriteAuditRows adds: the batch of t, and the facts the rest of the  *)
(* proof needs of it.                                                       *)
RowOf(t, pos, o) ==
  [id |-> nextId + pos[o] - 1, prev |-> Link(pos[o], Latest(Visible(t))), obj |-> o,
   old |-> pending[t][o].old, new |-> pending[t][o].new]
Batch(t, pos) == {RowOf(t, pos, o) : o \in DOMAIN pending[t]}

(* The hash chained from is a natural number.                               *)
LEMMA LatestType ==
  ASSUME NEW S \in SUBSET Row, HasLatest(S)
  PROVE  Latest(S) \in Nat
<1>1. CASE S = {}
  BY <1>1, Zenon DEF Latest
<1>2. CASE S # {}
  <2>1. PICK p \in S : p = CHOOSE s \in S : \A q \in S : q.id <= s.id
    BY <1>2, Zenon DEF HasLatest
  <2> QED BY <1>2, <2>1, Zenon DEF Latest, Row
<1> QED BY <1>1, <1>2, Zenon

(* One row per captured change, numbered without gaps.                      *)
LEMMA BatchFacts ==
  ASSUME TypeOK, NEW t \in Txns, HasLatest(Visible(t)), DOMAIN pending[t] # {},
         NEW n, n = Cardinality(DOMAIN pending[t]),
         NEW pos \in Bijection(DOMAIN pending[t], 1 .. n)
  PROVE  /\ n \in Nat \ {0}
         /\ Batch(t, pos) \in SUBSET Row
         /\ Extends(Batch(t, pos), Visible(t), nextId, n)
         /\ \A b \in Batch(t, pos) :
              /\ b.obj \in DOMAIN pending[t]
              /\ b.old = pending[t][b.obj].old
              /\ b.new = pending[t][b.obj].new
         /\ \A b \in Batch(t, pos) : b = RowOf(t, pos, b.obj)
         /\ \A o \in DOMAIN pending[t] : \E b \in Batch(t, pos) : b.obj = o
<1> DEFINE S == DOMAIN pending[t]
           B == Batch(t, pos)
<1>1. n \in Nat \ {0}
  <2>1. S \subseteq Objects /\ IsFiniteSet(Objects)
    BY AuditAssumption, Zenon DEF TypeOK
  <2>2. IsFiniteSet(S)
    BY <2>1, FS_Subset, Zenon
  <2> QED BY <2>2, FS_CardinalityType, FS_EmptySet, Zenon
<1>2. /\ \A o \in S : pos[o] \in 1 .. n
      /\ \A k \in 1 .. n : \E o \in S : pos[o] = k
  BY Zenon DEF Bijection, Injection, Surjection
<1>3. Visible(t) \in SUBSET Row
  BY Zenon DEF TypeOK, Visible
<1>4. Latest(Visible(t)) \in Nat
  BY <1>3, LatestType, Zenon
<1>5. \A o \in S : /\ o \in Objects /\ pending[t][o].old \in Values
                   /\ pending[t][o].new \in Values
  BY Zenon DEF TypeOK, Change
<1>6. nextId \in Nat \ {0}
  BY Zenon DEF TypeOK
<1>7. ASSUME NEW o \in S
      PROVE  /\ nextId + pos[o] - 1 \in Nat \ {0}
             /\ Link(pos[o], Latest(Visible(t))) \in Nat
  BY <1>1, <1>2, <1>4, <1>6 DEF Link
<1>8. B \in SUBSET Row
  BY <1>5, <1>7 DEF Batch, RowOf, Row
<1>9. Extends(B, Visible(t), nextId, n)
  <2>1. ASSUME NEW k \in 1 .. n PROVE \E b \in B : b.id = nextId + k - 1
    <3>1. PICK o \in S : pos[o] = k
      BY <1>2, Zenon
    <3>2. RowOf(t, pos, o) \in B /\ RowOf(t, pos, o).id = nextId + k - 1
      BY <3>1, Zenon DEF Batch, RowOf
    <3> QED BY <3>2, Zenon
  <2>2. ASSUME NEW b \in B
        PROVE  \E k \in 1 .. n : /\ b.id = nextId + k - 1
                                 /\ b.prev = IF k = 1 THEN Latest(Visible(t)) ELSE nextId + k - 2
    <3>1. PICK o \in S : /\ b.id = nextId + pos[o] - 1
                         /\ b.prev = Link(pos[o], Latest(Visible(t)))
      BY DEF Batch, RowOf
    <3>2. pos[o] \in 1 .. n
      BY <1>2, Zenon
    <3> QED BY <3>1, <3>2, Zenon DEF Link
  <2> QED BY <2>1, <2>2, Zenon DEF Extends
<1>10. \A b \in B : b.obj \in S /\ b.old = pending[t][b.obj].old
                                /\ b.new = pending[t][b.obj].new
  BY DEF Batch, RowOf
<1>11. \A b \in B : b = RowOf(t, pos, b.obj)
  <2>1. \A o : RowOf(t, pos, o).obj = o
    BY Zenon DEF RowOf
  <2> QED BY <2>1, Zenon DEF Batch
<1>12. \A o \in S : RowOf(t, pos, o) \in B
  BY Zenon DEF Batch
<1>13. \A o : RowOf(t, pos, o).obj = o
  BY Zenon DEF RowOf
<1> HIDE DEF B
<1> QED BY <1>1, <1>8, <1>9, <1>10, <1>11, <1>12, <1>13, Zenon DEF B

(* What a step that writes a batch does, with the facts above.              *)
LEMMA WriteStep ==
  ASSUME TypeOK, ChainInv, NEW t \in Txns, WriteAuditRows(t)
  PROVE  \E pos : \E n \in Nat \ {0} :
           /\ rows' = [rows EXCEPT ![t] = rows[t] \cup Batch(t, pos)]
           /\ nextId' = nextId + n
           /\ Batch(t, pos) \in SUBSET Row
           /\ Extends(Batch(t, pos), Visible(t), nextId, n)
           /\ \A b \in Batch(t, pos) :
                /\ b.obj \in DOMAIN pending[t]
                /\ b.old = pending[t][b.obj].old
                /\ b.new = pending[t][b.obj].new
           /\ \A b \in Batch(t, pos) : b = RowOf(t, pos, b.obj)
           /\ \A o \in DOMAIN pending[t] : \E b \in Batch(t, pos) : b.obj = o
<1> DEFINE n == Cardinality(DOMAIN pending[t])
<1>1. PICK pos \in Bijection(DOMAIN pending[t], 1 .. n) :
        rows' = [rows EXCEPT ![t] = rows[t] \cup Batch(t, pos)]
  BY Zenon DEF WriteAuditRows, Batch, RowOf, TypeOK
<1>2. nextId' = nextId + n /\ DOMAIN pending[t] # {} /\ HasLatest(Visible(t))
  BY Zenon DEF WriteAuditRows, Flushing, ChainInv
<1> HIDE DEF n
<1>3. n = Cardinality(DOMAIN pending[t])
  BY Zenon DEF n
<1> QED BY <1>1, <1>2, <1>3, BatchFacts, Zenon

-----------------------------------------------------------------------------
(* A chain with B appended, seen by the lock's holder.                      *)
LEMMA AppendKeepsChain ==
  ASSUME TypeOK, ChainInv, NEW t \in Txns, ChainFree(t), NEW n \in Nat \ {0},
         NEW B \in SUBSET Row, Extends(B, Visible(t), nextId, n),
         rows' = [rows EXCEPT ![t] = rows[t] \cup B], nextId' = nextId + n,
         chainLock' = t, log' = log
  PROVE  ChainInv'
<1>1. /\ Visible(t) \in SUBSET Row /\ VerifyChain(Visible(t)) /\ HasLatest(Visible(t))
      /\ \A r \in Visible(t) : r.id < nextId
      /\ nextId \in Nat \ {0}
  BY Zenon DEF TypeOK, ChainInv, Visible, Below
<1>2. /\ VerifyChain(Visible(t) \cup B) /\ HasLatest(Visible(t) \cup B)
      /\ \A r \in Visible(t) \cup B : r.id < nextId + n
      /\ \A b \in B : nextId <= b.id
  BY <1>1, BatchExtendsChain, Zenon
<1>3. Visible(t)' = Visible(t) \cup B /\ rows'[t] = rows[t] \cup B
  BY Zenon DEF Visible, TypeOK
<1>4. \A u \in Txns \ {t} : rows[u] = {} /\ rows'[u] = {}
  BY AuditAssumption, Zenon DEF ChainInv, ChainFree, TypeOK
<1>5. Below(log)' /\ VerifyChain(log)' /\ HasLatest(log)'
  <2>1. \A r \in log : r.id < nextId + n
    BY <1>2, Zenon DEF Visible
  <2> QED BY <2>1, Zenon DEF ChainInv, Below, VerifyChain, HasLatest
<1>6. ASSUME NEW u \in Txns
      PROVE  (/\ Below(rows[u])
              /\ VerifyChain(Visible(u)) /\ HasLatest(Visible(u))
              /\ rows[u] # {} => chainLock = u
              /\ \A r \in rows[u] : \A q \in log : q.id < r.id)'
  <2>1. CASE u = t
    <3>1. Below(rows[t])'
      BY <1>2, <1>3, Zenon DEF Below, Visible
    <3>2. VerifyChain(Visible(t))' /\ HasLatest(Visible(t))'
      BY <1>2, <1>3, Zenon DEF VerifyChain, HasLatest
    <3>3. \A r \in rows'[t] : \A q \in log : q.id < r.id
      <4>1. \A q \in log : q.id \in Nat /\ q.id < nextId
        BY Zenon DEF TypeOK, Row, ChainInv, Below
      <4>2. \A b \in B : b.id \in Nat
        BY Zenon DEF Row
      <4> QED BY <1>1, <1>2, <1>3, <4>1, <4>2 DEF ChainInv
    <3> QED BY <2>1, <3>1, <3>2, <3>3, Zenon
  <2>2. CASE u # t
    <3>1. rows'[u] = {} /\ Visible(u)' = log
      BY <1>4, <2>2 DEF Visible
    <3> QED BY <1>5, <3>1, Zenon DEF Below, VerifyChain, HasLatest
  <2> QED BY <2>1, <2>2, Zenon
<1> QED BY <1>5, <1>6, Zenon DEF ChainInv

(* Every step keeps the chain part.                                         *)
LEMMA ChainStep ==
  ASSUME TypeOK, ChainInv, [Next]_vars
  PROVE  ChainInv'
<1>1. ASSUME UNCHANGED <<log, nextId, chainLock, rows>>
      PROVE  ChainInv'
  BY <1>1, ZenonT(40) DEF ChainInv, Below, Visible, VerifyChain, HasLatest
<1>2. ASSUME NEW t \in Txns, WriteAuditRows(t)
      PROVE  ChainInv'
  <2>0. PICK pos : \E n \in Nat \ {0} :
          /\ rows' = [rows EXCEPT ![t] = rows[t] \cup Batch(t, pos)]
          /\ nextId' = nextId + n
          /\ Batch(t, pos) \in SUBSET Row
          /\ Extends(Batch(t, pos), Visible(t), nextId, n)
    BY <1>2, WriteStep, Zenon
  <2>1. PICK n \in Nat \ {0} :
          /\ rows' = [rows EXCEPT ![t] = rows[t] \cup Batch(t, pos)]
          /\ nextId' = nextId + n
          /\ Batch(t, pos) \in SUBSET Row
          /\ Extends(Batch(t, pos), Visible(t), nextId, n)
    BY <2>0, Zenon
  <2> DEFINE B == Batch(t, pos)
  <2> HIDE DEF B
  <2>2. /\ B \in SUBSET Row /\ Extends(B, Visible(t), nextId, n)
        /\ rows' = [rows EXCEPT ![t] = rows[t] \cup B]
    BY <2>1, Zenon DEF B
  <2>3. ChainFree(t) /\ chainLock' = t /\ log' = log
    BY <1>2, Zenon DEF WriteAuditRows
  <2> QED BY <2>1, <2>2, <2>3, AppendKeepsChain, Zenon
<1>3. ASSUME NEW t \in Txns, AppendAuthEvent(t)
      PROVE  ChainInv'
  <2> DEFINE r == [id |-> nextId, prev |-> Latest(Visible(t)), obj |-> NoObject,
                   old |-> NoValue, new |-> NoValue]
             B == {r}
  <2>1. /\ Visible(t) \in SUBSET Row /\ HasLatest(Visible(t))
        /\ nextId \in Nat \ {0}
    BY Zenon DEF TypeOK, ChainInv, Visible
  <2>2. Latest(Visible(t)) \in Nat
    BY <2>1, LatestType, Zenon
  <2>3. B \in SUBSET Row
    BY <2>1, <2>2 DEF Row
  <2>4. Extends(B, Visible(t), nextId, 1)
    <3>1. r.id = nextId + 1 - 1 /\ r.prev = Latest(Visible(t))
      BY <2>1
    <3> HIDE DEF r
    <3>2. \A k \in 1 .. 1 : k = 1
      OBVIOUS
    <3> QED BY <3>1, <3>2 DEF Extends
  <2>5. /\ rows' = [rows EXCEPT ![t] = rows[t] \cup B]
        /\ nextId' = nextId + 1 /\ ChainFree(t) /\ chainLock' = t /\ log' = log
    BY <1>3, Zenon DEF AppendAuthEvent, Link, TypeOK
  <2>6. 1 \in Nat \ {0}
    OBVIOUS
  <2> HIDE DEF B
  <2> QED BY <2>3, <2>4, <2>6, <2>5, AppendKeepsChain, Zenon
<1>4. ASSUME NEW t \in Txns, Commit(t)
      PROVE  ChainInv'
  <2>1. /\ log' = Visible(t) /\ nextId' = nextId
        /\ rows' = [rows EXCEPT ![t] = {}]
        /\ chainLock' = IF chainLock = t THEN NoTxn ELSE chainLock
    BY <1>4, Zenon DEF Commit, End, Visible
  <2>2. Below(log)' /\ VerifyChain(log)' /\ HasLatest(log)'
    BY <2>1, Zenon DEF ChainInv, Below, Visible, VerifyChain, HasLatest
  <2>3. ASSUME NEW u \in Txns
        PROVE  (/\ Below(rows[u])
                /\ VerifyChain(Visible(u)) /\ HasLatest(Visible(u))
                /\ rows[u] # {} => chainLock = u
                /\ \A r \in rows[u] : \A q \in log : q.id < r.id)'
    <3>1. CASE rows'[u] = {}
      <4>1. Visible(u)' = log'
        BY <3>1, Zenon DEF Visible
      <4> QED BY <2>2, <3>1, <4>1, Zenon DEF Below, VerifyChain, HasLatest
    <3>2. CASE rows'[u] # {}
      <4>1. u # t /\ rows'[u] = rows[u] /\ chainLock = u
        BY <2>1, <3>2, Zenon DEF TypeOK, ChainInv
      <4>2. rows[t] = {} /\ log' = log /\ Visible(u)' = Visible(u)
        BY <2>1, <4>1, Zenon DEF ChainInv, Visible
      <4>3. chainLock' = u
        BY <2>1, <4>1, Zenon
      <4>4. Below(rows[u])' /\ VerifyChain(Visible(u))' /\ HasLatest(Visible(u))'
        BY <2>1, <4>1, <4>2 DEF ChainInv, Below, VerifyChain, HasLatest
      <4>5. \A r \in rows'[u] : \A q \in log' : q.id < r.id
        BY <4>1, <4>2, Zenon DEF ChainInv
      <4> QED BY <4>3, <4>4, <4>5, Zenon
    <3> QED BY <3>1, <3>2, Zenon
  <2> QED BY <2>2, <2>3, Zenon DEF ChainInv
<1>5. ASSUME NEW t \in Txns, Rollback(t)
      PROVE  ChainInv'
  <2>1. /\ log' = log /\ nextId' = nextId
        /\ rows' = [rows EXCEPT ![t] = {}]
        /\ chainLock' = IF chainLock = t THEN NoTxn ELSE chainLock
    BY <1>5, Zenon DEF Rollback, End
  <2>2. Below(log)' /\ VerifyChain(log)' /\ HasLatest(log)'
    BY <2>1, Zenon DEF ChainInv, Below, VerifyChain, HasLatest
  <2>3. ASSUME NEW u \in Txns
        PROVE  (/\ Below(rows[u])
                /\ VerifyChain(Visible(u)) /\ HasLatest(Visible(u))
                /\ rows[u] # {} => chainLock = u
                /\ \A r \in rows[u] : \A q \in log : q.id < r.id)'
    <3>1. CASE u = t
      <4>1. rows'[u] = {} /\ Visible(u)' = log'
        BY <2>1, <3>1, Zenon DEF Visible, TypeOK
      <4> QED BY <2>2, <4>1, Zenon DEF Below, VerifyChain, HasLatest
    <3>2. CASE u # t
      <4>1. rows'[u] = rows[u] /\ Visible(u)' = Visible(u)
        BY <2>1, <3>2, Zenon DEF TypeOK, Visible
      <4>2. rows[u] # {} => chainLock' = u
        BY <2>1, <3>2, Zenon DEF ChainInv
      <4> QED BY <2>1, <4>1, <4>2 DEF ChainInv, Below, VerifyChain, HasLatest
    <3> QED BY <3>1, <3>2, Zenon
  <2> QED BY <2>2, <2>3, Zenon DEF ChainInv
<1>6. CASE UNCHANGED vars
  BY <1>1, <1>6, Zenon DEF vars, session
<1>7. ASSUME NEW t \in Txns, NEW o \in Objects,
             Load(t, o) \/ \E v \in Values : Assign(t, o, v)
      PROVE  ChainInv'
  BY <1>1, <1>7, Zenon DEF Load, Assign
<1>8. ASSUME NEW t \in Txns, Flush(t)
      PROVE  ChainInv'
  BY <1>1, <1>8, Zenon DEF Flush
<1> QED BY <1>2, <1>3, <1>4, <1>5, <1>6, <1>7, <1>8, Zenon DEF Next

-----------------------------------------------------------------------------
(* Every step keeps the types; a captured change has both its values since  *)
(* only a loaded object can differ from what was loaded.                    *)
LEMMA TypeStep ==
  ASSUME TypeOK, ChainInv, WriteInv, [Next]_vars
  PROVE  TypeOK'
<1>0. Initial \in Values /\ NoValue \notin Values
  BY AuditAssumption, Zenon
<1>1. ASSUME NEW t \in Txns, NEW o \in Objects, Load(t, o)
      PROVE  TypeOK'
  BY <1>1, Zenon DEF TypeOK, Load
<1>2. ASSUME NEW t \in Txns, NEW o \in Objects, NEW v \in Values, Assign(t, o, v)
      PROVE  TypeOK'
  BY <1>2, Zenon DEF TypeOK, Assign
<1>3. ASSUME NEW t \in Txns, Flush(t)
      PROVE  TypeOK'
  <2>1. \A o \in Dirty(t) : o \in Objects /\ loaded[t][o] \in Values /\ value[t][o] \in Values
    BY DEF Dirty, TypeOK, WriteInv
  <2>2. /\ DOMAIN CaptureChanges(t) \subseteq Objects
        /\ CaptureChanges(t) \in [DOMAIN CaptureChanges(t) -> Change]
    BY <2>1, Zenon DEF CaptureChanges, Change
  <2>3. pending' = [pending EXCEPT ![t] = CaptureChanges(t)]
    BY <1>3, Zenon DEF Flush
  <2>4. /\ DOMAIN pending' = Txns
        /\ \A u \in Txns : /\ DOMAIN pending'[u] \subseteq Objects
                           /\ pending'[u] \in [DOMAIN pending'[u] -> Change]
    BY <2>2, <2>3, Zenon DEF TypeOK
  <2>5. /\ rowLock' \in [Objects -> Txns \cup {NoTxn}]
        /\ loaded' \in [Txns -> [Objects -> Values \cup {NoValue}]]
        /\ wrote' \in [Txns -> [Objects -> Values \cup {NoValue}]]
    BY <1>3 DEF TypeOK, Flush
  <2> QED BY <1>3, <2>4, <2>5, Zenon DEF TypeOK, Flush
<1>4. ASSUME NEW t \in Txns, WriteAuditRows(t)
      PROVE  TypeOK'
  <2>1. PICK pos : \E n \in Nat \ {0} :
          /\ rows' = [rows EXCEPT ![t] = rows[t] \cup Batch(t, pos)]
          /\ nextId' = nextId + n
          /\ Batch(t, pos) \in SUBSET Row
    BY <1>4, WriteStep, Zenon
  <2>2. rows' \in [Txns -> SUBSET Row]
    BY <2>1 DEF TypeOK
  <2>3. nextId' \in Nat \ {0}
    BY <2>1 DEF TypeOK
  <2> QED BY <1>0, <1>4, <2>2, <2>3, Zenon DEF TypeOK, WriteAuditRows, NoChange
<1>5. ASSUME NEW t \in Txns, AppendAuthEvent(t)
      PROVE  TypeOK'
  <2>1. Visible(t) \in SUBSET Row /\ HasLatest(Visible(t))
    BY Zenon DEF TypeOK, ChainInv, Visible
  <2>2. Latest(Visible(t)) \in Nat
    BY <2>1, LatestType, Zenon
  <2>3. nextId' \in Nat \ {0} /\ rows' \in [Txns -> SUBSET Row]
    BY <1>5, <2>2 DEF TypeOK, AppendAuthEvent, Link, Row
  <2> QED BY <1>5, <2>3, Zenon DEF TypeOK, AppendAuthEvent
<1>6. ASSUME NEW t \in Txns, End(t)
      PROVE  /\ nextId' = nextId
             /\ chainLock' \in Txns \cup {NoTxn}
             /\ rowLock' \in [Objects -> Txns \cup {NoTxn}]
             /\ loaded' \in [Txns -> [Objects -> Values \cup {NoValue}]]
             /\ value' \in [Txns -> [Objects -> Values \cup {NoValue}]]
             /\ wrote' \in [Txns -> [Objects -> Values \cup {NoValue}]]
             /\ rows' \in [Txns -> SUBSET Row]
             /\ DOMAIN pending' = Txns
             /\ \A u \in Txns : /\ DOMAIN pending'[u] \subseteq Objects
                                /\ pending'[u] \in [DOMAIN pending'[u] -> Change]
  <2>1. Unloaded \in [Objects -> Values \cup {NoValue}]
    BY Zenon DEF Unloaded
  <2>2. /\ loaded' \in [Txns -> [Objects -> Values \cup {NoValue}]]
        /\ value' \in [Txns -> [Objects -> Values \cup {NoValue}]]
        /\ wrote' \in [Txns -> [Objects -> Values \cup {NoValue}]]
    BY <1>6, <2>1, Zenon DEF TypeOK, End
  <2>3. /\ DOMAIN pending' = Txns
        /\ \A u \in Txns : /\ DOMAIN pending'[u] \subseteq Objects
                           /\ pending'[u] \in [DOMAIN pending'[u] -> Change]
    BY <1>0, <1>6, Zenon DEF TypeOK, End, NoChange
  <2> QED BY <1>6, <2>2, <2>3, Zenon DEF TypeOK, End
<1>7. ASSUME NEW t \in Txns, Commit(t)
      PROVE  TypeOK'
  <2>1. log' \subseteq Row /\ table' \in [Objects -> Values]
    BY <1>7 DEF TypeOK, Commit
  <2>2. End(t)
    BY <1>7, Zenon DEF Commit
  <2> QED BY <1>6, <2>1, <2>2, Zenon DEF TypeOK
<1>8. ASSUME NEW t \in Txns, Rollback(t)
      PROVE  TypeOK'
  <2>1. log' \subseteq Row /\ table' \in [Objects -> Values] /\ End(t)
    BY <1>8, Zenon DEF TypeOK, Rollback
  <2> QED BY <1>6, <2>1, Zenon DEF TypeOK
<1>9. CASE UNCHANGED vars
  BY <1>9, Zenon DEF vars, session, TypeOK
<1> QED BY <1>1, <1>2, <1>3, <1>4, <1>5, <1>7, <1>8, <1>9, Zenon DEF Next

-----------------------------------------------------------------------------
(* WriteInv for one transaction and one object.                             *)
WriteOK(t, o) ==
  /\ value[t][o] = NoValue <=> loaded[t][o] = NoValue
  /\ wrote[t][o] # NoValue => rowLock[o] = t /\ loaded[t][o] # NoValue
  /\ o \in DOMAIN pending[t] => pending[t][o].new = wrote[t][o]
  /\ wrote[t][o] = NoValue => \A r \in rows[t] : r.obj # o
  /\ wrote[t][o] # NoValue /\ o \notin DOMAIN pending[t]
       => LastSays(Visible(t), o, wrote[t][o])

(* Steps within a transaction that add no row.                              *)
LEMMA WriteLocalStep ==
  ASSUME TypeOK, WriteInv, NEW t \in Txns,
         \/ \E o \in Objects : Load(t, o) \/ \E v \in Values : Assign(t, o, v)
         \/ Flush(t)
  PROVE  WriteInv'
<1>0. NoValue \notin Values /\ NoTxn \notin Txns
  BY AuditAssumption, Zenon
<1> SUFFICES ASSUME NEW u \in Txns, NEW o \in Objects
             PROVE  WriteOK(u, o)'
  BY Zenon DEF WriteInv, WriteOK
<1>1. rows' = rows /\ Visible(u)' = Visible(u)
  BY Zenon DEF Load, Assign, Flush, Visible
<1>2. WriteOK(u, o)
  BY Zenon DEF WriteInv, WriteOK
<1>3. ASSUME NEW p \in Objects, Load(t, p)
      PROVE  WriteOK(u, o)'
  <2>1. /\ wrote' = wrote /\ pending' = pending
        /\ (u = t /\ o = p) => loaded'[u][o] = table[o] /\ value'[u][o] = table[o]
        /\ ~(u = t /\ o = p) => loaded'[u][o] = loaded[u][o] /\ value'[u][o] = value[u][o]
        /\ table[o] # NoValue
    BY <1>0, <1>3, Zenon DEF Load, TypeOK
  <2>2. rowLock[o] = u => rowLock'[o] = u
    BY <1>0, <1>3, Zenon DEF Load, Free, TypeOK
  <2> QED BY <1>1, <1>2, <2>1, <2>2, Zenon DEF WriteOK, LastSays
<1>4. ASSUME NEW p \in Objects, NEW v \in Values, Assign(t, p, v)
      PROVE  WriteOK(u, o)'
  <2>1. /\ wrote' = wrote /\ pending' = pending /\ loaded' = loaded /\ rowLock' = rowLock
        /\ value'[u][o] = NoValue <=> value[u][o] = NoValue
    BY <1>0, <1>2, <1>4, Zenon DEF Assign, TypeOK, WriteOK, WriteInv
  <2> QED BY <1>1, <1>2, <2>1, Zenon DEF WriteOK, LastSays
<1>5. ASSUME Flush(t)
      PROVE  WriteOK(u, o)'
  <2>1. CASE u # t
    <3>1. /\ wrote'[u] = wrote[u] /\ pending'[u] = pending[u]
          /\ loaded'[u] = loaded[u] /\ value' = value
      BY <1>5, <2>1, Zenon DEF Flush, TypeOK
    <3>2. rowLock[o] = u => rowLock'[o] = u
      BY <1>0, <1>5, <2>1, Zenon DEF Flush, Free, TypeOK
    <3> QED BY <1>1, <1>2, <3>1, <3>2, Zenon DEF WriteOK, LastSays
  <2>2. CASE u = t /\ o \in Dirty(t)
    <3>1. /\ value' = value /\ loaded'[u][o] = value[u][o] /\ value[u][o] # NoValue
          /\ wrote'[u][o] = value[u][o] /\ rowLock'[o] = u
          /\ o \in DOMAIN pending'[u] /\ pending'[u][o].new = value[u][o]
      BY <1>2, <1>5, <2>2, Zenon DEF Flush, TypeOK, CaptureChanges, Dirty, WriteOK
    <3> QED BY <3>1, Zenon DEF WriteOK
  <2>3. CASE u = t /\ o \notin Dirty(t)
    <3>1. /\ value' = value /\ loaded'[u][o] = loaded[u][o]
          /\ wrote'[u][o] = wrote[u][o] /\ rowLock'[o] = rowLock[o]
          /\ o \notin DOMAIN pending'[u] /\ DOMAIN pending[u] = {}
      BY <1>5, <2>3, Zenon DEF Flush, Flushing, TypeOK, CaptureChanges, Dirty
    <3> QED BY <1>1, <1>2, <3>1, Zenon DEF WriteOK, LastSays
  <2> QED BY <2>1, <2>2, <2>3, Zenon
<1> QED BY <1>3, <1>4, <1>5, Zenon

(* The two steps that add rows.                                             *)
LEMMA WriteAppendStep ==
  ASSUME TypeOK, ChainInv, WriteInv, NEW t \in Txns,
         WriteAuditRows(t) \/ AppendAuthEvent(t)
  PROVE  WriteInv'
<1>0. NoValue \notin Values /\ NoTxn \notin Txns /\ NoObject \notin Objects
  BY AuditAssumption, Zenon
<1> SUFFICES ASSUME NEW u \in Txns, NEW o \in Objects
             PROVE  WriteOK(u, o)'
  BY Zenon DEF WriteInv, WriteOK
<1>2. WriteOK(u, o)
  BY Zenon DEF WriteInv, WriteOK
<1>3. /\ wrote' = wrote /\ loaded' = loaded /\ value' = value /\ rowLock' = rowLock
      /\ log' = log
  BY Zenon DEF WriteAuditRows, AppendAuthEvent
<1>4. CASE u # t
  <2>1. rows'[u] = rows[u] /\ pending'[u] = pending[u]
    BY <1>4, Zenon DEF WriteAuditRows, AppendAuthEvent, TypeOK
  <2>2. Visible(u)' = Visible(u)
    BY <1>3, <2>1, Zenon DEF Visible
  <2> QED BY <1>2, <1>3, <2>1, <2>2, Zenon DEF WriteOK, LastSays
<1>5. ASSUME u = t, AppendAuthEvent(t)
      PROVE  WriteOK(u, o)'
  <2>1. pending' = pending
    BY <1>5, Zenon DEF AppendAuthEvent
  <2> DEFINE r == [id |-> nextId, prev |-> Link(1, Latest(Visible(t))), obj |-> NoObject,
                   old |-> NoValue, new |-> NoValue]
  <2>2. r.obj = NoObject /\ rows'[u] = rows[u] \cup {r}
    BY <1>5, Zenon DEF AppendAuthEvent, TypeOK
  <2> HIDE DEF r
  <2>3. Visible(u)' = Visible(u) \cup {r}
    BY <1>3, <2>2, Zenon DEF Visible
  <2>4. \A q : q.obj = o => (q \in Visible(u) <=> q \in Visible(u)')
    BY <1>0, <2>2, <2>3, Zenon
  <2>5. LastSays(Visible(u), o, wrote[u][o]) => LastSays(Visible(u)', o, wrote[u][o])
    BY <2>4, LastSaysSame, Zenon
  <2> QED BY <1>0, <1>2, <1>3, <2>1, <2>2, <2>5, Zenon DEF WriteOK
<1>6. ASSUME u = t, WriteAuditRows(t)
      PROVE  WriteOK(u, o)'
  <2>0. PICK pos : \E n \in Nat \ {0} :
          /\ rows' = [rows EXCEPT ![t] = rows[t] \cup Batch(t, pos)]
          /\ Batch(t, pos) \in SUBSET Row
          /\ Extends(Batch(t, pos), Visible(t), nextId, n)
          /\ \A b \in Batch(t, pos) :
               /\ b.obj \in DOMAIN pending[t]
               /\ b.new = pending[t][b.obj].new
          /\ \A b \in Batch(t, pos) : b = RowOf(t, pos, b.obj)
          /\ \A p \in DOMAIN pending[t] : \E b \in Batch(t, pos) : b.obj = p
    BY <1>6, WriteStep
  <2> DEFINE B == Batch(t, pos)
  <2>1. rows'[u] = rows[u] \cup B /\ Visible(u)' = Visible(u) \cup B
    BY <1>3, <1>6, <2>0, Zenon DEF TypeOK, Visible
  <2>2. o \notin DOMAIN pending'[u]
    BY <1>6, Zenon DEF WriteAuditRows, TypeOK, NoChange
  <2>3. CASE o \notin DOMAIN pending[u]
    <3>1. \A q : q.obj = o => (q \in Visible(u) <=> q \in Visible(u)')
      BY <1>6, <2>0, <2>1, <2>3, Zenon
    <3>2. LastSays(Visible(u), o, wrote[u][o]) => LastSays(Visible(u)', o, wrote[u][o])
      BY <3>1, LastSaysSame, Zenon
    <3>3. \A b \in B : b.obj # o
      BY <1>6, <2>0, <2>3, Zenon
    <3> QED BY <1>2, <1>3, <2>1, <2>2, <2>3, <3>2, <3>3, Zenon DEF WriteOK
  <2>4. CASE o \in DOMAIN pending[u]
    <3>1. PICK b \in B : b.obj = o
      BY <1>6, <2>0, <2>4, Zenon
    <3>2. b.new = wrote[u][o] /\ wrote[u][o] # NoValue
      <4>1. pending[u][o].new \in Values
        BY <2>4, Zenon DEF TypeOK, Change
      <4> QED BY <1>0, <1>2, <1>6, <2>0, <2>4, <3>1, <4>1, Zenon DEF WriteOK
    <3>3. \A q \in B : q.obj = o => q = b
      BY <2>0, <3>1, Zenon
    <3>4. \A q \in Visible(u) : q.id \in Nat /\ q.id < nextId
      <4>1. Visible(u) \in SUBSET Row
        BY Zenon DEF TypeOK, Visible
      <4>2. \A q \in Visible(u) : q.id < nextId
        BY Zenon DEF Visible, ChainInv, Below
      <4> QED BY <4>1, <4>2, Zenon DEF Row
    <3>5. b.id \in Nat /\ nextId <= b.id /\ nextId \in Nat
      <4>1. PICK n \in Nat \ {0} : Extends(B, Visible(t), nextId, n)
        BY <2>0, Zenon
      <4>2. PICK k \in 1 .. n : b.id = nextId + k - 1
        BY <4>1, Zenon DEF Extends
      <4> QED BY <4>2 DEF TypeOK
    <3>6. \A q \in Visible(u) \cup B : q.obj = o => q.id <= b.id
      BY <3>3, <3>4, <3>5
    <3>7. LastSays(Visible(u)', o, wrote[u][o])
      BY <2>1, <3>1, <3>2, <3>6, Zenon DEF LastSays
    <3> QED BY <1>2, <1>3, <2>2, <3>2, <3>7, Zenon DEF WriteOK
  <2> QED BY <2>3, <2>4, Zenon
<1> QED BY <1>4, <1>5, <1>6, Zenon

(* The end of t changes nothing about an object that another transaction    *)
(* has written: the row lock keeps t off it.                                *)
LEMMA WriteEndStep ==
  ASSUME TypeOK, ChainInv, WriteInv, NEW t \in Txns, Commit(t) \/ Rollback(t)
  PROVE  WriteInv'
<1>0. NoValue \notin Values /\ NoTxn \notin Txns
  BY AuditAssumption, Zenon
<1> SUFFICES ASSUME NEW u \in Txns, NEW o \in Objects
             PROVE  WriteOK(u, o)'
  BY Zenon DEF WriteInv, WriteOK
<1>1. End(t)
  BY Zenon DEF Commit, Rollback
<1>2. WriteOK(u, o) /\ WriteOK(t, o)
  BY Zenon DEF WriteInv, WriteOK
<1>3. CASE u = t
  <2>1. /\ value'[u][o] = NoValue /\ loaded'[u][o] = NoValue /\ wrote'[u][o] = NoValue
        /\ DOMAIN pending'[u] = {} /\ rows'[u] = {}
    BY <1>1, <1>3, Zenon DEF End, TypeOK, Unloaded, NoChange
  <2> QED BY <2>1, Zenon DEF WriteOK
<1>4. CASE u # t
  <2>1. /\ value'[u] = value[u] /\ loaded'[u] = loaded[u] /\ wrote'[u] = wrote[u]
        /\ pending'[u] = pending[u] /\ rows'[u] = rows[u]
        /\ rowLock[o] = u => rowLock'[o] = u
    BY <1>1, <1>4, Zenon DEF End, TypeOK
  <2>2. CASE wrote[u][o] = NoValue
    BY <1>2, <2>1, <2>2, Zenon DEF WriteOK
  <2>3. CASE wrote[u][o] # NoValue
    <3>1. \A r \in rows[t] : r.obj # o
      BY <1>2, <1>4, <2>3, Zenon DEF WriteOK
    <3>2. log' = log \/ log' = log \cup rows[t]
      BY Zenon DEF Commit, Rollback
    <3>3. \A r : r.obj = o => (r \in Visible(u) <=> r \in Visible(u)')
      BY <2>1, <3>1, <3>2, Zenon DEF Visible
    <3>4. LastSays(Visible(u), o, wrote[u][o]) => LastSays(Visible(u)', o, wrote[u][o])
      BY <3>3, LastSaysSame, Zenon
    <3>5. wrote'[u][o] = wrote[u][o] /\ pending'[u] = pending[u]
          /\ value'[u][o] = value[u][o] /\ loaded'[u][o] = loaded[u][o]
      BY ONLY <2>1, Zenon
    <3>6. wrote[u][o] # NoValue /\ o \notin DOMAIN pending[u]
            => LastSays(Visible(u)', o, wrote[u][o])
      BY ONLY <1>2, <3>4, Zenon DEF WriteOK
    <3>7. rowLock'[o] = u
      BY ONLY <1>2, <2>1, <2>3, Zenon DEF WriteOK
    <3> QED BY ONLY <1>2, <2>3, <3>5, <3>6, <3>7, Zenon DEF WriteOK
  <2> QED BY <2>2, <2>3, Zenon
<1> QED BY <1>3, <1>4, Zenon

(* Every step keeps the write part, and the log replays to the tables.      *)
LEMMA TrailStep ==
  ASSUME TypeOK, ChainInv, WriteInv, TrailReplays, [Next]_vars
  PROVE  WriteInv' /\ TrailReplays'
<1>1. WriteInv'
  <2>1. CASE UNCHANGED vars
    BY <2>1 DEF vars, session, WriteInv, Visible, LastSays
  <2>2. CASE Next
    BY <2>2, WriteLocalStep, WriteAppendStep, WriteEndStep, Zenon DEF Next
  <2> QED BY <2>1, <2>2, Zenon
<1>2. ASSUME log' = log, table' = table
      PROVE  TrailReplays'
  BY <1>2, Zenon DEF TrailReplays, LastSays
<1>3. ASSUME NEW t \in Txns, Commit(t)
      PROVE  TrailReplays'
  <2> SUFFICES ASSUME NEW o \in Objects
               PROVE  LastSays(log', o, table'[o])
    BY Zenon DEF TrailReplays
  <2>1. /\ log' = Visible(t) /\ DOMAIN pending[t] = {}
        /\ table'[o] = IF wrote[t][o] # NoValue THEN wrote[t][o] ELSE table[o]
    BY <1>3, Zenon DEF Commit, Visible, Flushing
  <2>2. CASE wrote[t][o] # NoValue
    BY <2>1, <2>2, Zenon DEF WriteInv
  <2>3. CASE wrote[t][o] = NoValue
    <3>1. \A r : r.obj = o => (r \in log <=> r \in Visible(t))
      BY <2>3, Zenon DEF WriteInv, Visible
    <3>2. LastSays(log, o, table[o])
      BY Zenon DEF TrailReplays
    <3>3. LastSays(Visible(t), o, table[o])
      BY <3>1, <3>2, LastSaysSame, Zenon
    <3> QED BY <2>1, <2>3, <3>3, Zenon
  <2> QED BY <2>2, <2>3, Zenon
<1>4. CASE UNCHANGED vars
  <2>1. log' = log /\ table' = table
    BY <1>4, Zenon DEF vars
  <2> QED BY <1>1, <1>2, <2>1, Zenon
<1>5. ASSUME NEW t \in Txns, NEW o \in Objects,
             Load(t, o) \/ \E v \in Values : Assign(t, o, v)
      PROVE  log' = log /\ table' = table
  BY <1>5, Zenon DEF Load, Assign
<1>6. ASSUME NEW t \in Txns,
             Flush(t) \/ WriteAuditRows(t) \/ AppendAuthEvent(t) \/ Rollback(t)
      PROVE  log' = log /\ table' = table
  BY <1>6, Zenon DEF Flush, WriteAuditRows, AppendAuthEvent, Rollback
<1> QED BY <1>1, <1>2, <1>3, <1>4, <1>5, <1>6, Zenon DEF Next

-----------------------------------------------------------------------------
(* LockedInv for one transaction and one object.                            *)
LockedOK(t, o) ==
  /\ loaded[t][o] # NoValue =>
       /\ rowLock[o] = t
       /\ loaded[t][o] = IF wrote[t][o] = NoValue THEN table[o] ELSE wrote[t][o]
  /\ o \in DOMAIN pending[t] => LastSays(Visible(t), o, pending[t][o].old)

(* What the invariant says of one transaction and one locked object.        *)
LEMMA LockedFacts ==
  ASSUME IInv, NEW u \in Txns, NEW o \in Locked
  PROVE  LockedOK(u, o) /\ (\A t \in Txns : WriteOK(t, o)) /\ TypeOK /\ o \in Objects
<1>1. TypeOK /\ WriteInv /\ LockedInv
  BY Zenon DEF IInv
<1>2. u \in Txns /\ o \in Locked /\ o \in Objects
  BY AuditAssumption, Zenon
<1>3. LockedOK(u, o)
  BY ONLY <1>1, <1>2, Zenon DEF LockedInv, LockedOK
<1>4. \A t \in Txns : WriteOK(t, o)
  BY ONLY <1>1, <1>2, Zenon DEF WriteInv, WriteOK
<1> QED BY <1>1, <1>2, <1>3, <1>4, Zenon

(* A step that adds no row and commits none.                                *)
LEMMA LockedLocalStep ==
  ASSUME IInv, NEW t \in Txns,
         \/ \E o \in Objects : Load(t, o) \/ \E v \in Values : Assign(t, o, v)
         \/ Flush(t)
  PROVE  \A u \in Txns : \A o \in Locked : LockedOK(u, o)'
<1>0. NoValue \notin Values /\ NoTxn \notin Txns /\ Locked \subseteq Objects
  BY AuditAssumption, Zenon
<1> SUFFICES ASSUME NEW u \in Txns, NEW o \in Locked
             PROVE  LockedOK(u, o)'
  BY Zenon
<1>1. rows' = rows /\ Visible(u)' = Visible(u) /\ table' = table
  BY Zenon DEF Load, Assign, Flush, Visible
<1>2. LockedOK(u, o) /\ WriteOK(u, o) /\ TypeOK /\ o \in Objects
  BY LockedFacts, Zenon
<1>3. ASSUME NEW p \in Objects, Load(t, p)
      PROVE  LockedOK(u, o)'
  <2>1. /\ wrote' = wrote /\ pending' = pending
        /\ (u = t /\ o = p) => /\ loaded'[u][o] = table[o] /\ rowLock'[o] = u
                               /\ loaded[u][o] = NoValue
        /\ ~(u = t /\ o = p) => loaded'[u][o] = loaded[u][o]
    BY <1>2, <1>3, Zenon DEF Load, TypeOK
  <2>2. rowLock[o] = u => rowLock'[o] = u
    BY <1>0, <1>2, <1>3, Zenon DEF Load, Free, TypeOK
  <2> QED BY <1>1, <1>2, <2>1, <2>2, Zenon DEF LockedOK, WriteOK, LastSays
<1>4. ASSUME NEW p \in Objects, NEW v \in Values, Assign(t, p, v)
      PROVE  LockedOK(u, o)'
  <2>1. wrote' = wrote /\ pending' = pending /\ loaded' = loaded /\ rowLock' = rowLock
    BY <1>4, Zenon DEF Assign
  <2> QED BY <1>1, <1>2, <2>1, Zenon DEF LockedOK, LastSays
<1>5. ASSUME Flush(t)
      PROVE  LockedOK(u, o)'
  <2>1. CASE u # t
    <3>1. wrote'[u] = wrote[u] /\ pending'[u] = pending[u] /\ loaded'[u] = loaded[u]
      BY <1>2, <1>5, <2>1, Zenon DEF Flush, TypeOK
    <3>2. rowLock[o] = u => rowLock'[o] = u
      BY <1>0, <1>2, <1>5, <2>1, Zenon DEF Flush, Free, TypeOK
    <3> QED BY <1>1, <1>2, <3>1, <3>2, Zenon DEF LockedOK, LastSays
  <2>2. CASE u = t /\ o \in Dirty(t)
    <3>1. /\ loaded'[u][o] = value[u][o] /\ value[u][o] # NoValue
          /\ wrote'[u][o] = value[u][o] /\ rowLock'[o] = u
          /\ pending'[u][o].old = loaded[u][o] /\ loaded[u][o] # NoValue
          /\ DOMAIN pending[u] = {}
      BY <1>2, <1>5, <2>2, Zenon DEF Flush, Flushing, TypeOK, CaptureChanges, Dirty, WriteOK
    <3>2. LastSays(Visible(u), o, loaded[u][o])
      <4>1. CASE wrote[u][o] # NoValue
        BY <1>2, <3>1, <4>1, Zenon DEF LockedOK, WriteOK
      <4>2. CASE wrote[u][o] = NoValue
        <5>1. \A r : r.obj = o => (r \in log <=> r \in Visible(u))
          BY <1>2, <4>2, Zenon DEF WriteOK, Visible
        <5>2. LastSays(log, o, table[o])
          BY <1>2, Zenon DEF IInv, TrailReplays
        <5>3. LastSays(Visible(u), o, table[o])
          BY <5>1, <5>2, LastSaysSame, Zenon
        <5> QED BY <1>2, <3>1, <4>2, <5>3, Zenon DEF LockedOK
      <4> QED BY <4>1, <4>2, Zenon
    <3> QED BY <1>1, <3>1, <3>2, Zenon DEF LockedOK
  <2>3. CASE u = t /\ o \notin Dirty(t)
    <3>1. /\ loaded'[u][o] = loaded[u][o]
          /\ wrote'[u][o] = wrote[u][o] /\ rowLock'[o] = rowLock[o]
          /\ o \notin DOMAIN pending'[u]
      BY <1>2, <1>5, <2>3, Zenon DEF Flush, TypeOK, CaptureChanges, Dirty
    <3> QED BY <1>1, <1>2, <3>1, Zenon DEF LockedOK
  <2> QED BY <2>1, <2>2, <2>3, Zenon
<1> QED BY <1>3, <1>4, <1>5, Zenon

(* Logging the captured changes, or an event about no object.               *)
LEMMA LockedAppendStep ==
  ASSUME IInv, NEW t \in Txns, WriteAuditRows(t) \/ AppendAuthEvent(t)
  PROVE  \A u \in Txns : \A o \in Locked : LockedOK(u, o)'
<1>0. NoObject \notin Objects /\ Locked \subseteq Objects
  BY AuditAssumption, Zenon
<1> SUFFICES ASSUME NEW u \in Txns, NEW o \in Locked
             PROVE  LockedOK(u, o)'
  BY Zenon
<1>1. LockedOK(u, o) /\ TypeOK /\ o \in Objects
  BY LockedFacts, Zenon
<1>2. /\ table' = table /\ log' = log /\ wrote' = wrote /\ loaded' = loaded
      /\ rowLock' = rowLock
  BY Zenon DEF WriteAuditRows, AppendAuthEvent
<1>3. CASE u # t
  <2>1. rows'[u] = rows[u] /\ pending'[u] = pending[u]
    BY <1>1, <1>3, Zenon DEF WriteAuditRows, AppendAuthEvent, TypeOK
  <2>2. Visible(u)' = Visible(u)
    BY <1>2, <2>1, Zenon DEF Visible
  <2> QED BY <1>1, <1>2, <2>1, <2>2, Zenon DEF LockedOK, LastSays
<1>4. CASE u = t
  <2>1. DOMAIN pending'[u] = {}
    BY <1>1, <1>4, Zenon DEF WriteAuditRows, AppendAuthEvent, TypeOK, NoChange, Flushing
  <2> QED BY <1>1, <1>2, <2>1, Zenon DEF LockedOK
<1> QED BY <1>3, <1>4, Zenon

(* The end of t: no other transaction has a row lock t has.                 *)
LEMMA LockedEndStep ==
  ASSUME IInv, NEW t \in Txns, Commit(t) \/ Rollback(t)
  PROVE  \A u \in Txns : \A o \in Locked : LockedOK(u, o)'
<1>0. NoTxn \notin Txns /\ Locked \subseteq Objects
  BY AuditAssumption, Zenon
<1> SUFFICES ASSUME NEW u \in Txns, NEW o \in Locked
             PROVE  LockedOK(u, o)'
  BY Zenon
<1>1. LockedOK(u, o) /\ WriteOK(u, o) /\ WriteOK(t, o) /\ TypeOK /\ o \in Objects
  BY LockedFacts, Zenon
<1>2. End(t)
  BY Zenon DEF Commit, Rollback
<1>3. CASE u = t
  <2>1. loaded'[u][o] = NoValue /\ DOMAIN pending'[u] = {}
    BY <1>1, <1>2, <1>3, Zenon DEF End, TypeOK, Unloaded, NoChange
  <2> QED BY <2>1, Zenon DEF LockedOK
<1>4. CASE u # t
  <2>1. /\ loaded'[u] = loaded[u] /\ wrote'[u] = wrote[u]
        /\ pending'[u] = pending[u] /\ rows'[u] = rows[u]
        /\ rowLock[o] = u => rowLock'[o] = u
    BY <1>1, <1>2, <1>4, Zenon DEF End, TypeOK
  <2>2. rowLock[o] = u => /\ wrote[t][o] = NoValue /\ table'[o] = table[o]
                          /\ \A r \in rows[t] : r.obj # o
    BY <1>1, <1>4, Zenon DEF WriteOK, Commit, Rollback
  <2>3. log' = log \/ log' = log \cup rows[t]
    BY Zenon DEF Commit, Rollback
  <2>4. ASSUME o \in DOMAIN pending[u]
        PROVE  LastSays(Visible(u)', o, pending[u][o].old)
    <3>1. pending[u][o].new \in Values
      BY <1>1, <2>4, Zenon DEF TypeOK, Change
    <3>2. rowLock[o] = u
      BY <1>1, <2>4, <3>1, AuditAssumption, Zenon DEF WriteOK
    <3>3. \A r : r.obj = o => (r \in Visible(u) <=> r \in Visible(u)')
      BY <2>1, <2>2, <2>3, <3>2, Zenon DEF Visible
    <3>4. LastSays(Visible(u), o, pending[u][o].old)
      BY <1>1, <2>4, Zenon DEF LockedOK
    <3> QED BY <3>3, <3>4, LastSaysSame, Zenon
  <2> QED BY <1>1, <2>1, <2>2, <2>4, Zenon DEF LockedOK
<1> QED BY <1>3, <1>4, Zenon

-----------------------------------------------------------------------------
(* The trail of every locked object in S has no jumps.                      *)
Trail(S) == \A r \in S : r.obj \in Locked => Continues(S, r)

(* A batch whose old values are what S last says leaves a trail without     *)
(* jumps.                                                                   *)
LEMMA BatchExtendsTrail ==
  ASSUME NEW S \in SUBSET Row, NEW B \in SUBSET Row, NEW N \in Nat,
         \A r \in S : r.id < N, \A b \in B : N <= b.id,
         Trail(S),
         \A b \in B : b.obj \in Locked => LastSays(S, b.obj, b.old),
         \A b, c \in B : b.obj = c.obj => b = c
  PROVE  Trail(S \cup B)
<1>0. \A r \in S \cup B : r.id \in Nat
  BY Zenon DEF Row
<1> SUFFICES ASSUME NEW r \in S \cup B, r.obj \in Locked
             PROVE  LastSays({q \in S \cup B : q.id < r.id}, r.obj, r.old)
  BY Zenon DEF Trail, Continues
<1>1. CASE r \in S
  <2>1. {q \in S \cup B : q.id < r.id} = {q \in S : q.id < r.id}
    BY <1>0, <1>1
  <2> QED BY <1>1, <2>1, Zenon DEF Trail, Continues
<1>2. CASE r \in B
  <2> DEFINE T == {q \in S \cup B : q.id < r.id}
  <2>1. \A q : q.obj = r.obj => (q \in S <=> q \in T)
    <3>1. \A q \in S : q \in T
      BY <1>0, <1>2
    <3>2. \A q \in T : q.obj = r.obj => q \in S
      BY <1>0, <1>2
    <3> QED BY <3>1, <3>2, Zenon
  <2>2. LastSays(S, r.obj, r.old)
    BY <1>2, Zenon
  <2> HIDE DEF T
  <2>3. LastSays(T, r.obj, r.old)
    BY <2>1, <2>2, LastSaysSame, Zenon
  <2> QED BY <2>3, Zenon DEF T
<1> QED BY <1>1, <1>2, Zenon

(* Every step keeps the trails without jumps, as committed and as every     *)
(* transaction sees them.                                                   *)
LEMMA OldStep ==
  ASSUME IInv, [Next]_vars
  PROVE  Trail(log') /\ \A u \in Txns : Trail(Visible(u)')
<1>1. /\ TypeOK /\ ChainInv /\ Trail(log)
      /\ \A u \in Txns : Trail(Visible(u)) /\ \A o \in Locked : LockedOK(u, o)
  BY Zenon DEF IInv, LockedInv, LockedOK, OldIsPrevious, Trail
<1>2. ASSUME log' = log, rows' = rows
      PROVE  Trail(log') /\ \A u \in Txns : Trail(Visible(u)')
  BY <1>1, <1>2, Zenon DEF Visible
<1>3. ASSUME NEW t \in Txns, NEW B \in SUBSET Row, log' = log,
             rows' = [rows EXCEPT ![t] = rows[t] \cup B], Trail(Visible(t) \cup B)
      PROVE  Trail(log') /\ \A u \in Txns : Trail(Visible(u)')
  <2>1. \A u \in Txns : Visible(u)' = IF u = t THEN Visible(t) \cup B ELSE Visible(u)
    BY <1>1, <1>3, Zenon DEF Visible, TypeOK
  <2> QED BY <1>1, <1>3, <2>1, Zenon
<1>4. ASSUME NEW t \in Txns
      PROVE  /\ Visible(t) \in SUBSET Row /\ nextId \in Nat \ {0}
             /\ \A r \in Visible(t) : r.id < nextId
  BY <1>1, Zenon DEF TypeOK, Visible, ChainInv, Below
<1>5. ASSUME NEW t \in Txns, WriteAuditRows(t)
      PROVE  Trail(log') /\ \A u \in Txns : Trail(Visible(u)')
  <2>0. PICK pos : \E n \in Nat \ {0} :
          /\ rows' = [rows EXCEPT ![t] = rows[t] \cup Batch(t, pos)]
          /\ Batch(t, pos) \in SUBSET Row
          /\ Extends(Batch(t, pos), Visible(t), nextId, n)
          /\ \A b \in Batch(t, pos) :
               b.obj \in DOMAIN pending[t] /\ b.old = pending[t][b.obj].old
          /\ \A b \in Batch(t, pos) : b = RowOf(t, pos, b.obj)
    BY <1>1, <1>5, WriteStep, Zenon
  <2> DEFINE B == Batch(t, pos)
  <2>1. /\ B \in SUBSET Row /\ rows' = [rows EXCEPT ![t] = rows[t] \cup B]
        /\ \A b, c \in B : b.obj = c.obj => b = c
    BY <2>0, Zenon
  <2>2. \A b \in B : b.obj \in Locked => LastSays(Visible(t), b.obj, b.old)
    BY <1>1, <2>0 DEF LockedOK
  <2>3. \A b \in B : nextId <= b.id
    <3>1. PICK n \in Nat \ {0} : Extends(B, Visible(t), nextId, n)
      BY <2>0, Zenon
    <3> QED BY <1>4, <3>1 DEF Extends
  <2> HIDE DEF B
  <2>4. Trail(Visible(t) \cup B)
    BY <1>1, <1>4, <2>1, <2>2, <2>3, BatchExtendsTrail, Zenon
  <2>5. log' = log
    BY <1>5, Zenon DEF WriteAuditRows
  <2> QED BY <1>3, <2>1, <2>4, <2>5, Zenon
<1>6. ASSUME NEW t \in Txns, AppendAuthEvent(t)
      PROVE  Trail(log') /\ \A u \in Txns : Trail(Visible(u)')
  <2> DEFINE r == [id |-> nextId, prev |-> Latest(Visible(t)), obj |-> NoObject,
                   old |-> NoValue, new |-> NoValue]
             B == {r}
  <2>1. Latest(Visible(t)) \in Nat
    BY <1>1, <1>4, LatestType, Zenon DEF ChainInv
  <2>2. B \in SUBSET Row /\ \A b \in B : b.id = nextId /\ b.obj = NoObject
    BY <1>4, <2>1 DEF Row
  <2>3. /\ rows' = [rows EXCEPT ![t] = rows[t] \cup B] /\ log' = log
    BY <1>1, <1>6, Zenon DEF AppendAuthEvent, Link, TypeOK
  <2>4. \A b, c \in B : b = c
    BY Zenon
  <2> HIDE DEF B
  <2>5. NoObject \notin Locked
    BY AuditAssumption, Zenon
  <2>6. /\ \A b \in B : nextId <= b.id
        /\ \A b \in B : b.obj \in Locked => LastSays(Visible(t), b.obj, b.old)
        /\ nextId \in Nat
    BY <1>4, <2>2, <2>5
  <2>7. Trail(Visible(t) \cup B)
    BY <1>1, <1>4, <2>2, <2>4, <2>6, BatchExtendsTrail, Zenon
  <2> QED BY <1>3, <2>2, <2>3, <2>7, Zenon
<1>7. ASSUME NEW t \in Txns, Commit(t)
      PROVE  Trail(log') /\ \A u \in Txns : Trail(Visible(u)')
  <2>1. log' = Visible(t) /\ rows' = [rows EXCEPT ![t] = {}]
    BY <1>7, Zenon DEF Commit, End, Visible
  <2>2. ASSUME NEW u \in Txns
        PROVE  Visible(u)' = log' \/ Visible(u)' = Visible(u)
    <3>1. CASE rows'[u] = {}
      BY <3>1, Zenon DEF Visible
    <3>2. CASE rows'[u] # {}
      <4>1. u # t /\ rows'[u] = rows[u] /\ chainLock = u
        BY <1>1, <2>1, <3>2, Zenon DEF TypeOK, ChainInv
      <4>2. rows[t] = {}
        BY <1>1, <4>1, Zenon DEF ChainInv
      <4> QED BY <2>1, <4>1, <4>2, Zenon DEF Visible
    <3> QED BY <3>1, <3>2, Zenon
  <2> QED BY <1>1, <2>1, <2>2, Zenon
<1>8. ASSUME NEW t \in Txns, Rollback(t)
      PROVE  Trail(log') /\ \A u \in Txns : Trail(Visible(u)')
  <2>1. log' = log /\ rows' = [rows EXCEPT ![t] = {}]
    BY <1>8, Zenon DEF Rollback, End
  <2>2. \A u \in Txns : Visible(u)' = log \/ Visible(u)' = Visible(u)
    BY <1>1, <2>1, Zenon DEF Visible, TypeOK
  <2> QED BY <1>1, <2>1, <2>2, Zenon
<1>9. CASE UNCHANGED vars
  <2>1. log' = log /\ rows' = rows
    BY <1>9, Zenon DEF vars, session
  <2> QED BY <1>2, <2>1, Zenon
<1>10. ASSUME NEW t \in Txns, NEW o \in Objects,
              Load(t, o) \/ \E v \in Values : Assign(t, o, v)
       PROVE  log' = log /\ rows' = rows
  BY <1>10, Zenon DEF Load, Assign
<1>11. ASSUME NEW t \in Txns, Flush(t)
       PROVE  log' = log /\ rows' = rows
  BY <1>11, Zenon DEF Flush
<1> QED BY <1>2, <1>5, <1>6, <1>7, <1>8, <1>9, <1>10, <1>11, Zenon DEF Next

-----------------------------------------------------------------------------
(* Nothing is open and nothing is logged at the start.                      *)
LEMMA InitInvariant == Init => IInv
<1> SUFFICES ASSUME Init PROVE IInv
  BY Zenon
<1>1. TypeOK
  BY AuditAssumption DEF Init, TypeOK, Unloaded, NoChange
<1>2. ChainInv
  BY Zenon DEF Init, ChainInv, Below, Visible, VerifyChain, HasLatest
<1>3. WriteInv
  BY Zenon DEF Init, WriteInv, Unloaded, NoChange
<1>4. TrailReplays
  BY Zenon DEF Init, TrailReplays, LastSays
<1>5. LockedInv /\ OldIsPrevious
  BY AuditAssumption, Zenon DEF Init, LockedInv, OldIsPrevious, Unloaded, NoChange, Visible
<1> QED BY <1>1, <1>2, <1>3, <1>4, <1>5, Zenon DEF IInv

(* Every step of every transaction keeps the invariant.                     *)
LEMMA NextInvariant == IInv /\ [Next]_vars => IInv'
<1> SUFFICES ASSUME IInv, [Next]_vars PROVE IInv'
  BY Zenon
<1>1. TypeOK /\ ChainInv /\ WriteInv /\ TrailReplays /\ LockedInv
  BY Zenon DEF IInv
<1>2. TypeOK' /\ ChainInv' /\ WriteInv' /\ TrailReplays'
  BY <1>1, TypeStep, ChainStep, TrailStep, Zenon
<1>3. \A u \in Txns : \A o \in Locked : LockedOK(u, o)'
  <2>1. CASE UNCHANGED vars
    <3> SUFFICES ASSUME NEW u \in Txns, NEW o \in Locked PROVE LockedOK(u, o)'
      BY Zenon
    <3>1. u \in Txns /\ o \in Locked
      BY Zenon
    <3>2. LockedOK(u, o)
      BY ONLY <1>1, <3>1, Zenon DEF LockedInv, LockedOK
    <3>3. /\ loaded' = loaded /\ rowLock' = rowLock /\ wrote' = wrote /\ table' = table
          /\ pending' = pending /\ log' = log /\ rows' = rows
      BY ONLY <2>1, Zenon DEF vars, session
    <3> QED BY ONLY <3>2, <3>3, Zenon DEF LockedOK, LastSays, Visible
  <2>2. CASE Next
    BY <2>2, LockedLocalStep, LockedAppendStep, LockedEndStep, Zenon DEF Next
  <2> QED BY <2>1, <2>2, Zenon
<1>4. Trail(log') /\ \A u \in Txns : Trail(Visible(u)')
  BY OldStep, Zenon
<1>5. LockedInv'
  BY <1>3, <1>4, Zenon DEF LockedInv, LockedOK, Trail
<1>6. OldIsPrevious'
  BY <1>4, Zenon DEF OldIsPrevious, Trail
<1> QED BY <1>2, <1>5, <1>6, Zenon DEF IInv

(* The invariant holds in every reachable state.                            *)
THEOREM AuditInductive == Spec => []IInv
BY InitInvariant, NextInvariant, PTL DEF Spec

(* The columns and session maps of core/audit.py keep their types.          *)
THEOREM AuditTypeCorrect == Spec => []TypeOK
<1>1. IInv => TypeOK
  BY Zenon DEF IInv
<1> QED BY <1>1, AuditInductive, PTL

(* verify_chain never finds a broken link in a log written by               *)
(* _write_audit_rows and append_auth_event, however many transactions write *)
(* at once and whichever of them roll back or die.                          *)
THEOREM ChainAlwaysVerifies == Spec => []ChainIntact
<1>1. IInv => ChainIntact
  BY Zenon DEF IInv, ChainInv, ChainIntact
<1> QED BY <1>1, AuditInductive, PTL

(* Replaying the log gives the tables: _capture_changes misses no change,   *)
(* and the log orders changes of one row as the row lock did.               *)
THEOREM TrailAlwaysReplays == Spec => []TrailReplays
<1>1. IInv => TrailReplays
  BY Zenon DEF IInv
<1> QED BY <1>1, AuditInductive, PTL

(* The old value logged for a row loaded FOR UPDATE is the one logged last. *)
THEOREM OldIsAlwaysPrevious == Spec => []OldIsPrevious
<1>1. IInv => OldIsPrevious
  BY Zenon DEF IInv
<1> QED BY <1>1, AuditInductive, PTL

(* The log _capture_changes writes replays to the tables, without jumps     *)
(* where rows are loaded FOR UPDATE.                                        *)
THEOREM TrailIsAlwaysFaithful == Spec => []TrailIsFaithful
<1>1. TrailReplays /\ OldIsPrevious => TrailIsFaithful
  BY Zenon DEF TrailIsFaithful
<1> QED BY <1>1, TrailAlwaysReplays, OldIsAlwaysPrevious, PTL

(* A committed row never disappears and none is ever inserted before one    *)
(* already committed: ids are drawn under the advisory lock.                *)
THEOREM LogGrowsAtEnd == Spec => GrowsAtEnd
<1> DEFINE Grows == /\ log \subseteq log'
                    /\ \A r \in log' \ log : \A q \in log : q.id < r.id
<1>1. IInv /\ [Next]_vars => [Grows]_vars
  <2> SUFFICES ASSUME IInv, Next PROVE Grows
    BY Zenon
  <2>1. log' = log \/ \E t \in Txns : log' = log \cup rows[t]
    BY Zenon DEF Next, Load, Assign, Flush, WriteAuditRows, AppendAuthEvent, Commit, Rollback
  <2> QED BY <2>1, Zenon DEF IInv, ChainInv
<1> QED BY <1>1, AuditInductive, PTL DEF Spec, GrowsAtEnd
=============================================================================
