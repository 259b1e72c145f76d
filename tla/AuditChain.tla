------------------------------ MODULE AuditChain ------------------------------
(***************************************************************************)
(* The hash-chained log of core/audit.py: session listeners capture the    *)
(* changed objects before a flush and append one chained row per object    *)
(* after it, on the flush's own connection, so data and log commit         *)
(* together.  Many transactions write at once; the chain's order comes     *)
(* from one advisory lock, held from the first audited flush to the end of *)
(* the transaction.                                                        *)
(*                                                                         *)
(* A row's hash stands for the row: it is modelled by the row's id, drawn  *)
(* from a sequence that never goes back (a rollback leaves a gap), and     *)
(* prev_hash by the id of the row it was computed from.  An object is one  *)
(* row of an audited table, reduced to one column.                         *)
(***************************************************************************)
EXTENDS Integers, FiniteSets, Functions

CONSTANTS
  Txns,        \* transactions that may be open at once
  Objects,     \* rows of audited tables
  Locked,      \* the objects every writer first loads with SELECT ... FOR UPDATE
  Values,      \* column values
  Initial,     \* the value every object starts with
  NoTxn, NoObject, NoValue,
  MaxId        \* bound: rows ever inserted

ASSUME AuditAssumption ==
  /\ IsFiniteSet(Objects)
  /\ Locked \subseteq Objects
  /\ Initial \in Values
  /\ NoTxn \notin Txns /\ NoObject \notin Objects /\ NoValue \notin Values
  /\ MaxId \in Nat

VARIABLES
  table,     \* object -> its committed value
  log,       \* the committed rows of core_audit_logs
  nextId,    \* the id sequence
  chainLock, \* who holds the advisory lock, or NoTxn
  rowLock,   \* object -> who has its row locked, or NoTxn
  loaded,    \* txn -> object -> the value the session knows as stored, or NoValue
  value,     \* txn -> object -> the session's in-memory value, or NoValue
  pending,   \* txn -> the changes captured by a flush still to be logged
  wrote,     \* txn -> object -> the value its UPDATE wrote, or NoValue
  rows       \* txn -> its uncommitted rows of core_audit_logs

session == <<loaded, value, pending, wrote, rows>>
vars == <<table, log, nextId, chainLock, rowLock, session>>

Change == [old: Values, new: Values]
NoChange == [o \in {} |-> [old |-> Initial, new |-> Initial]]
Unloaded == [o \in Objects |-> NoValue]

Init ==
  /\ table = [o \in Objects |-> Initial]
  /\ log = {}
  /\ nextId = 1
  /\ chainLock = NoTxn
  /\ rowLock = [o \in Objects |-> NoTxn]
  /\ loaded = [t \in Txns |-> Unloaded]
  /\ value = [t \in Txns |-> Unloaded]
  /\ pending = [t \in Txns |-> NoChange]
  /\ wrote = [t \in Txns |-> Unloaded]
  /\ rows = [t \in Txns |-> {}]

Flushing(t) == DOMAIN pending[t] # {}

Free(t, o) == rowLock[o] \in {NoTxn, t}

-----------------------------------------------------------------------------
(* A service loads an object; one that is locked by every writer is loaded  *)
(* by SELECT ... FOR UPDATE (lifecycle.py _locked_claim).                   *)
Load(t, o) ==
  /\ ~Flushing(t) /\ loaded[t][o] = NoValue
  /\ o \in Locked => Free(t, o)
  /\ rowLock' = IF o \in Locked THEN [rowLock EXCEPT ![o] = t] ELSE rowLock
  /\ loaded' = [loaded EXCEPT ![t][o] = table[o]]
  /\ value' = [value EXCEPT ![t][o] = table[o]]
  /\ UNCHANGED <<table, log, nextId, chainLock, pending, wrote, rows>>

(* A service assigns to a loaded object.                                    *)
Assign(t, o, v) ==
  /\ ~Flushing(t) /\ loaded[t][o] # NoValue
  /\ value' = [value EXCEPT ![t][o] = v]
  /\ UNCHANGED <<table, log, nextId, chainLock, rowLock, loaded, pending, wrote, rows>>

(* session.is_modified with net changes.                                    *)
Dirty(t) == {o \in Objects : value[t][o] # loaded[t][o]}

(* audit.py _capture_changes: old and new of every modified object, from    *)
(* the attribute history (old is what the session loaded).  Mutant: an      *)
(* object whose old value is falsy is passed over.                          *)
CaptureTruthy(t) ==
  [o \in {o \in Dirty(t) : loaded[t][o] # Initial} |->
     [old |-> loaded[t][o], new |-> value[t][o]]]
CaptureChanges(t) ==
  [o \in Dirty(t) |-> [old |-> loaded[t][o], new |-> value[t][o]]]

(* A flush up to its UPDATEs, which lock their rows.                        *)
Flush(t) ==
  /\ ~Flushing(t) /\ Dirty(t) # {}
  /\ \A o \in Dirty(t) : Free(t, o)
  /\ pending' = [pending EXCEPT ![t] = CaptureChanges(t)]
  /\ rowLock' = [o \in Objects |-> IF o \in Dirty(t) THEN t ELSE rowLock[o]]
  /\ wrote' = [wrote EXCEPT ![t] =
                 [o \in Objects |-> IF o \in Dirty(t) THEN value[t][o] ELSE wrote[t][o]]]
  /\ loaded' = [loaded EXCEPT ![t] = value[t]]
  /\ UNCHANGED <<table, log, nextId, chainLock, value, rows>>

-----------------------------------------------------------------------------
(* What a SELECT of t sees of the log, and the hash it chains from: that of *)
(* the row with the greatest id, GENESIS_HASH (0) when there is none.       *)
Visible(t) == log \cup rows[t]

Latest(S) ==
  IF S = {} THEN 0 ELSE (CHOOSE r \in S : \A q \in S : q.id <= r.id).id

(* pg_advisory_xact_lock; mutant: not taken.                                *)
ChainUnlocked(t) == TRUE
ChainFree(t) == chainLock \in {NoTxn, t}

(* What the k-th row of a batch is hashed from.                             *)
Link(k, prev) == IF k = 1 THEN prev ELSE nextId + k - 2

(* audit.py _write_audit_rows: take the lock, read the last hash, chain one *)
(* row per captured change, in the order of the capture.                    *)
WriteAuditRows(t) ==
  /\ Flushing(t) /\ ChainFree(t)
  /\ LET S == DOMAIN pending[t]
         n == Cardinality(S)
         prev == Latest(Visible(t))
     IN  /\ nextId + n - 1 <= MaxId
         /\ \E pos \in Bijection(S, 1 .. n) :
              rows' = [rows EXCEPT ![t] = @ \cup
                {[id |-> nextId + pos[o] - 1, prev |-> Link(pos[o], prev), obj |-> o,
                  old |-> pending[t][o].old, new |-> pending[t][o].new] : o \in S}]
         /\ nextId' = nextId + n
  /\ chainLock' = t
  /\ pending' = [pending EXCEPT ![t] = NoChange]
  /\ UNCHANGED <<table, log, rowLock, loaded, value, wrote>>

(* audit.py append_auth_event: one row about no object.                     *)
AppendAuthEvent(t) ==
  /\ ~Flushing(t) /\ ChainFree(t)
  /\ nextId <= MaxId
  /\ rows' = [rows EXCEPT ![t] = @ \cup
       {[id |-> nextId, prev |-> Link(1, Latest(Visible(t))), obj |-> NoObject,
         old |-> NoValue, new |-> NoValue]}]
  /\ nextId' = nextId + 1
  /\ chainLock' = t
  /\ UNCHANGED <<table, log, rowLock, loaded, value, pending, wrote>>

-----------------------------------------------------------------------------
(* The end of a transaction releases its locks and its session.             *)
End(t) ==
  /\ chainLock' = IF chainLock = t THEN NoTxn ELSE chainLock
  /\ rowLock' = [o \in Objects |-> IF rowLock[o] = t THEN NoTxn ELSE rowLock[o]]
  /\ loaded' = [loaded EXCEPT ![t] = Unloaded]
  /\ value' = [value EXCEPT ![t] = Unloaded]
  /\ pending' = [pending EXCEPT ![t] = NoChange]
  /\ wrote' = [wrote EXCEPT ![t] = Unloaded]
  /\ rows' = [rows EXCEPT ![t] = {}]
  /\ UNCHANGED nextId

(* session.commit() flushes first, so nothing is left dirty.                *)
Commit(t) ==
  /\ ~Flushing(t) /\ Dirty(t) = {}
  /\ table' = [o \in Objects |-> IF wrote[t][o] # NoValue THEN wrote[t][o] ELSE table[o]]
  /\ log' = log \cup rows[t]
  /\ End(t)

(* A refusal, a failed statement, a dropped connection, a killed process.   *)
Rollback(t) ==
  /\ End(t)
  /\ UNCHANGED <<table, log>>

Next ==
  \E t \in Txns :
    \/ \E o \in Objects : Load(t, o) \/ \E v \in Values : Assign(t, o, v)
    \/ Flush(t) \/ WriteAuditRows(t) \/ AppendAuthEvent(t)
    \/ Commit(t) \/ Rollback(t)

Spec == Init /\ [][Next]_vars

-----------------------------------------------------------------------------
Row == [id: Nat \ {0}, prev: Nat, obj: Objects \cup {NoObject},
        old: Values \cup {NoValue}, new: Values \cup {NoValue}]

TypeOK ==
  /\ table \in [Objects -> Values]
  /\ log \subseteq Row
  /\ nextId \in Nat \ {0}
  /\ chainLock \in Txns \cup {NoTxn}
  /\ rowLock \in [Objects -> Txns \cup {NoTxn}]
  /\ loaded \in [Txns -> [Objects -> Values \cup {NoValue}]]
  /\ value \in [Txns -> [Objects -> Values \cup {NoValue}]]
  /\ wrote \in [Txns -> [Objects -> Values \cup {NoValue}]]
  /\ rows \in [Txns -> SUBSET Row]
  /\ DOMAIN pending = Txns
  /\ \A t \in Txns : /\ DOMAIN pending[t] \subseteq Objects
                     /\ pending[t] \in [DOMAIN pending[t] -> Change]

(* audit.py verify_chain over a set of rows read in id order: each row was  *)
(* hashed from the one before it, the first from GENESIS_HASH.              *)
VerifyChain(S) ==
  \A r \in S :
    \/ r.prev = 0 /\ \A q \in S : r.id <= q.id
    \/ \E p \in S : /\ p.id = r.prev /\ p.id < r.id
                    /\ \A q \in S : q.id < r.id => q.id <= p.id

(* The committed log verifies at every moment, whatever transactions are    *)
(* open, roll back or die: the advisory lock in _write_audit_rows and       *)
(* append_auth_event serializes the chain's writers.                        *)
ChainIntact == VerifyChain(log)

(* The newest row of S about o says v.                                      *)
LastSays(S, o, v) ==
  \/ v = Initial /\ \A r \in S : r.obj # o
  \/ \E r \in S : /\ r.obj = o /\ r.new = v
                  /\ \A q \in S : q.obj = o => q.id <= r.id

(* Replaying the committed log gives the committed tables: no change is     *)
(* missing from the log, and log order agrees with the order in which the   *)
(* rows were really overwritten (_capture_changes, _write_audit_rows).      *)
TrailReplays == \A o \in Objects : LastSays(log, o, table[o])

(* Row r of S continues the trail of its object.                            *)
Continues(S, r) == LastSays({q \in S : q.id < r.id}, r.obj, r.old)

(* For an object every writer locks before reading, the old value of each   *)
(* log row is the new value of the row before it: the trail has no jumps    *)
(* (the history a locked load captures is the stored one).                  *)
OldIsPrevious == \A r \in log : r.obj \in Locked => Continues(log, r)

(* The committed log tells the whole story of the committed tables: its     *)
(* last word on an object is the stored value, and for an object every      *)
(* writer locks its words follow on one another (_capture_changes).         *)
TrailIsFaithful == TrailReplays /\ OldIsPrevious

(* The log only grows, and only at its end: a row that becomes visible      *)
(* later has a greater id than every row a reader saw before, so a verified *)
(* prefix stays verified (ids are drawn under the lock).                    *)
GrowsAtEnd ==
  [][/\ log \subseteq log'
     /\ \A r \in log' \ log : \A q \in log : q.id < r.id]_vars
=============================================================================
