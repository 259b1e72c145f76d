---------------------------- MODULE OutboxProofs ----------------------------
(***************************************************************************)
(* Proofs about Outbox, for any number of senders, workers, rows and keys:  *)
(* no committed message is delivered twice while its retries last, and the  *)
(* outbox keeps what AtLeastOnce promises its callers.                      *)
(***************************************************************************)
EXTENDS Outbox, TLAPS, SequenceTheorems

(* The steps in which a worker holds its row's lock.                        *)
LockSteps == {"sending", "accepted", "refused"}

(* A row that is on the table, committed.                                   *)
OnFile(i) == rows[i].by = Committed /\ rows[i].status # "none"

(* A free id has no past; a row of an open transaction has not been tried   *)
(* yet; a row is given up only after MaxRetries + 2 failures; until then it *)
(* is sent at most once, and stays sent.                                    *)
RowOK(i) ==
  /\ rows[i].status = "none" => rows[i].by = Committed
  /\ ~OnFile(i) => rows[i].sent = 0 /\ rows[i].failed = 0 /\ copies[i] = 0
  /\ rows[i].by # Committed => rows[i].status \in {"queued", "suppressed"}
  /\ rows[i].status = "dead" => rows[i].failed >= MaxRetries + 2
  /\ rows[i].failed < MaxRetries + 2 =>
       rows[i].sent = 0 \/ (rows[i].sent = 1 /\ rows[i].status = "sent")

(* At most one standing row per key, committed or not.                      *)
KeysOK ==
  \A i, j \in Ids : Standing(i, rows[j].key) /\ Standing(j, rows[j].key) => i = j

(* What a sender registered is there when it commits.                       *)
SenderOK(s) ==
  /\ tx[s].pc \in {"look", "check", "insert"} => tx[s].todo # <<>>
  /\ \A i \in tx[s].pend :
       /\ rows[i].status # "none" /\ rows[i].by \in {Committed, s}
       /\ tx[s].pc = "drain" => rows[i].by = Committed

(* A message on the broker has as many failures behind it as retries.       *)
MessageOK(m) == queue[m] > 0 => OnFile(m[1]) /\ rows[m[1]].failed >= m[2]

(* The row a worker serves.                                                 *)
WorkerOK(w) == work[w].pc # "idle" =>
  LET row == rows[work[w].id]
  IN  /\ OnFile(work[w].id) /\ row.status # "suppressed"
      /\ row.failed >= work[w].tries
      /\ work[w].pc \in LockSteps => row.status \in {"queued", "failed", "dead"}
      /\ work[w].pc = "accepted" /\ row.chan = "email" => copies[work[w].id] > 0
      /\ work[w].pc = "retry" => row.failed >= work[w].tries + 1
      /\ work[w].pc = "bury" => row.failed >= MaxRetries + 1

(* SELECT ... FOR UPDATE: one worker per row.                               *)
LocksOK ==
  \A v, w \in Workers : work[v].pc \in LockSteps /\ work[w].pc \in LockSteps
                          /\ work[v].id = work[w].id => v = w

(* A copy beyond the recorded success is one a worker is about to record,   *)
(* or one a dead worker could not record.                                   *)
InHand(i) == \E w \in Workers : work[w].pc = "accepted" /\ work[w].id = i
Unrecorded(i) == IF InHand(i) THEN 1 ELSE 0
CopiesOK(i) ==
  rows[i].failed < MaxRetries + 2 =>
    copies[i] <= rows[i].sent + crashes + Unrecorded(i)

OutboxInv ==
  /\ OutboxTypeOK /\ KeysOK /\ LocksOK
  /\ \A i \in Ids : RowOK(i) /\ CopiesOK(i)
  /\ \A s \in Senders : SenderOK(s)
  /\ \A m \in Messages : MessageOK(m)
  /\ \A w \in Workers : WorkerOK(w)

-----------------------------------------------------------------------------
TxRecord == [pc: SenderSteps, todo: Seq(Notification), pend: SUBSET Ids]

LEMMA IdleType == Idle \in TxRecord
BY DEF Idle, TxRecord, SenderSteps

LEMMA FreeType == Free \in [pc: WorkerSteps, id: Ids, tries: 0 .. MaxRetries]
BY OutboxAssumption DEF Free, WorkerSteps

LEMMA NoRowType == NoRow \in NotificationOutbox
BY Zenon DEF NoRow, NotificationOutbox, Channels, RowStatuses

LEMMA UnrecordedIs ==
  ASSUME NEW i \in Ids
  PROVE  /\ Unrecorded(i) \in Nat /\ Unrecorded(i)' \in Nat
         /\ InHand(i) => Unrecorded(i) = 1
         /\ ~InHand(i) => Unrecorded(i) = 0
         /\ InHand(i)' => Unrecorded(i)' = 1
         /\ InHand(i)' = InHand(i) => Unrecorded(i)' = Unrecorded(i)
<1>1. Unrecorded(i) \in Nat /\ Unrecorded(i)' \in Nat
  BY Zenon DEF Unrecorded
<1>2. InHand(i) => Unrecorded(i) = 1
  BY Zenon DEF Unrecorded
<1>3. ~InHand(i) => Unrecorded(i) = 0
  BY Zenon DEF Unrecorded
<1>4. InHand(i)' => Unrecorded(i)' = 1
  BY Zenon DEF Unrecorded
<1>5. InHand(i)' = InHand(i) => Unrecorded(i)' = Unrecorded(i)
  BY Zenon DEF Unrecorded
<1> QED BY <1>1, <1>2, <1>3, <1>4, <1>5, Zenon

(* The initial state.                                                       *)
LEMMA InvInit ==
  ASSUME OutboxInit
  PROVE  OutboxInv
<1>1. OutboxTypeOK
  BY IdleType, FreeType, NoRowType, OutboxAssumption DEF OutboxInit, OutboxTypeOK, TxRecord, Messages
<1>2. KeysOK /\ \A i \in Ids : RowOK(i)
  BY OutboxAssumption, Zenon DEF OutboxInit, KeysOK, RowOK, OnFile, Standing, NoRow
<1>3. \A w \in Workers : WorkerOK(w) /\ work[w].pc = "idle"
  BY Zenon DEF OutboxInit, WorkerOK, Free
<1>4. LocksOK
  BY <1>3, Zenon DEF LocksOK, LockSteps
<1>5. \A i \in Ids : CopiesOK(i)
  BY OutboxAssumption, UnrecordedIs DEF OutboxInit, CopiesOK, NoRow
<1>6. \A s \in Senders : SenderOK(s)
  BY Zenon DEF OutboxInit, SenderOK, Idle
<1>7. \A m \in Messages : MessageOK(m)
  BY DEF OutboxInit, MessageOK
<1> QED BY <1>1, <1>2, <1>3, <1>4, <1>5, <1>6, <1>7, Zenon DEF OutboxInv

(* A step in which one sender's transaction moves on and the tables stay.   *)
LEMMA SenderMoves ==
  ASSUME OutboxInv, NEW s \in Senders, NEW t \in TxRecord,
         tx' = [tx EXCEPT ![s] = t],
         rows' = rows, queue' = queue, work' = work, copies' = copies, crashes' = crashes,
         t.pc \in {"look", "check", "insert"} => t.todo # <<>>,
         \A i \in t.pend : /\ rows[i].status # "none" /\ rows[i].by \in {Committed, s}
                           /\ t.pc = "drain" => rows[i].by = Committed
  PROVE  OutboxInv'
<1>1. OutboxTypeOK'
  BY Zenon DEF OutboxInv, OutboxTypeOK, TxRecord
<1>2. ASSUME NEW u \in Senders
      PROVE  SenderOK(u)'
  <2>1. tx'[u] = IF u = s THEN t ELSE tx[u]
    BY Zenon DEF OutboxInv, OutboxTypeOK
  <2> QED BY <2>1 DEF OutboxInv, SenderOK
<1>3. KeysOK' /\ LocksOK'
  BY Zenon DEF OutboxInv, KeysOK, Standing, LocksOK
<1>4. \A i \in Ids : RowOK(i)' /\ CopiesOK(i)'
  BY ZenonT(40) DEF OutboxInv, RowOK, OnFile, CopiesOK, Unrecorded, InHand
<1>5. (\A m \in Messages : MessageOK(m)') /\ \A w \in Workers : WorkerOK(w)'
  BY Zenon DEF OutboxInv, MessageOK, OnFile, WorkerOK
<1> QED BY <1>1, <1>2, <1>3, <1>4, <1>5, Zenon DEF OutboxInv

(* What is left of a batch after its head.                                  *)
LEMMA ProceedType ==
  ASSUME OutboxInv, NEW s \in Senders, tx[s].pc \in {"look", "check", "insert"},
         NEW P \in SUBSET Ids
  PROVE  LET t == [pc |-> IF Len(tx[s].todo) = 1 THEN "open" ELSE "look",
                   todo |-> Tail(tx[s].todo), pend |-> P]
         IN  /\ t \in TxRecord
             /\ t.pc \in {"look", "check", "insert"} => t.todo # <<>>
             /\ t.pc # "drain"
             /\ Proceed(s, P) => tx' = [tx EXCEPT ![s] = t]
             /\ Head(tx[s].todo) \in Notification
<1>1. tx[s].todo \in Seq(Notification) /\ tx[s].todo # <<>>
  BY Zenon DEF OutboxInv, OutboxTypeOK, SenderOK
<1>2. Tail(tx[s].todo) \in Seq(Notification) /\ Head(tx[s].todo) \in Notification
  BY <1>1
<1>3. Len(tx[s].todo) # 1 => Tail(tx[s].todo) # <<>>
  <2>1. Len(tx[s].todo) \in Nat /\ Len(tx[s].todo) # 0
          /\ Len(Tail(tx[s].todo)) = Len(tx[s].todo) - 1
    BY <1>1
  <2>2. Tail(tx[s].todo) = <<>> <=> Len(Tail(tx[s].todo)) = 0
    BY <1>2, EmptySeq, Zenon
  <2> QED BY <2>1, <2>2
<1>4. Proceed(s, P) => tx' = [tx EXCEPT ![s] =
        [pc |-> IF Len(tx[s].todo) = 1 THEN "open" ELSE "look",
         todo |-> Tail(tx[s].todo), pend |-> P]]
  BY Zenon DEF Proceed, OutboxInv, OutboxTypeOK
<1> QED BY <1>2, <1>3, <1>4, Zenon DEF TxRecord, SenderSteps

LEMMA StageKeeps ==
  ASSUME OutboxInv, NEW s \in Senders, NEW batch \in Seq(Notification), Stage(s, batch)
  PROVE  OutboxInv'
<1> DEFINE t == [pc |-> IF batch = <<>> THEN "open" ELSE "look", todo |-> batch,
                 pend |-> tx[s].pend]
<1>1. t \in TxRecord /\ tx' = [tx EXCEPT ![s] = t]
  BY Zenon DEF OutboxInv, OutboxTypeOK, TxRecord, SenderSteps, Stage
<1>2. \A i \in t.pend : rows[i].status # "none" /\ rows[i].by \in {Committed, s}
  BY Zenon DEF OutboxInv, SenderOK
<1>3. (t.pc \in {"look", "check", "insert"} => t.todo # <<>>) /\ t.pc # "drain"
  BY Zenon
<1> HIDE DEF t
<1> QED BY <1>1, <1>2, <1>3, SenderMoves, Zenon DEF Stage

LEMMA AlreadySentKeeps ==
  ASSUME OutboxInv, NEW s \in Senders, AlreadySent(s)
  PROVE  OutboxInv'
<1>0. \A i \in tx[s].pend : rows[i].status # "none" /\ rows[i].by \in {Committed, s}
  BY Zenon DEF OutboxInv, SenderOK
<1>1. CASE Proceed(s, tx[s].pend)
  <2> DEFINE t == [pc |-> IF Len(tx[s].todo) = 1 THEN "open" ELSE "look",
                   todo |-> Tail(tx[s].todo), pend |-> tx[s].pend]
  <2>1. /\ t \in TxRecord /\ tx' = [tx EXCEPT ![s] = t] /\ t.pend = tx[s].pend
        /\ t.pc \in {"look", "check", "insert"} => t.todo # <<>>
        /\ t.pc # "drain"
    BY <1>1, ProceedType, Zenon DEF AlreadySent, OutboxInv, OutboxTypeOK
  <2> HIDE DEF t
  <2> QED BY <1>0, <2>1, SenderMoves, Zenon DEF AlreadySent
<1>2. CASE tx' = [tx EXCEPT ![s].pc = "check"]
  <2> DEFINE t == [tx[s] EXCEPT !.pc = "check"]
  <2>1. /\ t \in TxRecord /\ tx' = [tx EXCEPT ![s] = t] /\ t.pend = tx[s].pend
        /\ t.pc = "check" /\ t.todo # <<>>
    <3>1. tx \in [Senders -> TxRecord] /\ tx[s].todo # <<>>
      BY Zenon DEF AlreadySent, OutboxInv, OutboxTypeOK, TxRecord, SenderOK
    <3> QED BY <1>2, <3>1, Zenon DEF TxRecord, SenderSteps
  <2> HIDE DEF t
  <2> QED BY <1>0, <2>1, SenderMoves, Zenon DEF AlreadySent
<1> QED BY <1>1, <1>2, Zenon DEF AlreadySent

LEMMA FindExistingKeeps ==
  ASSUME OutboxInv, NEW s \in Senders, FindExisting(s)
  PROVE  OutboxInv'
<1>0. \A i \in tx[s].pend : rows[i].status # "none" /\ rows[i].by \in {Committed, s}
  BY Zenon DEF OutboxInv, SenderOK
<1>1. ASSUME NEW i \in Sees(s, Head(tx[s].todo).key), Proceed(s, tx[s].pend \cup {i})
      PROVE  OutboxInv'
  <2> DEFINE t == [pc |-> IF Len(tx[s].todo) = 1 THEN "open" ELSE "look",
                   todo |-> Tail(tx[s].todo), pend |-> tx[s].pend \cup {i}]
  <2>1. i \in Ids /\ rows[i].status # "none" /\ rows[i].by \in {Committed, s}
    BY Zenon DEF Sees, Standing
  <2>2. /\ t \in TxRecord /\ tx' = [tx EXCEPT ![s] = t] /\ t.pend = tx[s].pend \cup {i}
        /\ t.pc \in {"look", "check", "insert"} => t.todo # <<>>
        /\ t.pc # "drain"
    BY <1>1, <2>1, ProceedType, Zenon DEF FindExisting, OutboxInv, OutboxTypeOK
  <2> HIDE DEF t
  <2> QED BY <1>0, <2>1, <2>2, SenderMoves, Zenon DEF FindExisting
<1>2. CASE tx' = [tx EXCEPT ![s].pc = "insert"]
  <2> DEFINE t == [tx[s] EXCEPT !.pc = "insert"]
  <2>1. /\ t \in TxRecord /\ tx' = [tx EXCEPT ![s] = t] /\ t.pend = tx[s].pend
        /\ t.pc = "insert" /\ t.todo # <<>>
    <3>1. tx \in [Senders -> TxRecord] /\ tx[s].todo # <<>>
      BY Zenon DEF FindExisting, OutboxInv, OutboxTypeOK, TxRecord, SenderOK
    <3> QED BY <1>2, <3>1, Zenon DEF TxRecord, SenderSteps
  <2> HIDE DEF t
  <2> QED BY <1>0, <2>1, SenderMoves, Zenon DEF FindExisting
<1> QED BY <1>1, <1>2, Zenon DEF FindExisting

(* A step that leaves committed rows, the broker and the workers alone.     *)
LEMMA WorkersUndisturbed ==
  ASSUME OutboxInv, \A i \in Ids : OnFile(i) => rows'[i] = rows[i],
         queue' = queue, work' = work, copies' = copies
  PROVE  /\ LocksOK'
         /\ \A m \in Messages : MessageOK(m)'
         /\ \A w \in Workers : WorkerOK(w)'
         /\ \A i \in Ids : InHand(i)' = InHand(i)
<1>1. LocksOK' /\ \A i \in Ids : InHand(i)' = InHand(i)
  BY Zenon DEF OutboxInv, LocksOK, InHand
<1>2. ASSUME NEW m \in Messages
      PROVE  MessageOK(m)'
  BY Zenon DEF OutboxInv, MessageOK, OnFile, Messages
<1>3. ASSUME NEW w \in Workers
      PROVE  WorkerOK(w)'
  <2>1. work[w].id \in Ids
    BY Zenon DEF OutboxInv, OutboxTypeOK
  <2> QED BY <2>1, Zenon DEF OutboxInv, WorkerOK, OnFile
<1> QED BY <1>1, <1>2, <1>3, Zenon

(* A rolled-back transaction takes its rows with it.                        *)
LEMMA AbandonKeeps ==
  ASSUME OutboxInv, NEW s \in Senders, Abandon(s),
         queue' = queue, work' = work, copies' = copies,
         crashes' \in 0 .. MaxCrashes, crashes <= crashes'
  PROVE  OutboxInv'
<1>0. \A i \in Ids : rows'[i] = IF rows[i].by = s THEN NoRow ELSE rows[i]
  BY Zenon DEF Abandon
<1>1. OutboxTypeOK'
  BY NoRowType, IdleType, Zenon DEF OutboxInv, OutboxTypeOK, Abandon, TxRecord
<1>2. \A i \in Ids : OnFile(i) => rows'[i] = rows[i]
  BY <1>0, OutboxAssumption, Zenon DEF OnFile
<1>3. KeysOK'
  <2> SUFFICES ASSUME NEW i \in Ids, NEW j \in Ids, Standing(i, rows[j].key)', Standing(j, rows[j].key)'
               PROVE  i = j
    BY Zenon DEF KeysOK
  <2>1. rows'[i] = rows[i] /\ rows'[j] = rows[j]
    BY <1>0 DEF Standing, NoRow
  <2> QED BY <2>1, Zenon DEF OutboxInv, KeysOK, Standing
<1>4. ASSUME NEW i \in Ids
      PROVE  RowOK(i)' /\ CopiesOK(i)'
  <2>1. /\ RowOK(i) /\ CopiesOK(i) /\ crashes \in Nat /\ crashes' \in Nat
        /\ rows[i].sent \in Nat /\ copies[i] \in Nat
    BY OutboxAssumption DEF OutboxInv, OutboxTypeOK, NotificationOutbox
  <2>2. CASE rows[i].by = s
    <3>1. rows'[i] = NoRow /\ copies'[i] = 0
      BY <1>0, <2>1, <2>2, OutboxAssumption, Zenon DEF RowOK, OnFile
    <3>2. RowOK(i)'
      BY <3>1, OutboxAssumption DEF RowOK, OnFile, NoRow
    <3>3. CopiesOK(i)'
      <4>1. rows'[i].sent = 0 /\ copies'[i] = 0
        BY <3>1 DEF NoRow
      <4> QED BY <2>1, <4>1, UnrecordedIs DEF CopiesOK
    <3> QED BY <3>2, <3>3, Zenon
  <2>3. CASE rows[i].by # s
    <3>1. rows'[i] = rows[i]
      BY <1>0, <2>3, Zenon
    <3>2. InHand(i)' = InHand(i)
      BY Zenon DEF InHand
    <3>3. RowOK(i)'
      BY <2>1, <3>1, Zenon DEF RowOK, OnFile
    <3> QED BY <2>1, <3>1, <3>2, <3>3, UnrecordedIs DEF CopiesOK
  <2> QED BY <2>2, <2>3, Zenon
<1>5. ASSUME NEW u \in Senders
      PROVE  SenderOK(u)'
  <2>1. tx'[u] = IF u = s THEN Idle ELSE tx[u]
    BY Zenon DEF Abandon, OutboxInv, OutboxTypeOK
  <2>2. CASE u = s
    BY <2>1, <2>2 DEF SenderOK, Idle
  <2>3. CASE u # s
    <3>1. \A i \in tx[u].pend : i \in Ids /\ rows[i].by \in {Committed, u}
      BY Zenon DEF OutboxInv, OutboxTypeOK, SenderOK
    <3>2. \A i \in tx[u].pend : rows'[i] = rows[i]
      BY <1>0, <2>3, <3>1, OutboxAssumption, Zenon
    <3> QED BY <2>1, <2>3, <3>2 DEF OutboxInv, SenderOK
  <2> QED BY <2>2, <2>3, Zenon
<1> QED BY <1>1, <1>2, <1>3, <1>4, <1>5, WorkersUndisturbed, Zenon DEF OutboxInv

LEMMA CrashSenderKeeps ==
  ASSUME OutboxInv, NEW s \in Senders, CrashSender(s)
  PROVE  OutboxInv'
<1>1. crashes' \in 0 .. MaxCrashes /\ crashes <= crashes'
  BY OutboxAssumption DEF OutboxInv, OutboxTypeOK, CrashSender
<1> QED BY <1>1, AbandonKeeps, Zenon DEF CrashSender

(* The INSERT: the unique index lets it through only if no row stands under *)
(* the key.                                                                 *)
LEMMA PersistKeeps ==
  ASSUME OutboxInv, NEW s \in Senders, PersistNotification(s)
  PROVE  OutboxInv'
<1> DEFINE n == Head(tx[s].todo)
<1>1. CASE Abandon(s)
  <2>1. crashes' \in 0 .. MaxCrashes /\ crashes <= crashes'
    BY OutboxAssumption DEF OutboxInv, OutboxTypeOK, PersistNotification
  <2> QED BY <1>1, <2>1, AbandonKeeps, Zenon DEF PersistNotification
<1>2. ASSUME Sees(s, n.key) = {}, ~Blocks(s, n.key),
             NEW k \in Ids, rows[k].status = "none", Proceed(s, tx[s].pend \cup {k}),
             rows' = [rows EXCEPT ![k] =
                        [NoRow EXCEPT !.key = n.key, !.chan = n.chan, !.by = s,
                                      !.status = ResolveRecipient(n)]]
      PROVE  OutboxInv'
  <2> DEFINE t == [pc |-> IF Len(tx[s].todo) = 1 THEN "open" ELSE "look",
                   todo |-> Tail(tx[s].todo), pend |-> tx[s].pend \cup {k}]
             new == [NoRow EXCEPT !.key = n.key, !.chan = n.chan, !.by = s,
                                  !.status = ResolveRecipient(n)]
  <2>1. /\ t \in TxRecord /\ tx' = [tx EXCEPT ![s] = t] /\ t.pend = tx[s].pend \cup {k}
        /\ t.pc \in {"look", "check", "insert"} => t.todo # <<>>
        /\ t.pc # "drain" /\ n \in Notification
    BY <1>2, ProceedType, ZenonT(40) DEF PersistNotification, OutboxInv, OutboxTypeOK
  <2>2. queue' = queue /\ work' = work /\ copies' = copies /\ crashes' = crashes
    BY Zenon DEF PersistNotification
  <2>3. /\ new.key = n.key /\ new.by = s /\ new.status \in {"queued", "suppressed"}
        /\ new.sent = 0 /\ new.failed = 0 /\ new \in NotificationOutbox
    BY <2>1, Zenon DEF NoRow, ResolveRecipient, NotificationOutbox, Notification, RowStatuses
  <2>4. rows' = [rows EXCEPT ![k] = new]
    BY <1>2, Zenon
  <2> HIDE DEF t, new, n
  <2>5. OutboxTypeOK'
    BY <2>1, <2>2, <2>3, <2>4, Zenon DEF OutboxInv, OutboxTypeOK, TxRecord
  <2>6. \A i \in Ids : rows'[i] = IF i = k THEN new ELSE rows[i]
    BY <2>4, Zenon DEF OutboxInv, OutboxTypeOK
  <2>7. \A i \in Ids : OnFile(i) => rows'[i] = rows[i]
    BY <1>2, <2>6, Zenon DEF OnFile
  <2>8. KeysOK'
    <3>1. \A i \in Ids : ~Standing(i, new.key)
      BY <1>2, <2>3, Zenon DEF Sees, Blocks
    <3>2. ~Standing(k, new.key) /\ \A i \in Ids : \A v : i # k => Standing(i, v)' = Standing(i, v)
      BY <2>6, <3>1, Zenon DEF Standing
    <3> SUFFICES ASSUME NEW i \in Ids, NEW j \in Ids, Standing(i, rows[j].key)',
                        Standing(j, rows[j].key)', i # j
                 PROVE  FALSE
      BY Zenon DEF KeysOK
    <3>3. CASE i # k /\ j # k
      BY <2>6, <3>2, <3>3, Zenon DEF OutboxInv, KeysOK
    <3>4. CASE j = k
      BY <2>6, <3>1, <3>2, <3>4, Zenon
    <3>5. CASE i = k
      <4>1. rows'[j].key = new.key
        BY <2>6, <3>5, Zenon DEF Standing
      <4> QED BY <3>1, <3>2, <3>5, <4>1, Zenon
    <3> QED BY <3>3, <3>4, <3>5, Zenon
  <2>9. ASSUME NEW i \in Ids
        PROVE  RowOK(i)' /\ CopiesOK(i)'
    <3>1. /\ RowOK(i) /\ CopiesOK(i) /\ crashes \in Nat /\ MaxRetries \in Nat
      BY OutboxAssumption DEF OutboxInv, OutboxTypeOK
    <3>2. CASE i = k
      <4>1. rows'[i] = new /\ copies'[i] = 0
        BY <1>2, <2>2, <2>6, <3>1, <3>2, Zenon DEF RowOK, OnFile
      <4>2. new.by # Committed
        BY <2>3, OutboxAssumption, Zenon
      <4> QED BY <2>2, <2>3, <3>1, <4>1, <4>2, UnrecordedIs DEF RowOK, OnFile, CopiesOK
    <3>3. CASE i # k
      <4>1. rows'[i] = rows[i] /\ InHand(i)' = InHand(i)
        BY <2>2, <2>6, <3>3, Zenon DEF InHand
      <4> QED BY <2>2, <3>1, <4>1, UnrecordedIs, Zenon DEF RowOK, OnFile, CopiesOK
    <3> QED BY <3>2, <3>3, Zenon
  <2>10. ASSUME NEW u \in Senders
         PROVE  SenderOK(u)'
    <3>1. tx'[u] = IF u = s THEN t ELSE tx[u]
      BY <2>1, Zenon DEF OutboxInv, OutboxTypeOK
    <3>2. SenderOK(u) /\ tx[u].pend \subseteq Ids
      BY Zenon DEF OutboxInv, OutboxTypeOK
    <3>3. \A i \in tx[u].pend : rows'[i] = rows[i]
      BY <1>2, <2>6, <3>2, Zenon DEF SenderOK
    <3>4. CASE u = s
      BY <2>1, <2>3, <2>6, <3>1, <3>2, <3>3, <3>4 DEF SenderOK
    <3>5. CASE u # s
      BY <3>1, <3>2, <3>3, <3>5, Zenon DEF SenderOK
    <3> QED BY <3>4, <3>5, Zenon
  <2> QED BY <2>2, <2>5, <2>7, <2>8, <2>9, <2>10, WorkersUndisturbed, Zenon DEF OutboxInv
<1> QED BY <1>1, <1>2, Zenon DEF PersistNotification

(* The commit makes a transaction's rows visible, and nothing else.         *)
LEMMA CommitKeeps ==
  ASSUME OutboxInv, NEW s \in Senders, Commit(s)
  PROVE  OutboxInv'
<1>0. /\ queue' = queue /\ work' = work /\ copies' = copies /\ crashes' = crashes
      /\ rows' = [i \in Ids |-> IF rows[i].by = s THEN [rows[i] EXCEPT !.by = Committed]
                                                  ELSE rows[i]]
      /\ tx[s].pc = "open"
  BY Zenon DEF Commit
<1> DEFINE t == IF tx[s].pend = {} THEN Idle ELSE [tx[s] EXCEPT !.pc = "drain"]
<1>1. /\ t \in TxRecord /\ t.pend = tx[s].pend /\ t.pc \in {"idle", "drain"}
      /\ tx' = [tx EXCEPT ![s] = t]
  <2>1. tx \in [Senders -> TxRecord]
    BY Zenon DEF OutboxInv, OutboxTypeOK, TxRecord
  <2>2. [tx[s] EXCEPT !.pc = "drain"] \in TxRecord
    BY <2>1, Zenon DEF TxRecord, SenderSteps
  <2> QED BY <2>1, <2>2, IdleType, Zenon DEF Commit, TxRecord, Idle
<1> HIDE DEF t
<1>2. \A i \in Ids : /\ rows'[i].key = rows[i].key /\ rows'[i].chan = rows[i].chan
                     /\ rows'[i].status = rows[i].status /\ rows'[i].sent = rows[i].sent
                     /\ rows'[i].failed = rows[i].failed
                     /\ rows'[i].by = IF rows[i].by = s THEN Committed ELSE rows[i].by
                     /\ rows'[i] \in NotificationOutbox
                     /\ rows[i].by # s => rows'[i] = rows[i]
  <2> SUFFICES ASSUME NEW i \in Ids
               PROVE  /\ rows'[i].key = rows[i].key /\ rows'[i].chan = rows[i].chan
                      /\ rows'[i].status = rows[i].status /\ rows'[i].sent = rows[i].sent
                      /\ rows'[i].failed = rows[i].failed
                      /\ rows'[i].by = IF rows[i].by = s THEN Committed ELSE rows[i].by
                      /\ rows'[i] \in NotificationOutbox
                      /\ rows[i].by # s => rows'[i] = rows[i]
    BY Zenon
  <2>1. /\ rows[i] \in NotificationOutbox
        /\ rows'[i] = IF rows[i].by = s THEN [rows[i] EXCEPT !.by = Committed] ELSE rows[i]
    BY <1>0, Zenon DEF OutboxInv, OutboxTypeOK
  <2> QED BY <2>1, Zenon DEF NotificationOutbox
<1>3. OutboxTypeOK'
  BY <1>0, <1>1, <1>2, Zenon DEF OutboxInv, OutboxTypeOK, TxRecord
<1>4. \A i \in Ids : OnFile(i) => rows'[i] = rows[i]
  BY <1>2, OutboxAssumption, Zenon DEF OnFile
<1>5. KeysOK'
  <2>1. \A i \in Ids : \A v : Standing(i, v)' = Standing(i, v)
    BY <1>2, Zenon DEF Standing
  <2> QED BY <1>2, <2>1 DEF OutboxInv, KeysOK
<1>6. ASSUME NEW i \in Ids
      PROVE  RowOK(i)' /\ CopiesOK(i)'
  <2>1. RowOK(i) /\ CopiesOK(i) /\ InHand(i)' = InHand(i) /\ MaxRetries \in Nat
    BY <1>0, OutboxAssumption, Zenon DEF OutboxInv, InHand
  <2>2. CopiesOK(i)'
    BY <1>0, <1>2, <2>1, UnrecordedIs, Zenon DEF CopiesOK
  <2>3. CASE rows[i].by = s
    BY <1>0, <1>2, <2>1, <2>3, OutboxAssumption, <2>2, Zenon DEF RowOK, OnFile
  <2>4. CASE rows[i].by # s
    BY <1>0, <1>2, <2>1, <2>4, <2>2, Zenon DEF RowOK, OnFile
  <2> QED BY <2>3, <2>4, Zenon
<1>7. ASSUME NEW u \in Senders
      PROVE  SenderOK(u)'
  <2>1. tx'[u] = IF u = s THEN t ELSE tx[u]
    BY <1>1, Zenon DEF OutboxInv, OutboxTypeOK
  <2>2. SenderOK(u) /\ tx[u].pend \subseteq Ids
    BY Zenon DEF OutboxInv, OutboxTypeOK
  <2>3. CASE u = s
    BY <1>1, <1>2, <2>1, <2>2, <2>3 DEF SenderOK
  <2>4. CASE u # s
    BY <1>2, <2>1, <2>2, <2>4, OutboxAssumption, Zenon DEF SenderOK
  <2> QED BY <2>3, <2>4, Zenon
<1> QED BY <1>0, <1>3, <1>4, <1>5, <1>6, <1>7, WorkersUndisturbed, Zenon DEF OutboxInv

LEMMA DrainKeeps ==
  ASSUME OutboxInv, NEW s \in Senders, DrainPendingEnqueues(s)
  PROVE  OutboxInv'
<1>1. PICK i \in tx[s].pend :
        /\ queue' = [queue EXCEPT ![<<i, 0>>] = @ + 1]
        /\ tx' = [tx EXCEPT ![s] = IF @.pend = {i} THEN Idle ELSE [tx[s] EXCEPT !.pend = @ \ {i}]]
  BY Zenon DEF DrainPendingEnqueues
<1>2. /\ rows' = rows /\ work' = work /\ copies' = copies /\ crashes' = crashes
      /\ tx[s].pc = "drain"
  BY Zenon DEF DrainPendingEnqueues
<1>3. i \in Ids /\ OnFile(i) /\ rows[i].failed \in Nat /\ <<i, 0>> \in Messages
  BY <1>2, OutboxAssumption DEF OutboxInv, OutboxTypeOK, SenderOK, OnFile, NotificationOutbox, Messages
<1> DEFINE t == IF tx[s].pend = {i} THEN Idle ELSE [tx[s] EXCEPT !.pend = @ \ {i}]
<1>4. /\ t \in TxRecord /\ t.pend \subseteq tx[s].pend /\ t.pc \in {"idle", "drain"}
      /\ tx' = [tx EXCEPT ![s] = t]
  <2>1. tx \in [Senders -> TxRecord]
    BY Zenon DEF OutboxInv, OutboxTypeOK, TxRecord
  <2>2. tx' = [tx EXCEPT ![s] = t]
    BY <1>1, <2>1, Zenon DEF TxRecord
  <2>3. CASE t = Idle
    BY <2>2, <2>3, IdleType, Zenon DEF Idle
  <2>4. CASE t = [tx[s] EXCEPT !.pend = tx[s].pend \ {i}]
    BY <1>2, <2>1, <2>2, <2>4, Zenon DEF TxRecord
  <2> QED BY <2>3, <2>4, Zenon
<1> HIDE DEF t
<1>5. OutboxTypeOK'
  <2>1. queue' \in [Messages -> Nat]
    <3> DEFINE m == <<i, 0>>
    <3>1. m \in Messages /\ queue \in [Messages -> Nat] /\ queue' = [queue EXCEPT ![m] = @ + 1]
      BY <1>1, <1>3, Zenon DEF OutboxInv, OutboxTypeOK
    <3> HIDE DEF m
    <3> QED BY <3>1
  <2> QED BY <1>2, <1>4, <2>1, Zenon DEF OutboxInv, OutboxTypeOK, TxRecord
<1>6. ASSUME NEW m \in Messages
      PROVE  MessageOK(m)'
  <2>1. CASE m = <<i, 0>>
    <3>1. m[1] = i /\ m[2] = 0
      BY <2>1, Zenon
    <3> QED BY <1>2, <1>3, <3>1 DEF MessageOK, OnFile
  <2>2. CASE m # <<i, 0>>
    <3>1. queue'[m] = queue[m]
      BY <1>1, <2>2, Zenon DEF OutboxInv, OutboxTypeOK
    <3> QED BY <1>2, <3>1, Zenon DEF OutboxInv, MessageOK, OnFile
  <2> QED BY <2>1, <2>2, Zenon
<1>7. ASSUME NEW u \in Senders
      PROVE  SenderOK(u)'
  <2>1. tx'[u] = IF u = s THEN t ELSE tx[u]
    BY <1>4, Zenon DEF OutboxInv, OutboxTypeOK
  <2> QED BY <1>2, <1>4, <2>1 DEF OutboxInv, SenderOK
<1>8. KeysOK' /\ LocksOK'
  BY <1>2, Zenon DEF OutboxInv, KeysOK, Standing, LocksOK
<1>9. \A k \in Ids : RowOK(k)' /\ CopiesOK(k)'
  BY <1>2, ZenonT(40) DEF OutboxInv, RowOK, OnFile, CopiesOK, Unrecorded, InHand
<1>10. \A w \in Workers : WorkerOK(w)'
  BY <1>2, Zenon DEF OutboxInv, OnFile, WorkerOK
<1> QED BY <1>5, <1>6, <1>7, <1>8, <1>9, <1>10, Zenon DEF OutboxInv

-----------------------------------------------------------------------------
WorkRecord == [pc: WorkerSteps, id: Ids, tries: 0 .. MaxRetries]

(* A worker that runs a task, and what its row is like.                     *)
LEMMA Serving ==
  ASSUME OutboxInv, NEW w \in Workers, work[w].pc # "idle"
  PROVE  /\ work[w] \in WorkRecord /\ work[w].id \in Ids /\ work[w].tries \in 0 .. MaxRetries
         /\ OnFile(work[w].id) /\ rows[work[w].id].status # "suppressed"
         /\ rows[work[w].id] \in NotificationOutbox
         /\ rows[work[w].id].failed >= work[w].tries
         /\ work[w].pc \in LockSteps => rows[work[w].id].status \in {"queued", "failed", "dead"}
         /\ work[w].pc = "accepted" /\ rows[work[w].id].chan = "email" => copies[work[w].id] > 0
         /\ work[w].pc = "retry" => rows[work[w].id].failed >= work[w].tries + 1
         /\ work[w].pc = "bury" => rows[work[w].id].failed >= MaxRetries + 1
         /\ <<work[w].id, work[w].tries>> \in Messages
<1>1. work[w] \in WorkRecord /\ WorkerOK(w) /\ rows \in [Ids -> NotificationOutbox]
  BY Zenon DEF OutboxInv, OutboxTypeOK, WorkRecord
<1>2. work[w].id \in Ids /\ work[w].tries \in 0 .. MaxRetries
  BY <1>1, Zenon DEF WorkRecord
<1> QED BY <1>1, <1>2, Zenon DEF WorkerOK, Messages

(* A step that leaves the table and the senders alone.                      *)
LEMMA TablesUndisturbed ==
  ASSUME OutboxInv, rows' = rows, tx' = tx
  PROVE  /\ KeysOK' /\ \A s \in Senders : SenderOK(s)'
         /\ \A i \in Ids : copies'[i] = copies[i] => RowOK(i)'
<1>1. KeysOK'
  BY Zenon DEF OutboxInv, KeysOK, Standing
<1>2. \A s \in Senders : SenderOK(s)'
  BY Zenon DEF OutboxInv, SenderOK
<1>3. \A i \in Ids : copies'[i] = copies[i] => RowOK(i)'
  BY Zenon DEF OutboxInv, RowOK, OnFile
<1> QED BY <1>1, <1>2, <1>3, Zenon

(* A worker takes a message off the broker.                                 *)
LEMMA TakeRowKeeps ==
  ASSUME OutboxInv, NEW w \in Workers, TakeRow(w)
  PROVE  OutboxInv'
<1>1. PICK m \in Messages :
        /\ queue[m] > 0
        /\ queue' = [queue EXCEPT ![m] = @ - 1]
        /\ work' = IF Locked(m[1]) \/ Settled(rows[m[1]])
                   THEN work
                   ELSE [work EXCEPT ![w] = [pc |-> "sending", id |-> m[1], tries |-> m[2]]]
  BY Zenon DEF TakeRow
<1>2. /\ rows' = rows /\ tx' = tx /\ copies' = copies /\ crashes' = crashes
      /\ work[w].pc = "idle"
  BY Zenon DEF TakeRow
<1>3. /\ m[1] \in Ids /\ m[2] \in 0 .. MaxRetries
      /\ OnFile(m[1]) /\ rows[m[1]].failed >= m[2] /\ rows[m[1]] \in NotificationOutbox
  BY <1>1, Zenon DEF OutboxInv, OutboxTypeOK, MessageOK, Messages
<1> DEFINE x == [pc |-> "sending", id |-> m[1], tries |-> m[2]]
<1>4. x \in WorkRecord
  BY <1>3, Zenon DEF WorkRecord, WorkerSteps
<1>5. queue' \in [Messages -> Nat] /\ \A n \in Messages : queue'[n] > 0 => queue[n] > 0
  <2>1. queue \in [Messages -> Nat]
    BY Zenon DEF OutboxInv, OutboxTypeOK
  <2> QED BY <1>1, <2>1
<1>6. \A n \in Messages : MessageOK(n)'
  BY <1>2, <1>5, Zenon DEF OutboxInv, MessageOK, OnFile
<1>7. CASE work' = work
  <2>1. OutboxTypeOK'
    BY <1>2, <1>5, <1>7, Zenon DEF OutboxInv, OutboxTypeOK
  <2>2. LocksOK' /\ \A v \in Workers : WorkerOK(v)'
    BY <1>2, <1>7, Zenon DEF OutboxInv, LocksOK, WorkerOK, OnFile
  <2>3. \A i \in Ids : CopiesOK(i)'
    BY <1>2, <1>7, Zenon DEF OutboxInv, CopiesOK, Unrecorded, InHand
  <2> QED BY <1>2, <1>6, <2>1, <2>2, <2>3, TablesUndisturbed, Zenon DEF OutboxInv
<1>8. CASE ~Locked(m[1]) /\ ~Settled(rows[m[1]]) /\ work' = [work EXCEPT ![w] = x]
  <2> HIDE DEF x
  <2>0. x.pc = "sending" /\ x.id = m[1] /\ x.tries = m[2]
    BY Zenon DEF x
  <2>1. OutboxTypeOK'
    BY <1>2, <1>4, <1>5, <1>8, Zenon DEF OutboxInv, OutboxTypeOK, WorkRecord
  <2>2. \A v \in Workers : work'[v] = IF v = w THEN x ELSE work[v]
    BY <1>8, Zenon DEF OutboxInv, OutboxTypeOK
  <2>3. \A v \in Workers : work[v].pc \in LockSteps => work[v].id # m[1]
    BY <1>8, Zenon DEF Locked, LockSteps
  <2>4. LocksOK'
    BY <2>0, <2>2, <2>3 DEF OutboxInv, LocksOK
  <2>5. rows[m[1]].status \in {"queued", "failed", "dead"}
    BY <1>3, <1>8, Zenon DEF Settled, OnFile, NotificationOutbox, RowStatuses
  <2>6. WorkerOK(w)'
    BY <1>2, <1>3, <2>0, <2>2, <2>5, Zenon DEF WorkerOK, OnFile
  <2>7. ASSUME NEW v \in Workers, v # w
        PROVE  WorkerOK(v)'
    BY <1>2, <2>2, <2>7, Zenon DEF OutboxInv, WorkerOK, OnFile
  <2>8. \A i \in Ids : InHand(i)' = InHand(i)
    BY <1>2, <2>0, <2>2, Zenon DEF InHand
  <2>9. \A i \in Ids : CopiesOK(i)'
    BY <1>2, <2>8, UnrecordedIs, Zenon DEF OutboxInv, CopiesOK
  <2> QED BY <1>2, <1>6, <2>1, <2>4, <2>6, <2>7, <2>9, TablesUndisturbed, Zenon DEF OutboxInv
<1> QED BY <1>1, <1>7, <1>8, Zenon

(* The driver answers.                                                      *)
LEMMA SendKeeps ==
  ASSUME OutboxInv, NEW w \in Workers, Send(w)
  PROVE  OutboxInv'
<1>0. PICK k \in Ids : k = work[w].id
  BY Zenon DEF OutboxInv, OutboxTypeOK
<1>1. /\ rows' = rows /\ tx' = tx /\ queue' = queue /\ crashes' = crashes
      /\ work[w].pc = "sending"
  BY Zenon DEF Send
<1>2. PICK pc \in {"accepted", "refused"} :
        /\ work' = [work EXCEPT ![w].pc = pc]
        /\ copies' = IF pc = "accepted" /\ rows[k].chan = "email"
                     THEN [copies EXCEPT ![k] = @ + 1] ELSE copies
  BY <1>0, Zenon DEF Send
<1>3. k \in Ids /\ OnFile(k) /\ work[w] \in WorkRecord /\ work \in [Workers -> WorkRecord]
        /\ copies \in [Ids -> Nat] /\ crashes \in Nat /\ rows[k].sent \in Nat
  <2>1. /\ work \in [Workers -> WorkRecord] /\ copies \in [Ids -> Nat] /\ crashes \in Nat
        /\ rows[k] \in NotificationOutbox
    BY OutboxAssumption DEF OutboxInv, OutboxTypeOK, WorkRecord
  <2> QED BY <1>0, <1>1, <2>1, Serving, Zenon DEF NotificationOutbox
<1>4. \A v \in Workers : /\ work'[v].pc = IF v = w THEN pc ELSE work[v].pc
                         /\ work'[v].id = work[v].id /\ work'[v].tries = work[v].tries
  BY <1>2, <1>3, Zenon DEF WorkRecord
<1>5. /\ copies' \in [Ids -> Nat] /\ \A i \in Ids : copies'[i] >= copies[i]
      /\ \A i \in Ids : i # k => copies'[i] = copies[i]
      /\ copies'[k] <= copies[k] + IF pc = "accepted" THEN 1 ELSE 0
      /\ pc = "accepted" /\ rows[k].chan = "email" => copies'[k] > 0
  <2>1. CASE copies' = copies /\ ~(pc = "accepted" /\ rows[k].chan = "email")
    BY <1>3, <2>1
  <2>2. CASE copies' = [copies EXCEPT ![k] = @ + 1] /\ pc = "accepted"
    BY <1>3, <2>2
  <2> QED BY <1>2, <2>1, <2>2, Zenon
<1>6. OutboxTypeOK'
  <2>1. work' \in [Workers -> WorkRecord]
    BY <1>2, <1>3, Zenon DEF WorkRecord, WorkerSteps
  <2> QED BY <1>1, <1>5, <2>1, Zenon DEF OutboxInv, OutboxTypeOK, WorkRecord
<1>7. LocksOK'
  BY <1>1, <1>4 DEF OutboxInv, LocksOK, LockSteps
<1>8. \A m \in Messages : MessageOK(m)'
  BY <1>1, Zenon DEF OutboxInv, MessageOK, OnFile
<1>9. ASSUME NEW v \in Workers
      PROVE  WorkerOK(v)'
  <2>1. CASE v = w
    BY <1>0, <1>1, <1>4, <1>5, <2>1, Serving, Zenon DEF WorkerOK, OnFile, LockSteps
  <2>2. CASE v # w
    <3>1. work[v].id \in Ids /\ copies'[work[v].id] >= copies[work[v].id]
            /\ copies[work[v].id] \in Nat /\ copies'[work[v].id] \in Nat
      BY <1>3, <1>5, Zenon DEF WorkRecord
    <3> QED BY <1>1, <1>4, <2>2, <3>1 DEF OutboxInv, WorkerOK, OnFile
  <2> QED BY <2>1, <2>2, Zenon
<1>10. ASSUME NEW i \in Ids
       PROVE  CopiesOK(i)'
  <2>1. CASE i = k
    <3>1. ~InHand(k)
      BY <1>0, <1>1, Zenon DEF OutboxInv, LocksOK, InHand, LockSteps
    <3>2. pc = "accepted" => InHand(k)'
      BY <1>0, <1>4, Zenon DEF InHand
    <3>3. rows[k].failed < MaxRetries + 2 => copies[k] <= rows[k].sent + crashes
      BY <1>3, <3>1, UnrecordedIs DEF OutboxInv, CopiesOK
    <3>4. CASE pc = "accepted"
      BY <1>1, <1>3, <1>5, <2>1, <3>2, <3>3, <3>4, UnrecordedIs DEF CopiesOK
    <3>5. CASE pc = "refused"
      BY <1>1, <1>3, <1>5, <2>1, <3>3, <3>5, UnrecordedIs DEF CopiesOK
    <3> QED BY <1>2, <3>4, <3>5, Zenon
  <2>2. CASE i # k
    <3>1. InHand(i)' = InHand(i)
      BY <1>0, <1>1, <1>4, <2>2, Zenon DEF InHand
    <3> QED BY <1>1, <1>5, <2>2, <3>1, UnrecordedIs, Zenon DEF OutboxInv, CopiesOK
  <2> QED BY <2>1, <2>2, Zenon
<1>11. ASSUME NEW i \in Ids
       PROVE  RowOK(i)'
  <2>1. CASE i = k
    BY <1>1, <1>3, <2>1, Zenon DEF OutboxInv, RowOK, OnFile
  <2>2. CASE i # k
    BY <1>1, <1>5, <2>2, TablesUndisturbed, Zenon
  <2> QED BY <2>1, <2>2, Zenon
<1> QED BY <1>1, <1>6, <1>7, <1>8, <1>9, <1>10, <1>11, TablesUndisturbed, Zenon DEF OutboxInv

(* A worker goes on to a step in which it holds no lock.                    *)
LEMMA LetsGo ==
  ASSUME OutboxInv, NEW w \in Workers, NEW x \in WorkRecord, x.pc \notin LockSteps,
         work' = [work EXCEPT ![w] = x]
  PROVE  /\ work' \in [Workers -> WorkRecord] /\ LocksOK'
         /\ \A v \in Workers : work'[v] = IF v = w THEN x ELSE work[v]
         /\ \A i \in Ids : (work[w].pc # "accepted" \/ i # work[w].id) => InHand(i)' = InHand(i)
<1>1. work \in [Workers -> WorkRecord]
  BY Zenon DEF OutboxInv, OutboxTypeOK, WorkRecord
<1>2. \A v \in Workers : work'[v] = IF v = w THEN x ELSE work[v]
  BY <1>1, Zenon
<1>3. LocksOK'
  BY <1>2 DEF OutboxInv, LocksOK
<1>4. \A i \in Ids : (work[w].pc # "accepted" \/ i # work[w].id) => InHand(i)' = InHand(i)
  BY <1>2, Zenon DEF InHand, LockSteps
<1> QED BY <1>1, <1>2, <1>3, <1>4, Zenon

(* A message is put on the broker for a row with enough failures.           *)
LEMMA Publishes ==
  ASSUME OutboxInv, NEW i \in Ids, NEW t \in 0 .. MaxRetries, OnFile(i), rows[i].failed >= t,
         queue' = [queue EXCEPT ![<<i, t>>] = @ + 1], rows' = rows
  PROVE  queue' \in [Messages -> Nat] /\ \A m \in Messages : MessageOK(m)'
<1> DEFINE n == <<i, t>>
<1>1. /\ n \in Messages /\ queue \in [Messages -> Nat] /\ queue' = [queue EXCEPT ![n] = @ + 1]
      /\ n[1] = i /\ n[2] = t
  BY Zenon DEF OutboxInv, OutboxTypeOK, Messages
<1> HIDE DEF n
<1>2. queue' \in [Messages -> Nat]
  BY <1>1
<1>3. ASSUME NEW m \in Messages
      PROVE  MessageOK(m)'
  <2>1. CASE m = n
    BY <1>1, <2>1, Zenon DEF MessageOK, OnFile
  <2>2. CASE m # n
    <3>1. queue'[m] = queue[m]
      BY <1>1, <2>2, Zenon
    <3> QED BY <3>1, Zenon DEF OutboxInv, MessageOK, OnFile
  <2> QED BY <2>1, <2>2, Zenon
<1> QED BY <1>2, <1>3, Zenon

(* Retry, acknowledgement and the death of a worker touch no row: what is   *)
(* left to show is that the worker's new step suits its row, and that a     *)
(* copy that goes unrecorded is paid for by a crash.                        *)
LEMMA WorkerMovesOn ==
  ASSUME OutboxInv, NEW w \in Workers, work[w].pc # "idle",
         NEW x \in WorkRecord, x.pc \notin LockSteps, work' = [work EXCEPT ![w] = x],
         x.pc # "idle" => /\ x.id = work[w].id /\ x.tries = work[w].tries
                          /\ x.pc # "retry"
                          /\ x.pc = "bury" => rows[work[w].id].failed >= MaxRetries + 1,
         rows' = rows, tx' = tx, copies' = copies,
         queue' \in [Messages -> Nat], \A m \in Messages : MessageOK(m)',
         crashes' \in 0 .. MaxCrashes, crashes <= crashes',
         work[w].pc = "accepted" => crashes' = crashes + 1
  PROVE  OutboxInv'
<1>1. /\ work' \in [Workers -> WorkRecord] /\ LocksOK'
      /\ \A v \in Workers : work'[v] = IF v = w THEN x ELSE work[v]
      /\ \A i \in Ids : (work[w].pc # "accepted" \/ i # work[w].id) => InHand(i)' = InHand(i)
  BY LetsGo, Zenon
<1>2. OutboxTypeOK'
  BY <1>1, Zenon DEF OutboxInv, OutboxTypeOK, WorkRecord
<1>3. ASSUME NEW v \in Workers
      PROVE  WorkerOK(v)'
  <2>1. CASE v = w
    BY <1>1, <2>1, Serving, Zenon DEF WorkerOK, OnFile, LockSteps
  <2>2. CASE v # w
    BY <1>1, <2>2, Zenon DEF OutboxInv, WorkerOK, OnFile
  <2> QED BY <2>1, <2>2, Zenon
<1>4. ASSUME NEW i \in Ids
      PROVE  CopiesOK(i)'
  <2>1. /\ CopiesOK(i) /\ crashes \in Nat /\ crashes' \in Nat /\ copies[i] \in Nat
        /\ rows[i].sent \in Nat
    BY OutboxAssumption DEF OutboxInv, OutboxTypeOK, NotificationOutbox
  <2>2. CASE work[w].pc = "accepted" /\ i = work[w].id
    <3>1. InHand(i)
      BY <2>2, Zenon DEF InHand
    <3> QED BY <2>1, <2>2, <3>1, UnrecordedIs DEF CopiesOK
  <2>3. CASE work[w].pc # "accepted" \/ i # work[w].id
    BY <1>1, <2>1, <2>3, UnrecordedIs DEF CopiesOK
  <2> QED BY <2>2, <2>3, Zenon
<1> QED BY <1>1, <1>2, <1>3, <1>4, TablesUndisturbed, Zenon DEF OutboxInv

LEMMA QueueUndisturbed ==
  ASSUME OutboxInv, rows' = rows, queue' = queue
  PROVE  queue' \in [Messages -> Nat] /\ \A m \in Messages : MessageOK(m)'
BY Zenon DEF OutboxInv, OutboxTypeOK, MessageOK, OnFile

LEMMA CrashesType ==
  ASSUME OutboxInv
  PROVE  crashes \in 0 .. MaxCrashes /\ crashes \in Nat /\ MaxRetries \in Nat /\ MaxCrashes \in Nat
BY OutboxAssumption DEF OutboxInv, OutboxTypeOK

LEMMA AcknowledgeKeeps ==
  ASSUME OutboxInv, NEW w \in Workers, Acknowledge(w)
  PROVE  OutboxInv'
<1>1. /\ Free \in WorkRecord /\ Free.pc = "idle" /\ "idle" \notin LockSteps
      /\ crashes \in 0 .. MaxCrashes /\ crashes <= crashes
  BY FreeType, CrashesType DEF WorkRecord, Free, LockSteps
<1>2. /\ rows' = rows /\ tx' = tx /\ queue' = queue /\ copies' = copies /\ crashes' = crashes
      /\ work[w].pc = "acking" /\ work' = [work EXCEPT ![w] = Free]
  BY Zenon DEF Acknowledge
<1>3. queue' \in [Messages -> Nat] /\ \A m \in Messages : MessageOK(m)'
  BY <1>2, QueueUndisturbed, Zenon
<1> QED BY <1>1, <1>2, <1>3, WorkerMovesOn, Zenon

LEMMA CrashWorkerKeeps ==
  ASSUME OutboxInv, NEW w \in Workers, CrashWorker(w)
  PROVE  OutboxInv'
<1>1. Free \in WorkRecord /\ Free.pc = "idle" /\ "idle" \notin LockSteps
  BY FreeType, Zenon DEF WorkRecord, Free, LockSteps
<1>2. /\ rows' = rows /\ tx' = tx /\ copies' = copies /\ crashes' = crashes + 1
      /\ work[w].pc # "idle" /\ work' = [work EXCEPT ![w] = Free]
      /\ queue' = [queue EXCEPT ![<<work[w].id, work[w].tries>>] = @ + 1]
      /\ crashes < MaxCrashes
  BY Zenon DEF CrashWorker
<1>3. queue' \in [Messages -> Nat] /\ \A m \in Messages : MessageOK(m)'
  BY <1>2, Serving, Publishes, Zenon
<1>4. crashes' \in 0 .. MaxCrashes /\ crashes <= crashes'
  BY <1>2, CrashesType
<1> QED BY <1>1, <1>2, <1>3, <1>4, WorkerMovesOn, Zenon

LEMMA RetryKeeps ==
  ASSUME OutboxInv, NEW w \in Workers, Retry(w)
  PROVE  OutboxInv'
<1>1. /\ rows' = rows /\ tx' = tx /\ copies' = copies /\ crashes' = crashes
      /\ work[w].pc = "retry"
  BY Zenon DEF Retry
<1>2. /\ crashes' \in 0 .. MaxCrashes /\ crashes <= crashes'
      /\ work \in [Workers -> WorkRecord] /\ work[w] \in WorkRecord
      /\ work[w].tries \in Nat /\ MaxRetries \in Nat
  BY <1>1, CrashesType DEF OutboxInv, OutboxTypeOK, WorkRecord
<1>3. ASSUME NEW pc \in {"acking", "bury"}, work' = [work EXCEPT ![w].pc = pc],
             pc = "bury" => work[w].tries = MaxRetries,
             queue' \in [Messages -> Nat], \A m \in Messages : MessageOK(m)'
      PROVE  OutboxInv'
  <2> DEFINE x == [work[w] EXCEPT !.pc = pc]
  <2>1. /\ x \in WorkRecord /\ x.pc = pc /\ x.id = work[w].id /\ x.tries = work[w].tries
        /\ work' = [work EXCEPT ![w] = x]
    BY <1>2, <1>3, Zenon DEF WorkRecord, WorkerSteps
  <2>2. x.pc \notin LockSteps /\ x.pc # "retry"
    BY <2>1, Zenon DEF LockSteps
  <2>3. pc = "bury" => rows[work[w].id].failed >= MaxRetries + 1
    BY <1>1, <1>3, Serving, Zenon
  <2> HIDE DEF x
  <2> QED BY <1>1, <1>2, <1>3, <2>1, <2>2, <2>3, WorkerMovesOn, Zenon
<1>4. CASE /\ work[w].tries < MaxRetries
           /\ queue' = [queue EXCEPT ![<<work[w].id, work[w].tries + 1>>] = @ + 1]
           /\ work' = [work EXCEPT ![w].pc = "acking"]
  <2>1. PICK t \in 0 .. MaxRetries : t = work[w].tries + 1
    BY <1>2, <1>4
  <2>2. /\ work[w].id \in Ids /\ OnFile(work[w].id) /\ rows[work[w].id].failed >= t
        /\ queue' = [queue EXCEPT ![<<work[w].id, t>>] = @ + 1]
    BY <1>1, <1>4, <2>1, Serving, Zenon
  <2>3. queue' \in [Messages -> Nat] /\ \A m \in Messages : MessageOK(m)'
    BY <1>1, <2>2, Publishes, Zenon
  <2> QED BY <1>3, <1>4, <2>3, Zenon
<1>5. CASE /\ work[w].tries = MaxRetries /\ queue' = queue
           /\ work' = [work EXCEPT ![w].pc = "bury"]
  <2>1. queue' \in [Messages -> Nat] /\ \A m \in Messages : MessageOK(m)'
    BY <1>1, <1>5, QueueUndisturbed, Zenon
  <2> QED BY <1>3, <1>5, <2>1, Zenon
<1>6. CASE queue' = queue /\ work' = [work EXCEPT ![w] = Free]
  <2>1. Free \in WorkRecord /\ Free.pc = "idle" /\ "idle" \notin LockSteps
    BY FreeType, Zenon DEF WorkRecord, Free, LockSteps
  <2>2. queue' \in [Messages -> Nat] /\ \A m \in Messages : MessageOK(m)'
    BY <1>1, <1>6, QueueUndisturbed, Zenon
  <2> QED BY <1>1, <1>2, <1>6, <2>1, <2>2, WorkerMovesOn, Zenon
<1> QED BY <1>4, <1>5, <1>6, Zenon DEF Retry

(* A worker writes the outcome onto its row, which no other worker holds,   *)
(* and lets go of it.                                                       *)
LEMMA OutcomeWritten ==
  ASSUME OutboxInv, NEW w \in Workers, work[w].pc # "idle",
         NEW k \in Ids, k = work[w].id,
         \A v \in Workers : v # w /\ work[v].pc \in LockSteps => work[v].id # k,
         NEW r \in NotificationOutbox, rows' = [rows EXCEPT ![k] = r],
         r.key = rows[k].key, r.chan = rows[k].chan, r.by = Committed,
         r.status \in {"sent", "failed", "dead"}, r.failed >= rows[k].failed,
         r.status # "dead" => \A j \in Ids \ {k} : ~Standing(j, rows[k].key),
         r.status = "dead" => r.failed >= MaxRetries + 2,
         r.failed < MaxRetries + 2 => /\ r.sent = 0 \/ (r.sent = 1 /\ r.status = "sent")
                                      /\ copies[k] <= r.sent + crashes,
         NEW x \in WorkRecord, x.pc \notin LockSteps, work' = [work EXCEPT ![w] = x],
         x.pc # "idle" => /\ x.id = k /\ x.tries = work[w].tries /\ x.pc = "retry"
                          /\ r.failed >= work[w].tries + 1,
         tx' = tx, queue' = queue, copies' = copies, crashes' = crashes
  PROVE  OutboxInv'
<1>1. /\ work' \in [Workers -> WorkRecord] /\ LocksOK'
      /\ \A v \in Workers : work'[v] = IF v = w THEN x ELSE work[v]
      /\ \A i \in Ids : (work[w].pc # "accepted" \/ i # work[w].id) => InHand(i)' = InHand(i)
  BY LetsGo, Zenon
<1>2. \A i \in Ids : rows'[i] = IF i = k THEN r ELSE rows[i]
  BY Zenon DEF OutboxInv, OutboxTypeOK
<1>3. OutboxTypeOK'
  BY <1>1, Zenon DEF OutboxInv, OutboxTypeOK, WorkRecord
<1>4. OnFile(k) /\ OnFile(k)' /\ rows[k].status # "suppressed" /\ rows[k] \in NotificationOutbox
  BY <1>2, Serving, Zenon DEF OnFile
<1>5. KeysOK'
  <2> SUFFICES ASSUME NEW i \in Ids, NEW j \in Ids, i # j, Standing(i, rows[j].key)',
                      Standing(j, rows[j].key)'
               PROVE  FALSE
    BY Zenon DEF KeysOK
  <2>1. /\ rows'[j].key = rows[j].key /\ rows'[i].key = rows[i].key
        /\ rows[i].key = rows[j].key /\ rows[i].key # NoKey
    <3>1. rows'[j].key = rows[j].key /\ rows'[i].key = rows[i].key
      BY <1>2, Zenon
    <3>2. rows'[i].key = rows'[j].key /\ rows'[i].key # NoKey
      BY Zenon DEF Standing
    <3> QED BY <3>1, <3>2, Zenon
  <2>2. CASE i # k /\ j # k
    BY <1>2, <2>1, <2>2, ZenonT(40) DEF OutboxInv, KeysOK, Standing
  <2>3. CASE i = k
    BY <1>2, <2>1, <2>3, ZenonT(40) DEF Standing
  <2>4. CASE j = k
    BY <1>2, <2>1, <2>4, ZenonT(40) DEF Standing
  <2> QED BY <2>2, <2>3, <2>4, Zenon
<1>6. ASSUME NEW i \in Ids
      PROVE  RowOK(i)' /\ CopiesOK(i)'
  <2>1. CASE i = k
    <3>1. /\ crashes \in Nat /\ MaxRetries \in Nat /\ copies[k] \in Nat /\ r.sent \in Nat
          /\ r.failed \in Nat
      BY CrashesType, Zenon DEF OutboxInv, OutboxTypeOK, NotificationOutbox
    <3>2. RowOK(i)'
      BY <1>2, <1>4, <2>1, <3>1, Zenon DEF RowOK
    <3>3. CopiesOK(i)'
      BY <1>2, <2>1, <3>1, UnrecordedIs DEF CopiesOK
    <3> QED BY <3>2, <3>3, Zenon
  <2>2. CASE i # k
    <3>1. rows'[i] = rows[i] /\ InHand(i)' = InHand(i)
      BY <1>1, <1>2, <2>2, Zenon
    <3>2. RowOK(i) /\ CopiesOK(i) /\ Unrecorded(i)' = Unrecorded(i)
      BY <3>1, UnrecordedIs, Zenon DEF OutboxInv
    <3>3. RowOK(i)'
      BY <3>1, <3>2, Zenon DEF RowOK, OnFile
    <3>4. CopiesOK(i)'
      BY <3>1, <3>2, Zenon DEF CopiesOK
    <3> QED BY <3>3, <3>4, Zenon
  <2> QED BY <2>1, <2>2, Zenon
<1>7. \A s \in Senders : SenderOK(s)'
  <2> SUFFICES ASSUME NEW s \in Senders
               PROVE  SenderOK(s)'
    BY Zenon
  <2>1. SenderOK(s) /\ tx[s].pend \subseteq Ids
    BY Zenon DEF OutboxInv, OutboxTypeOK
  <2> QED BY <1>2, <2>1 DEF SenderOK
<1>8. ASSUME NEW m \in Messages
      PROVE  MessageOK(m)'
  <2>1. MessageOK(m) /\ m[1] \in Ids /\ m[2] \in Nat /\ rows[m[1]].failed \in Nat
          /\ rows'[m[1]].failed \in Nat
    <3>1. MaxRetries \in Nat
      BY CrashesType, Zenon
    <3>2. m[1] \in Ids /\ m[2] \in Nat
      BY ONLY <3>1, m \in Messages DEF Messages
    <3>3. MessageOK(m) /\ rows[m[1]] \in NotificationOutbox /\ rows'[m[1]] \in NotificationOutbox
      BY <1>2, <3>2, Zenon DEF OutboxInv, OutboxTypeOK
    <3> QED BY <3>2, <3>3, Zenon DEF NotificationOutbox
  <2>2. CASE m[1] = k
    <3>1. OnFile(m[1])' /\ rows'[m[1]].failed >= rows[m[1]].failed
      BY <1>2, <1>4, <2>2, Zenon
    <3>2. queue[m] > 0 => rows[m[1]].failed >= m[2]
      BY <2>1, Zenon DEF MessageOK
    <3>3. queue[m] > 0 => rows'[m[1]].failed >= m[2]
      BY ONLY <2>1, <3>1, <3>2
    <3> QED BY <3>1, <3>3, Zenon DEF MessageOK
  <2>3. CASE m[1] # k
    BY <1>2, <2>1, <2>3, Zenon DEF MessageOK, OnFile
  <2> QED BY <2>2, <2>3, Zenon
<1>9. ASSUME NEW v \in Workers
      PROVE  WorkerOK(v)'
  <2>1. CASE v = w
    <3>1. r.failed \in Nat /\ rows[k].failed \in Nat /\ work[w].tries \in Nat
            /\ rows[k].failed >= work[w].tries
      <4>1. MaxRetries \in Nat /\ work[w].tries \in 0 .. MaxRetries /\ rows[k].failed >= work[w].tries
        BY CrashesType, Serving, Zenon
      <4>2. r.failed \in Nat /\ rows[k].failed \in Nat
        BY <1>4, Zenon DEF NotificationOutbox
      <4> QED BY ONLY <4>1, <4>2
    <3>2. work'[v] = x /\ rows'[k] = r
      BY <1>1, <1>2, <2>1, Zenon
    <3>3. CASE x.pc = "idle"
      BY <3>2, <3>3, Zenon DEF WorkerOK
    <3>4. CASE x.pc # "idle"
      <4>1. /\ x.id = k /\ x.tries = work[w].tries /\ x.pc = "retry"
            /\ r.failed >= work[w].tries + 1
        BY <3>4, Zenon
      <4>2. r.failed >= work[w].tries
        BY ONLY <3>1, <4>1
      <4> QED BY <1>4, <3>2, <4>1, <4>2, Zenon DEF WorkerOK, LockSteps
    <3> QED BY <3>3, <3>4, Zenon
  <2>2. CASE v # w /\ work[v].id # k
    <3>1. work[v].id \in Ids
      BY Zenon DEF OutboxInv, OutboxTypeOK
    <3>2. work'[v] = work[v] /\ rows'[work[v].id] = rows[work[v].id]
      BY <1>1, <1>2, <2>2, <3>1, Zenon
    <3>3. WorkerOK(v)
      BY Zenon DEF OutboxInv
    <3> QED BY <3>2, <3>3, Zenon DEF WorkerOK, OnFile
  <2>3. CASE v # w /\ work[v].id = k /\ work[v].pc # "idle"
    <3>1. /\ r.failed \in Nat /\ rows[k].failed \in Nat /\ work[v].tries \in Nat
          /\ MaxRetries \in Nat
      <4>1. MaxRetries \in Nat /\ work[v].tries \in 0 .. MaxRetries
        BY <2>3, CrashesType, Serving, Zenon
      <4>2. r.failed \in Nat /\ rows[k].failed \in Nat
        BY <1>4, Zenon DEF NotificationOutbox
      <4> QED BY ONLY <4>1, <4>2
    <3>2. work[v].pc \notin LockSteps
      BY <2>3, Zenon
    <3>3. /\ rows[k].failed >= work[v].tries
          /\ work[v].pc = "retry" => rows[k].failed >= work[v].tries + 1
          /\ work[v].pc = "bury" => rows[k].failed >= MaxRetries + 1
      BY <2>3, Serving, Zenon
    <3>4. /\ r.failed >= work[v].tries
          /\ work[v].pc = "retry" => r.failed >= work[v].tries + 1
          /\ work[v].pc = "bury" => r.failed >= MaxRetries + 1
      BY <3>1, <3>3
    <3>5. work'[v] = work[v] /\ rows'[k] = r
      BY <1>1, <1>2, <2>3, Zenon
    <3> QED BY <1>4, <2>3, <3>2, <3>4, <3>5, Zenon DEF WorkerOK, LockSteps
  <2>4. CASE v # w /\ work[v].pc = "idle"
    BY <1>1, <2>4, Zenon DEF WorkerOK
  <2> QED BY <2>1, <2>2, <2>3, <2>4, Zenon
<1> QED BY <1>1, <1>3, <1>5, <1>6, <1>7, <1>8, <1>9, Zenon DEF OutboxInv

(* What holding the lock gives: no other worker has the row, and only a     *)
(* given-up row may have been sent before.                                  *)
LEMMA Holding ==
  ASSUME OutboxInv, NEW w \in Workers, work[w].pc \in LockSteps
  PROVE  /\ \A v \in Workers : v # w /\ work[v].pc \in LockSteps => work[v].id # work[w].id
         /\ rows[work[w].id].failed < MaxRetries + 2 =>
              /\ rows[work[w].id].status # "dead" /\ rows[work[w].id].sent = 0
              /\ copies[work[w].id] <= crashes + (IF work[w].pc = "accepted" THEN 1 ELSE 0)
<1>1. \A v \in Workers : v # w /\ work[v].pc \in LockSteps => work[v].id # work[w].id
  BY Zenon DEF OutboxInv, LocksOK
<1>2. PICK k \in Ids : k = work[w].id
  BY Zenon DEF OutboxInv, OutboxTypeOK
<1>3. /\ RowOK(k) /\ CopiesOK(k) /\ rows[k].status \in {"queued", "failed", "dead"}
      /\ copies[k] \in Nat /\ crashes \in Nat /\ MaxRetries \in Nat /\ rows[k].failed \in Nat
  BY <1>2, Serving, CrashesType, Zenon DEF OutboxInv, OutboxTypeOK, LockSteps, NotificationOutbox
<1>4. rows[k].failed < MaxRetries + 2 => rows[k].status # "dead" /\ rows[k].sent = 0
  BY <1>3 DEF RowOK
<1>5. CASE work[w].pc = "accepted"
  <2>1. InHand(k)
    BY <1>2, <1>5, Zenon DEF InHand
  <2> QED BY <1>1, <1>2, <1>3, <1>4, <1>5, <2>1, UnrecordedIs DEF CopiesOK
<1>6. CASE work[w].pc # "accepted"
  <2>1. ~InHand(k)
    BY <1>1, <1>2, <1>6, Zenon DEF InHand, LockSteps
  <2> QED BY <1>1, <1>2, <1>3, <1>4, <1>6, <2>1, UnrecordedIs DEF CopiesOK
<1> QED BY <1>5, <1>6, Zenon

(* No other row stands under the key of a row that is written without a     *)
(* clash.                                                                   *)
LEMMA NoClash ==
  ASSUME OutboxInv, NEW k \in Ids, rows[k].status \in {"queued", "failed", "dead"}, ~Clashes(k)
  PROVE  \A j \in Ids \ {k} : ~Standing(j, rows[k].key)
<1>1. CASE rows[k].status = "dead"
  BY <1>1, Zenon DEF Clashes
<1>2. CASE rows[k].status # "dead"
  BY <1>2, Zenon DEF OutboxInv, KeysOK, Standing
<1> QED BY <1>1, <1>2, Zenon

LEMMA CommitSentKeeps ==
  ASSUME OutboxInv, NEW w \in Workers, CommitSent(w)
  PROVE  OutboxInv'
<1>1. PICK k \in Ids : k = work[w].id
  BY Zenon DEF OutboxInv, OutboxTypeOK
<1>2. /\ work[w].pc = "accepted" /\ work[w].pc \in LockSteps
      /\ rows' = IF Clashes(k) THEN rows
                 ELSE [rows EXCEPT ![k].status = "sent", ![k].attempts = @ + 1,
                                   ![k].sent = @ + 1]
      /\ work' = [work EXCEPT ![w] = Free]
      /\ tx' = tx /\ queue' = queue /\ copies' = copies /\ crashes' = crashes
  BY <1>1, Zenon DEF CommitSent, LockSteps
<1>3. PICK x \in WorkRecord : /\ x.pc = "idle" /\ x.pc \notin LockSteps
                              /\ work' = [work EXCEPT ![w] = x]
  BY <1>2, FreeType, Zenon DEF WorkRecord, Free, LockSteps
<1>4. /\ rows[k] \in NotificationOutbox /\ OnFile(k)
      /\ rows[k].status \in {"queued", "failed", "dead"}
  BY <1>1, <1>2, Serving, Zenon
<1>5. CASE Clashes(k)
  <2>1. rows[k].failed >= MaxRetries + 2
    BY <1>5, Zenon DEF Clashes, OutboxInv, RowOK
  <2>2. rows' = rows
    BY <1>2, <1>5, Zenon
  <2>3. PICK r \in NotificationOutbox : r = rows[k]
    BY <1>4, Zenon
  <2>4. rows' = [rows EXCEPT ![k] = r]
    BY <2>2, <2>3, Zenon DEF OutboxInv, OutboxTypeOK
  <2>5. /\ r.by = Committed /\ r.status = "dead" /\ r.failed >= MaxRetries + 2
        /\ r.failed \in Nat /\ MaxRetries \in Nat
    BY <1>4, <1>5, <2>1, <2>3, CrashesType, Zenon DEF Clashes, OnFile, NotificationOutbox
  <2>6. /\ ~(r.failed < MaxRetries + 2) /\ r.failed >= rows[k].failed
        /\ r.key = rows[k].key /\ r.chan = rows[k].chan
    BY <2>3, <2>5
  <2>7. \A v \in Workers : v # w /\ work[v].pc \in LockSteps => work[v].id # k
    BY <1>1, <1>2, Holding, Zenon
  <2>8. /\ work[w].pc # "idle" /\ k = work[w].id
        /\ tx' = tx /\ queue' = queue /\ copies' = copies /\ crashes' = crashes
    BY <1>1, <1>2, Zenon
  <2> QED BY ONLY OutboxInv, w \in Workers, k \in Ids, x \in WorkRecord, r \in NotificationOutbox,
                 <1>3, <2>4, <2>5, <2>6, <2>7, <2>8, OutcomeWritten, Zenon
<1>6. CASE ~Clashes(k)
  <2> DEFINE r == [rows[k] EXCEPT !.status = "sent", !.attempts = @ + 1, !.sent = @ + 1]
  <2>1. /\ r \in NotificationOutbox /\ r.key = rows[k].key /\ r.chan = rows[k].chan
        /\ r.by = rows[k].by /\ r.status = "sent" /\ r.failed = rows[k].failed
        /\ r.failed \in Nat /\ r.sent = rows[k].sent + 1
    <3>1. rows[k].attempts \in Nat /\ rows[k].sent \in Nat /\ rows[k].failed \in Nat
      BY <1>4, Zenon DEF NotificationOutbox
    <3>2. PICK a \in Nat, b \in Nat : a = rows[k].attempts + 1 /\ b = rows[k].sent + 1
      BY <3>1
    <3>3. r = [rows[k] EXCEPT !.status = "sent", !.attempts = a, !.sent = b]
      BY <3>2, Zenon
    <3> QED BY <1>4, <3>1, <3>2, <3>3, Zenon DEF NotificationOutbox, RowStatuses
  <2>2. rows' = [rows EXCEPT ![k] = r]
    BY <1>2, <1>6, Zenon DEF OutboxInv, OutboxTypeOK
  <2> HIDE DEF r
  <2>3. r.by = Committed /\ r.failed >= rows[k].failed /\ r.status # "dead"
    BY <1>4, <2>1 DEF OnFile
  <2>4. r.failed < MaxRetries + 2 => r.sent = 1 /\ copies[k] <= r.sent + crashes
    <3>1. rows[k].failed < MaxRetries + 2 => rows[k].sent = 0 /\ copies[k] <= crashes + 1
      BY <1>1, <1>2, Holding, Zenon
    <3>2. crashes \in Nat
      BY CrashesType, Zenon
    <3> QED BY <2>1, <3>1, <3>2
  <2>5. \A v \in Workers : v # w /\ work[v].pc \in LockSteps => work[v].id # k
    BY <1>1, <1>2, Holding, Zenon
  <2>6. \A j \in Ids \ {k} : ~Standing(j, rows[k].key)
    BY <1>4, <1>6, NoClash, Zenon
  <2>7. /\ work[w].pc # "idle" /\ k = work[w].id
        /\ tx' = tx /\ queue' = queue /\ copies' = copies /\ crashes' = crashes
    BY <1>1, <1>2, Zenon
  <2> QED BY ONLY OutboxInv, w \in Workers, k \in Ids, x \in WorkRecord,
                 <1>3, <2>1, <2>2, <2>3, <2>4, <2>5, <2>6, <2>7, OutcomeWritten, Zenon
<1> QED BY <1>5, <1>6, Zenon

LEMMA CommitFailedKeeps ==
  ASSUME OutboxInv, NEW w \in Workers, CommitFailed(w)
  PROVE  OutboxInv'
<1>1. PICK k \in Ids : k = work[w].id
  BY Zenon DEF OutboxInv, OutboxTypeOK
<1>2. /\ work[w].pc = "refused" /\ work[w].pc \in LockSteps
      /\ tx' = tx /\ queue' = queue /\ copies' = copies /\ crashes' = crashes
  BY Zenon DEF CommitFailed, LockSteps
<1>3. /\ rows[k] \in NotificationOutbox /\ OnFile(k)
      /\ rows[k].status \in {"queued", "failed", "dead"}
      /\ work[w] \in WorkRecord /\ work \in [Workers -> WorkRecord]
      /\ rows[k].failed >= work[w].tries /\ work[w].tries \in 0 .. MaxRetries
  BY <1>1, <1>2, Serving, Zenon DEF OutboxInv, OutboxTypeOK, WorkRecord
<1>4. CASE Clashes(k)
  <2>1. Free \in WorkRecord /\ Free.pc = "idle" /\ "idle" \notin LockSteps
    BY FreeType, Zenon DEF WorkRecord, Free, LockSteps
  <2>2. rows' = rows /\ work' = [work EXCEPT ![w] = Free]
    BY <1>1, <1>4, Zenon DEF CommitFailed
  <2>3. /\ queue' \in [Messages -> Nat] /\ \A m \in Messages : MessageOK(m)'
        /\ crashes' \in 0 .. MaxCrashes /\ crashes <= crashes'
    BY <1>2, <2>2, QueueUndisturbed, CrashesType
  <2> QED BY <1>2, <2>1, <2>2, <2>3, WorkerMovesOn, Zenon
<1>5. CASE ~Clashes(k)
  <2> DEFINE r == [rows[k] EXCEPT !.status = "failed", !.attempts = @ + 1, !.failed = @ + 1]
             x == [work[w] EXCEPT !.pc = "retry"]
  <2>1. /\ r \in NotificationOutbox /\ r.key = rows[k].key /\ r.chan = rows[k].chan
        /\ r.by = rows[k].by /\ r.status = "failed" /\ r.failed = rows[k].failed + 1
        /\ rows[k].failed \in Nat /\ r.sent = rows[k].sent
    <3>1. rows[k].attempts \in Nat /\ rows[k].sent \in Nat /\ rows[k].failed \in Nat
      BY <1>3, Zenon DEF NotificationOutbox
    <3>2. PICK a \in Nat, b \in Nat : a = rows[k].attempts + 1 /\ b = rows[k].failed + 1
      BY <3>1
    <3>3. r = [rows[k] EXCEPT !.status = "failed", !.attempts = a, !.failed = b]
      BY <3>2, Zenon
    <3> QED BY <1>3, <3>1, <3>2, <3>3, Zenon DEF NotificationOutbox, RowStatuses
  <2>2. rows' = [rows EXCEPT ![k] = r] /\ work' = [work EXCEPT ![w] = x]
    BY <1>1, <1>5, Zenon DEF CommitFailed, OutboxInv, OutboxTypeOK
  <2>3. /\ x \in WorkRecord /\ x.pc = "retry" /\ "retry" \notin LockSteps
        /\ x.id = k /\ x.tries = work[w].tries
    BY <1>1, <1>3, Zenon DEF WorkRecord, WorkerSteps, LockSteps
  <2> HIDE DEF r, x
  <2>4. MaxRetries \in Nat /\ crashes \in Nat
    BY CrashesType, Zenon
  <2>5. /\ r.by = Committed /\ r.failed >= rows[k].failed /\ r.status # "dead"
        /\ r.failed >= work[w].tries + 1
    BY <1>3, <2>1, <2>4 DEF OnFile
  <2>6. r.failed < MaxRetries + 2 => r.sent = 0 /\ copies[k] <= r.sent + crashes
    <3>1. rows[k].failed < MaxRetries + 2 => rows[k].sent = 0 /\ copies[k] <= crashes + 0
      BY <1>1, <1>2, Holding, Zenon
    <3> QED BY <2>1, <2>4, <3>1
  <2>7. \A v \in Workers : v # w /\ work[v].pc \in LockSteps => work[v].id # k
    BY <1>1, <1>2, Holding, Zenon
  <2>8. \A j \in Ids \ {k} : ~Standing(j, rows[k].key)
    BY <1>3, <1>5, NoClash, Zenon
  <2> QED BY <1>1, <1>2, <2>1, <2>2, <2>3, <2>5, <2>6, <2>7, <2>8, OutcomeWritten, Zenon
<1> QED BY <1>4, <1>5, Zenon

LEMMA MarkDeadKeeps ==
  ASSUME OutboxInv, NEW w \in Workers, MarkDead(w)
  PROVE  OutboxInv'
<1>1. PICK k \in Ids : k = work[w].id
  BY Zenon DEF OutboxInv, OutboxTypeOK
<1>2. /\ work[w].pc = "bury" /\ ~Locked(k)
      /\ rows' = [rows EXCEPT ![k].status = "dead", ![k].failed = @ + 1]
      /\ work' = [work EXCEPT ![w] = Free]
      /\ tx' = tx /\ queue' = queue /\ copies' = copies /\ crashes' = crashes
  BY <1>1, Zenon DEF MarkDead
<1>3. PICK x \in WorkRecord : /\ x.pc = "idle" /\ x.pc \notin LockSteps
                              /\ work' = [work EXCEPT ![w] = x]
  BY <1>2, FreeType, Zenon DEF WorkRecord, Free, LockSteps
<1>4. rows[k] \in NotificationOutbox /\ OnFile(k) /\ rows[k].failed >= MaxRetries + 1
  BY <1>1, <1>2, Serving, Zenon
<1> DEFINE r == [rows[k] EXCEPT !.status = "dead", !.failed = @ + 1]
<1>5. /\ r \in NotificationOutbox /\ r.key = rows[k].key /\ r.chan = rows[k].chan
      /\ r.by = rows[k].by /\ r.status = "dead" /\ r.failed = rows[k].failed + 1
      /\ rows[k].failed \in Nat
  <2>1. rows[k].failed \in Nat
    BY <1>4, Zenon DEF NotificationOutbox
  <2>2. PICK b \in Nat : b = rows[k].failed + 1
    BY <2>1
  <2>3. r = [rows[k] EXCEPT !.status = "dead", !.failed = b]
    BY <2>2, Zenon
  <2> QED BY <1>4, <2>1, <2>2, <2>3, Zenon DEF NotificationOutbox, RowStatuses
<1>6. rows' = [rows EXCEPT ![k] = r]
  BY <1>2, Zenon DEF OutboxInv, OutboxTypeOK
<1> HIDE DEF r
<1>7. MaxRetries \in Nat
  BY CrashesType, Zenon
<1>8. /\ r.by = Committed /\ r.failed >= rows[k].failed /\ r.failed >= MaxRetries + 2
      /\ ~(r.failed < MaxRetries + 2)
  BY <1>4, <1>5, <1>7 DEF OnFile
<1>9. \A v \in Workers : v # w /\ work[v].pc \in LockSteps => work[v].id # k
  BY <1>2, Zenon DEF Locked, LockSteps
<1>10. /\ work[w].pc # "idle" /\ k = work[w].id
      /\ tx' = tx /\ queue' = queue /\ copies' = copies /\ crashes' = crashes
  BY <1>1, <1>2, Zenon
<1> QED BY ONLY OutboxInv, w \in Workers, k \in Ids, x \in WorkRecord,
               <1>3, <1>5, <1>6, <1>8, <1>9, <1>10, OutcomeWritten, Zenon

-----------------------------------------------------------------------------
(* Every step of a sender or a worker keeps the invariant.                  *)
LEMMA InvNext ==
  ASSUME OutboxInv, [OutboxNext]_outboxVars
  PROVE  OutboxInv'
<1>1. ASSUME NEW s \in Senders, NEW batch \in Seq(Notification), Stage(s, batch)
      PROVE  OutboxInv'
  BY <1>1, StageKeeps, Zenon
<1>2. ASSUME NEW s \in Senders, SenderStep(s)
      PROVE  OutboxInv'
  BY <1>2, AlreadySentKeeps, FindExistingKeeps, PersistKeeps, CommitKeeps, DrainKeeps, Zenon DEF SenderStep
<1>3. ASSUME NEW s \in Senders, CrashSender(s)
      PROVE  OutboxInv'
  BY <1>3, CrashSenderKeeps, Zenon
<1>4. ASSUME NEW w \in Workers, WorkerStep(w)
      PROVE  OutboxInv'
  BY <1>4, TakeRowKeeps, SendKeeps, CommitSentKeeps, CommitFailedKeeps, RetryKeeps,
     AcknowledgeKeeps, MarkDeadKeeps, Zenon DEF WorkerStep
<1>5. ASSUME NEW w \in Workers, CrashWorker(w)
      PROVE  OutboxInv'
  BY <1>5, CrashWorkerKeeps, Zenon
<1>6. CASE UNCHANGED outboxVars
  <2>1. /\ rows' = rows /\ tx' = tx /\ queue' = queue /\ work' = work /\ copies' = copies
        /\ crashes' = crashes
    BY <1>6, Zenon DEF outboxVars
  <2>2. OutboxTypeOK' /\ KeysOK' /\ LocksOK'
    BY <2>1, Zenon DEF OutboxInv, OutboxTypeOK, KeysOK, Standing, LocksOK
  <2>3. \A i \in Ids : RowOK(i)' /\ CopiesOK(i)'
    <3>1. \A i \in Ids : Unrecorded(i)' = Unrecorded(i)
      BY <2>1, Zenon DEF Unrecorded, InHand
    <3> QED BY <2>1, <3>1, Zenon DEF OutboxInv, RowOK, OnFile, CopiesOK
  <2>4. \A s \in Senders : SenderOK(s)'
    BY <2>1, Zenon DEF OutboxInv, SenderOK
  <2>5. \A m \in Messages : MessageOK(m)'
    BY <2>1, Zenon DEF OutboxInv, MessageOK, OnFile
  <2>6. \A w \in Workers : WorkerOK(w)'
    BY <2>1, Zenon DEF OutboxInv, WorkerOK, OnFile
  <2> QED BY <2>2, <2>3, <2>4, <2>5, <2>6, Zenon DEF OutboxInv
<1> QED BY <1>1, <1>2, <1>3, <1>4, <1>5, <1>6, Zenon DEF OutboxNext

(* The invariant gives DeliveredOnce.                                       *)
LEMMA InvDelivers ==
  ASSUME OutboxInv
  PROVE  DeliveredOnce
<1> SUFFICES ASSUME NEW i \in Ids
             PROVE  rows[i].sent > 1 \/ copies[i] > 1 + crashes
                      => rows[i].failed >= MaxRetries + 2
  BY Zenon DEF DeliveredOnce
<1>1. /\ RowOK(i) /\ CopiesOK(i) /\ crashes \in Nat /\ copies[i] \in Nat
      /\ rows[i].sent \in Nat /\ rows[i].failed \in Nat /\ MaxRetries \in Nat
  BY CrashesType, Zenon DEF OutboxInv, OutboxTypeOK, NotificationOutbox
<1>2. CASE InHand(i)
  <2>1. PICK w \in Workers : work[w].pc = "accepted" /\ work[w].id = i
    BY <1>2, Zenon DEF InHand
  <2>2. work[w].pc \in LockSteps
    BY <2>1, Zenon DEF LockSteps
  <2>3. rows[i].failed < MaxRetries + 2 => rows[i].sent = 0 /\ copies[i] <= crashes + 1
    BY <2>1, <2>2, Holding, Zenon
  <2> QED BY ONLY <1>1, <2>3
<1>3. CASE ~InHand(i)
  BY <1>1, <1>3, UnrecordedIs DEF RowOK, CopiesOK
<1> QED BY <1>2, <1>3, Zenon

(* However many senders, workers, crashes and redeliveries: the log records *)
(* a second success of a notification only after it had been given up, and  *)
(* the driver takes more copies than processes died only then               *)
(* (dispatch_outbox_row's lock and status check).                           *)
THEOREM OutboxDeliversOnce == OutboxSpec => []DeliveredOnce
<1>1. OutboxInit => OutboxInv
  BY InvInit, Zenon
<1>2. OutboxInv /\ [OutboxNext]_outboxVars => OutboxInv'
  BY InvNext, Zenon
<1>3. OutboxInv => DeliveredOnce
  BY InvDelivers, Zenon
<1> QED BY <1>1, <1>2, <1>3, PTL DEF OutboxSpec

-----------------------------------------------------------------------------
(* The outbox implements AtLeastOnce.  What a row shows of itself.          *)
Unposted == [key |-> NoKey, chan |-> "in_app", standing |-> "unposted"]
Shown(row) ==
  [key |-> row.key, chan |-> row.chan,
   standing |-> CASE row.status = "suppressed" -> "muted"
                  [] row.status = "sent" -> "confirmed"
                  [] row.status = "dead" -> "given_up"
                  [] OTHER -> "waiting"]

LEMMA NoteIs ==
  ASSUME NEW i \in Ids
  PROVE  /\ OnFile(i) => NoteOf(i) = Shown(rows[i])
         /\ ~OnFile(i) => NoteOf(i) = Unposted
         /\ OnFile(i)' => NoteOf(i)' = Shown(rows'[i])
         /\ ~OnFile(i)' => NoteOf(i)' = Unposted
<1>1. OnFile(i) => NoteOf(i) = Shown(rows[i])
  BY Zenon DEF OnFile, NoteOf, Shown
<1>2. ~OnFile(i) => NoteOf(i) = Unposted
  BY Zenon DEF OnFile, NoteOf, Unposted
<1>3. OnFile(i)' => NoteOf(i)' = Shown(rows'[i])
  BY Zenon DEF OnFile, NoteOf, Shown
<1>4. ~OnFile(i)' => NoteOf(i)' = Unposted
  BY Zenon DEF OnFile, NoteOf, Unposted
<1> QED BY <1>1, <1>2, <1>3, <1>4, Zenon

LEMMA ShownIs ==
  ASSUME NEW row \in NotificationOutbox, row.status # "none"
  PROVE  /\ Shown(row) \in Promise!Notes
         /\ Shown(row).key = row.key /\ Shown(row).chan = row.chan
         /\ row.status = "suppressed" => Shown(row).standing = "muted"
         /\ row.status = "sent" => Shown(row).standing = "confirmed"
         /\ row.status = "dead" => Shown(row).standing = "given_up"
         /\ row.status \in {"queued", "failed"} => Shown(row).standing = "waiting"
         /\ Shown(row).standing # "unposted"
BY Zenon DEF Shown, NotificationOutbox, RowStatuses, Channels, Promise!Notes, Promise!Standings

LEMMA UnpostedIs == Unposted \in Promise!Notes /\ Unposted.standing = "unposted"
BY Zenon DEF Unposted, Promise!Notes, Promise!Standings

(* A step that changes nothing anybody was promised.                        *)
LEMMA Stutters ==
  ASSUME copies' = copies, \A i \in Ids : NoteOf(i)' = NoteOf(i)
  PROVE  UNCHANGED Promise!vars
BY Zenon DEF Promise!vars

LEMMA CommitPosts ==
  ASSUME OutboxInv, OutboxInv', NEW s \in Senders, Commit(s)
  PROVE  Promise!Post
<1>1. /\ copies' = copies
      /\ \A i \in Ids : rows'[i] = IF rows[i].by = s THEN [rows[i] EXCEPT !.by = Committed]
                                                     ELSE rows[i]
  BY Zenon DEF Commit
<1>2. \A i \in Ids : /\ rows[i] \in NotificationOutbox /\ rows'[i] \in NotificationOutbox
                     /\ rows'[i].status = rows[i].status /\ rows'[i].key = rows[i].key
                     /\ rows[i].by # s => rows'[i] = rows[i]
                     /\ RowOK(i)
  <2> SUFFICES ASSUME NEW i \in Ids
               PROVE  /\ rows[i] \in NotificationOutbox /\ rows'[i] \in NotificationOutbox
                      /\ rows'[i].status = rows[i].status /\ rows'[i].key = rows[i].key
                      /\ rows[i].by # s => rows'[i] = rows[i]
                      /\ RowOK(i)
    BY Zenon
  <2>1. rows[i] \in NotificationOutbox /\ rows'[i] \in NotificationOutbox /\ RowOK(i)
    BY Zenon DEF OutboxInv, OutboxTypeOK
  <2> QED BY <1>1, <2>1, Zenon DEF NotificationOutbox
<1>3. \A i \in Ids : NoteOf(i)' \in Promise!Notes
  BY <1>2, NoteIs, ShownIs, UnpostedIs, Zenon DEF OnFile
<1>4. ASSUME NEW i \in Ids, NoteOf(i)' # NoteOf(i)
      PROVE  /\ NoteOf(i).standing = "unposted" /\ NoteOf(i)'.standing \in {"waiting", "muted"}
             /\ \A j \in Ids \ {i} :
                  NoteOf(i)'.key = NoKey \/ NoteOf(j)'.key # NoteOf(i)'.key
                    \/ NoteOf(j)'.standing \in {"unposted", "given_up"}
  <2>1. rows[i].by = s /\ rows[i].by # Committed
    <3>1. CASE rows'[i] = rows[i]
      BY <1>4, <3>1, Zenon DEF NoteOf
    <3> QED BY <1>2, <3>1, OutboxAssumption, Zenon
  <2>2. ~OnFile(i) /\ OnFile(i)' /\ rows[i].status \in {"queued", "suppressed"}
    <3>1. rows[i].status \in {"queued", "suppressed"}
      BY <1>2, <2>1, Zenon DEF RowOK
    <3>2. rows'[i].by = Committed
      BY <1>1, <1>2, <2>1, Zenon DEF NotificationOutbox
    <3> QED BY <1>2, <2>1, <3>1, <3>2, Zenon DEF OnFile
  <2>3. NoteOf(i) = Unposted /\ NoteOf(i)' = Shown(rows'[i])
    BY <2>2, NoteIs, Zenon
  <2>4. /\ NoteOf(i).standing = "unposted" /\ NoteOf(i)'.standing \in {"waiting", "muted"}
        /\ NoteOf(i)'.key = rows[i].key
    BY <1>2, <2>2, <2>3, UnpostedIs, ShownIs, ZenonT(40)
  <2>5. ASSUME NEW j \in Ids \ {i}, rows[i].key # NoKey, NoteOf(j)'.key = rows[i].key,
               NoteOf(j)'.standing \notin {"unposted", "given_up"}
        PROVE  FALSE
    <3>1. OnFile(j)' /\ NoteOf(j)' = Shown(rows'[j])
      BY <2>5, NoteIs, UnpostedIs, Zenon
    <3>2. rows[j].key = rows[i].key /\ rows[j].status \notin {"none", "dead"}
      BY <1>2, <2>5, <3>1, ShownIs DEF OnFile
    <3>3. Standing(j, rows[i].key) /\ Standing(i, rows[i].key)
      BY <2>2, <2>5, <3>2, Zenon DEF Standing
    <3> QED BY <3>3, Zenon DEF OutboxInv, KeysOK
  <2> QED BY <2>4, <2>5, Zenon
<1> QED BY <1>1, <1>3, <1>4, Zenon DEF Promise!Post

(* An insert and a rollback show nothing.                                   *)
LEMMA PersistIsSilent ==
  ASSUME OutboxInv, NEW s \in Senders, PersistNotification(s) \/ CrashSender(s)
  PROVE  UNCHANGED Promise!vars
<1>1. copies' = copies
  BY Zenon DEF PersistNotification, CrashSender
<1>2. ASSUME NEW i \in Ids, Abandon(s)
      PROVE  NoteOf(i)' = NoteOf(i)
  <2>1. CASE rows[i].by = s
    <3>1. ~OnFile(i) /\ rows'[i] = NoRow
      BY <1>2, <2>1, OutboxAssumption, Zenon DEF OnFile, Abandon
    <3>2. ~OnFile(i)'
      BY <3>1 DEF OnFile, NoRow
    <3> QED BY <3>1, <3>2, NoteIs, Zenon
  <2>2. CASE rows[i].by # s
    <3>1. rows'[i] = rows[i]
      BY <1>2, <2>2, Zenon DEF Abandon
    <3> QED BY <3>1, Zenon DEF NoteOf
  <2> QED BY <2>1, <2>2, Zenon
<1>3. ASSUME NEW i \in Ids, NEW k \in Ids, rows[k].status = "none", NEW r, r.by = s,
             rows' = [rows EXCEPT ![k] = r]
      PROVE  NoteOf(i)' = NoteOf(i)
  <2>1. CASE i = k
    <3>1. ~OnFile(i) /\ rows'[i] = r
      BY <1>3, <2>1, Zenon DEF OnFile, OutboxInv, OutboxTypeOK
    <3>2. ~OnFile(i)'
      BY <1>3, <3>1, OutboxAssumption, Zenon DEF OnFile
    <3> QED BY <3>1, <3>2, NoteIs, Zenon
  <2>2. CASE i # k
    <3>1. rows'[i] = rows[i]
      BY <1>3, <2>2, Zenon DEF OutboxInv, OutboxTypeOK
    <3> QED BY <3>1, Zenon DEF NoteOf
  <2> QED BY <2>1, <2>2, Zenon
<1>4. CASE Abandon(s)
  BY <1>1, <1>2, <1>4, Stutters, Zenon
<1>5. ASSUME NEW k \in Ids, rows[k].status = "none", NEW n,
             rows' = [rows EXCEPT ![k] = [NoRow EXCEPT !.key = n.key, !.chan = n.chan, !.by = s,
                                                       !.status = ResolveRecipient(n)]]
      PROVE  UNCHANGED Promise!vars
  <2> DEFINE r == [NoRow EXCEPT !.key = n.key, !.chan = n.chan, !.by = s,
                                !.status = ResolveRecipient(n)]
  <2>1. r.by = s
    BY Zenon DEF NoRow
  <2>2. rows' = [rows EXCEPT ![k] = r]
    BY <1>5, Zenon
  <2> HIDE DEF r
  <2>3. \A i \in Ids : NoteOf(i)' = NoteOf(i)
    BY <1>3, <1>5, <2>1, <2>2, Zenon
  <2> QED BY <1>1, <2>3, Stutters, Zenon
<1> QED BY <1>4, <1>5, Zenon DEF PersistNotification, CrashSender

(* An outcome written onto the row shows as a new standing of its note.     *)
LEMMA OutcomeShows ==
  ASSUME OutboxInv, NEW k \in Ids, OnFile(k), NEW r \in NotificationOutbox,
         rows' = [rows EXCEPT ![k] = r], r.key = rows[k].key, r.chan = rows[k].chan,
         r.by = Committed, r.status # "none"
  PROVE  [i \in Ids |-> NoteOf(i)'] =
           [[i \in Ids |-> NoteOf(i)] EXCEPT ![k].standing = Shown(r).standing]
<1>1. rows'[k] = r /\ \A i \in Ids : i # k => rows'[i] = rows[i]
  BY Zenon DEF OutboxInv, OutboxTypeOK
<1>2. \A i \in Ids : i # k => NoteOf(i)' = NoteOf(i)
  BY <1>1, Zenon DEF NoteOf
<1>3. NoteOf(k)' = Shown(r) /\ NoteOf(k) = Shown(rows[k])
  BY <1>1, NoteIs, Zenon DEF OnFile
<1>4. Shown(r) = [Shown(rows[k]) EXCEPT !.standing = Shown(r).standing]
  BY DEF Shown
<1>5. NoteOf(k)' = [NoteOf(k) EXCEPT !.standing = Shown(r).standing]
  BY <1>3, <1>4, Zenon
<1> QED BY <1>2, <1>5, Zenon

(* A key without a clash is free for its row, as the promise asks.          *)
LEMMA KeyIsFree ==
  ASSUME OutboxInv, NEW k \in Ids, OnFile(k),
         \A j \in Ids \ {k} : ~Standing(j, rows[k].key)
  PROVE  Promise!Free(NoteOf(k).key, k)
<1>1. \A i \in Ids : rows[i] \in NotificationOutbox
  BY Zenon DEF OutboxInv, OutboxTypeOK
<1>2. NoteOf(k).key = rows[k].key
  BY <1>1, NoteIs, ShownIs, Zenon DEF OnFile
<1>3. ASSUME NEW j \in Ids \ {k}, rows[k].key # NoKey, NoteOf(j).key = rows[k].key,
             NoteOf(j).standing \notin {"unposted", "given_up"}
      PROVE  FALSE
  <2>1. OnFile(j) /\ NoteOf(j) = Shown(rows[j])
    BY <1>3, NoteIs, UnpostedIs, Zenon
  <2>2. rows[j].key = rows[k].key /\ rows[j].status \notin {"none", "dead"}
    BY <1>1, <1>3, <2>1, ShownIs, Zenon DEF OnFile
  <2> QED BY <1>3, <2>2, Zenon DEF Standing
<1> QED BY <1>2, <1>3, Zenon DEF Promise!Free, Promise!Holds

LEMMA SendHandsOver ==
  ASSUME OutboxInv, NEW w \in Workers, Send(w)
  PROVE  Promise!Next \/ UNCHANGED Promise!vars
<1>1. PICK k \in Ids : k = work[w].id
  BY Zenon DEF OutboxInv, OutboxTypeOK
<1>2. /\ rows' = rows /\ work[w].pc = "sending"
      /\ copies' = copies \/ (rows[k].chan = "email" /\ copies' = [copies EXCEPT ![k] = @ + 1])
  BY <1>1, Zenon DEF Send
<1>3. \A i \in Ids : NoteOf(i)' = NoteOf(i)
  BY <1>2, Zenon DEF NoteOf
<1>4. CASE copies' = copies
  BY <1>3, <1>4, Stutters, Zenon
<1>5. CASE rows[k].chan = "email" /\ copies' = [copies EXCEPT ![k] = @ + 1]
  <2>1. OnFile(k) /\ rows[k].status \in {"queued", "failed", "dead"} /\ rows[k] \in NotificationOutbox
    BY <1>1, <1>2, Serving, Zenon DEF LockSteps
  <2>2. NoteOf(k).chan = "email" /\ NoteOf(k).standing \notin {"unposted", "muted"}
    BY <1>5, <2>1, NoteIs, ShownIs, Zenon
  <2>3. Promise!HandOver(k)
    BY <1>3, <1>5, <2>2, Zenon DEF Promise!HandOver
  <2> QED BY <2>3, Zenon DEF Promise!Next
<1> QED BY <1>2, <1>4, <1>5, Zenon

LEMMA CommitSentConfirms ==
  ASSUME OutboxInv, NEW w \in Workers, CommitSent(w)
  PROVE  Promise!Next \/ UNCHANGED Promise!vars
<1>1. PICK k \in Ids : k = work[w].id
  BY Zenon DEF OutboxInv, OutboxTypeOK
<1>2. /\ work[w].pc = "accepted" /\ copies' = copies
      /\ rows' = IF Clashes(k) THEN rows
                 ELSE [rows EXCEPT ![k].status = "sent", ![k].attempts = @ + 1,
                                   ![k].sent = @ + 1]
  BY <1>1, Zenon DEF CommitSent
<1>3. /\ rows[k] \in NotificationOutbox /\ OnFile(k)
      /\ rows[k].status \in {"queued", "failed", "dead"}
      /\ rows[k].chan = "email" => copies[k] > 0
  BY <1>1, <1>2, Serving, Zenon DEF LockSteps
<1>4. CASE Clashes(k)
  <2>1. \A i \in Ids : NoteOf(i)' = NoteOf(i)
    BY <1>2, <1>4, Zenon DEF NoteOf
  <2> QED BY <1>2, <2>1, Stutters, Zenon
<1>5. CASE ~Clashes(k)
  <2> DEFINE r == [rows[k] EXCEPT !.status = "sent", !.attempts = @ + 1, !.sent = @ + 1]
  <2>1. /\ r \in NotificationOutbox /\ r.key = rows[k].key /\ r.chan = rows[k].chan
        /\ r.by = rows[k].by /\ r.status = "sent"
    <3>1. rows[k].attempts \in Nat /\ rows[k].sent \in Nat
      BY <1>3, Zenon DEF NotificationOutbox
    <3>2. PICK a \in Nat, b \in Nat : a = rows[k].attempts + 1 /\ b = rows[k].sent + 1
      BY <3>1
    <3>3. r = [rows[k] EXCEPT !.status = "sent", !.attempts = a, !.sent = b]
      BY <3>2, Zenon
    <3> QED BY <1>3, <3>2, <3>3, Zenon DEF NotificationOutbox, RowStatuses
  <2>2. rows' = [rows EXCEPT ![k] = r]
    BY <1>2, <1>5, Zenon DEF OutboxInv, OutboxTypeOK
  <2> HIDE DEF r
  <2>3. r.by = Committed /\ r.status # "none" /\ Shown(r).standing = "confirmed"
    BY <1>3, <2>1, ShownIs, Zenon DEF OnFile
  <2>4. [i \in Ids |-> NoteOf(i)'] = [[i \in Ids |-> NoteOf(i)] EXCEPT ![k].standing = "confirmed"]
    <3>1. [i \in Ids |-> NoteOf(i)'] =
            [[i \in Ids |-> NoteOf(i)] EXCEPT ![k].standing = Shown(r).standing]
      BY ONLY OutboxInv, k \in Ids, <1>3, <2>1, <2>2, <2>3, OutcomeShows, Zenon
    <3> QED BY <2>3, <3>1, Zenon
  <2>5. Promise!Free(NoteOf(k).key, k)
    BY <1>3, <1>5, NoClash, KeyIsFree, Zenon
  <2>6. /\ NoteOf(k).standing \notin {"unposted", "muted"}
        /\ NoteOf(k).chan = "email" => copies[k] > 0
    BY <1>3, NoteIs, ShownIs, Zenon
  <2>7. Promise!Confirm(k)
    BY <1>2, <2>4, <2>5, <2>6, Zenon DEF Promise!Confirm
  <2> QED BY <2>7, Zenon DEF Promise!Next
<1> QED BY <1>4, <1>5, Zenon

LEMMA CommitFailedWaits ==
  ASSUME OutboxInv, NEW w \in Workers, CommitFailed(w)
  PROVE  Promise!Next \/ UNCHANGED Promise!vars
<1>1. PICK k \in Ids : k = work[w].id
  BY Zenon DEF OutboxInv, OutboxTypeOK
<1>2. /\ work[w].pc = "refused" /\ copies' = copies
      /\ rows' = IF Clashes(k) THEN rows
                 ELSE [rows EXCEPT ![k].status = "failed", ![k].attempts = @ + 1,
                                   ![k].failed = @ + 1]
  BY <1>1, Zenon DEF CommitFailed
<1>3. /\ rows[k] \in NotificationOutbox /\ OnFile(k)
      /\ rows[k].status \in {"queued", "failed", "dead"}
  BY <1>1, <1>2, Serving, Zenon DEF LockSteps
<1>4. CASE Clashes(k)
  <2>1. \A i \in Ids : NoteOf(i)' = NoteOf(i)
    BY <1>2, <1>4, Zenon DEF NoteOf
  <2> QED BY <1>2, <2>1, Stutters, Zenon
<1>5. CASE ~Clashes(k)
  <2> DEFINE r == [rows[k] EXCEPT !.status = "failed", !.attempts = @ + 1, !.failed = @ + 1]
  <2>1. /\ r \in NotificationOutbox /\ r.key = rows[k].key /\ r.chan = rows[k].chan
        /\ r.by = rows[k].by /\ r.status = "failed"
    <3>1. rows[k].attempts \in Nat /\ rows[k].failed \in Nat
      BY <1>3, Zenon DEF NotificationOutbox
    <3>2. PICK a \in Nat, b \in Nat : a = rows[k].attempts + 1 /\ b = rows[k].failed + 1
      BY <3>1
    <3>3. r = [rows[k] EXCEPT !.status = "failed", !.attempts = a, !.failed = b]
      BY <3>2, Zenon
    <3> QED BY <1>3, <3>2, <3>3, Zenon DEF NotificationOutbox, RowStatuses
  <2>2. rows' = [rows EXCEPT ![k] = r]
    BY <1>2, <1>5, Zenon DEF OutboxInv, OutboxTypeOK
  <2> HIDE DEF r
  <2>3. r.by = Committed /\ r.status # "none" /\ Shown(r).standing = "waiting"
    BY <1>3, <2>1, ShownIs, Zenon DEF OnFile
  <2>4. [i \in Ids |-> NoteOf(i)'] = [[i \in Ids |-> NoteOf(i)] EXCEPT ![k].standing = "waiting"]
    <3>1. [i \in Ids |-> NoteOf(i)'] =
            [[i \in Ids |-> NoteOf(i)] EXCEPT ![k].standing = Shown(r).standing]
      BY ONLY OutboxInv, k \in Ids, <1>3, <2>1, <2>2, <2>3, OutcomeShows, Zenon
    <3> QED BY <2>3, <3>1, Zenon
  <2>5. Promise!Free(NoteOf(k).key, k)
    BY <1>3, <1>5, NoClash, KeyIsFree, Zenon
  <2>6. NoteOf(k).standing \notin {"unposted", "muted", "confirmed"}
    BY <1>3, NoteIs, ShownIs, Zenon
  <2>7. Promise!Wait(k)
    BY <1>2, <2>4, <2>5, <2>6, Zenon DEF Promise!Wait
  <2> QED BY <2>7, Zenon DEF Promise!Next
<1> QED BY <1>4, <1>5, Zenon

LEMMA MarkDeadGivesUp ==
  ASSUME OutboxInv, NEW w \in Workers, MarkDead(w)
  PROVE  Promise!Next
<1>1. PICK k \in Ids : k = work[w].id
  BY Zenon DEF OutboxInv, OutboxTypeOK
<1>2. /\ work[w].pc = "bury" /\ copies' = copies
      /\ rows' = [rows EXCEPT ![k].status = "dead", ![k].failed = @ + 1]
  BY <1>1, Zenon DEF MarkDead
<1>3. rows[k] \in NotificationOutbox /\ OnFile(k) /\ rows[k].status # "suppressed"
  BY <1>1, <1>2, Serving, Zenon
<1> DEFINE r == [rows[k] EXCEPT !.status = "dead", !.failed = @ + 1]
<1>4. /\ r \in NotificationOutbox /\ r.key = rows[k].key /\ r.chan = rows[k].chan
      /\ r.by = rows[k].by /\ r.status = "dead"
  <2>1. rows[k].failed \in Nat
    BY <1>3, Zenon DEF NotificationOutbox
  <2>2. PICK b \in Nat : b = rows[k].failed + 1
    BY <2>1
  <2>3. r = [rows[k] EXCEPT !.status = "dead", !.failed = b]
    BY <2>2, Zenon
  <2> QED BY <1>3, <2>2, <2>3, Zenon DEF NotificationOutbox, RowStatuses
<1>5. rows' = [rows EXCEPT ![k] = r]
  BY <1>2, Zenon DEF OutboxInv, OutboxTypeOK
<1> HIDE DEF r
<1>6. r.by = Committed /\ r.status # "none" /\ Shown(r).standing = "given_up"
  BY <1>3, <1>4, ShownIs, Zenon DEF OnFile
<1>7. [i \in Ids |-> NoteOf(i)'] = [[i \in Ids |-> NoteOf(i)] EXCEPT ![k].standing = "given_up"]
  <2>1. [i \in Ids |-> NoteOf(i)'] =
          [[i \in Ids |-> NoteOf(i)] EXCEPT ![k].standing = Shown(r).standing]
    BY ONLY OutboxInv, k \in Ids, <1>3, <1>4, <1>5, <1>6, OutcomeShows, Zenon
  <2> QED BY <1>6, <2>1, Zenon
<1>8. NoteOf(k).standing \notin {"unposted", "muted"}
  <2>1. rows[k].status \in {"queued", "failed", "sent", "dead"}
    BY <1>3, Zenon DEF OnFile, NotificationOutbox, RowStatuses
  <2> QED BY <1>3, <2>1, NoteIs, ShownIs, Zenon
<1>9. Promise!GiveUp(k)
  BY <1>2, <1>7, <1>8, Zenon DEF Promise!GiveUp
<1> QED BY <1>9, Zenon DEF Promise!Next

(* Every step of the outbox is a step of the promise, or shows nothing.     *)
LEMMA StepKeepsPromise ==
  ASSUME OutboxInv, OutboxInv', [OutboxNext]_outboxVars
  PROVE  [Promise!Next]_(Promise!vars)
<1>1. CASE rows' = rows /\ copies' = copies
  <2>1. \A i \in Ids : NoteOf(i)' = NoteOf(i)
    BY <1>1, Zenon DEF NoteOf
  <2> QED BY <1>1, <2>1, Stutters, Zenon
<1>2. ASSUME NEW s \in Senders, SenderStep(s)
      PROVE  [Promise!Next]_(Promise!vars)
  <2>1. CASE Commit(s)
    BY <2>1, CommitPosts, Zenon DEF Promise!Next
  <2>2. CASE PersistNotification(s)
    BY <2>2, PersistIsSilent, Zenon
  <2>3. CASE AlreadySent(s) \/ FindExisting(s) \/ DrainPendingEnqueues(s)
    BY <1>1, <2>3, Zenon DEF AlreadySent, FindExisting, DrainPendingEnqueues
  <2> QED BY <1>2, <2>1, <2>2, <2>3, Zenon DEF SenderStep
<1>3. ASSUME NEW w \in Workers, WorkerStep(w)
      PROVE  [Promise!Next]_(Promise!vars)
  <2>1. CASE Send(w)
    BY <2>1, SendHandsOver, Zenon
  <2>2. CASE CommitSent(w)
    BY <2>2, CommitSentConfirms, Zenon
  <2>3. CASE CommitFailed(w)
    BY <2>3, CommitFailedWaits, Zenon
  <2>4. CASE MarkDead(w)
    BY <2>4, MarkDeadGivesUp, Zenon
  <2>5. CASE TakeRow(w) \/ Retry(w) \/ Acknowledge(w)
    BY <1>1, <2>5, Zenon DEF TakeRow, Retry, Acknowledge
  <2> QED BY <1>3, <2>1, <2>2, <2>3, <2>4, <2>5, Zenon DEF WorkerStep
<1>4. ASSUME NEW s \in Senders, NEW batch, Stage(s, batch)
      PROVE  [Promise!Next]_(Promise!vars)
  BY <1>1, <1>4, Zenon DEF Stage
<1>5. ASSUME NEW s \in Senders, CrashSender(s)
      PROVE  [Promise!Next]_(Promise!vars)
  BY <1>5, PersistIsSilent, Zenon
<1>6. ASSUME NEW w \in Workers, CrashWorker(w)
      PROVE  [Promise!Next]_(Promise!vars)
  BY <1>1, <1>6, Zenon DEF CrashWorker
<1>7. CASE UNCHANGED outboxVars
  BY <1>1, <1>7, Zenon DEF outboxVars
<1> QED BY <1>2, <1>3, <1>4, <1>5, <1>6, <1>7, Zenon DEF OutboxNext

(* The outbox implements AtLeastOnce, for any senders, workers, keys and    *)
(* ids: nothing is confirmed that was never handed over, nothing is handed  *)
(* over that its recipient muted, no two standing notifications share a key *)
(* (persist_notification, dispatch_outbox_row, mark_dead).                  *)
THEOREM OutboxKeepsPromise == OutboxSpec => PromiseKept
<1>1. OutboxInit => OutboxInv
  BY InvInit, Zenon
<1>2. OutboxInv /\ [OutboxNext]_outboxVars => OutboxInv'
  BY InvNext, Zenon
<1>3. OutboxInit => Promise!Init
  <2> SUFFICES ASSUME OutboxInit
               PROVE  Promise!Init
    BY Zenon
  <2>1. \A i \in Ids : NoteOf(i) = Unposted
    BY NoteIs, Zenon DEF OutboxInit, NoRow, OnFile
  <2> QED BY <2>1, UnpostedIs, Zenon DEF OutboxInit, Promise!Init
<1>4. OutboxInv /\ OutboxInv' /\ [OutboxNext]_outboxVars => [Promise!Next]_(Promise!vars)
  BY StepKeepsPromise, Zenon
<1> QED BY <1>1, <1>2, <1>3, <1>4, PTL DEF OutboxSpec, PromiseKept, Promise!Spec
=============================================================================
