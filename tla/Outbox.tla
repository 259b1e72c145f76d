------------------------------- MODULE Outbox -------------------------------
(***************************************************************************)
(* core/notifications and ops/notification_tasks: the transactional outbox. *)
(* A sender persists notifications inside its own transaction, and only     *)
(* after the commit puts their ids on the broker.  Celery workers take an   *)
(* id, lock its row, hand the message to the mail driver and commit the     *)
(* outcome; a refused message is retried a bounded number of times.         *)
(*                                                                         *)
(* rows is the table core_notifications with the creating transaction of    *)
(* each row: a row is visible to others once `by` is Committed.  The mail   *)
(* driver, the broker (late acknowledgement: an unacknowledged message is   *)
(* delivered again) and the moment a process dies are the environment.      *)
(***************************************************************************)
EXTENDS Naturals, Sequences, FiniteSets

CONSTANTS Ids,          \* primary keys of core_notifications, handed out in order
          DedupKeys, NoKey,
          Users, NoUser,
          Prefs,        \* core_notification_preferences rows
          Senders,      \* sessions that write notifications
          Workers,      \* Celery dispatch workers
          Committed,    \* "by" of a row whose transaction has committed
          MaxRetries,   \* dispatch_notification's max_retries
          MaxCrashes    \* bound: processes that die in a behaviour

ASSUME OutboxAssumption ==
  /\ MaxRetries \in Nat /\ MaxCrashes \in Nat /\ Ids \subseteq Nat /\ Ids # {}
  /\ NoKey \notin DedupKeys /\ NoUser \notin Users /\ Committed \notin Senders

VARIABLES rows,      \* core_notifications
          tx,        \* per sender: its open transaction
          queue,     \* broker: how many messages per <<id, retries>>
          work,      \* per worker: the task it runs
          copies,    \* per row: copies the mail driver accepted
          crashes    \* processes that have died

outboxVars == <<rows, tx, queue, work, copies, crashes>>

-----------------------------------------------------------------------------
(* Rows, requests and tasks *)

Channels == {"email", "in_app"}
RowStatuses == {"none", "queued", "suppressed", "failed", "sent", "dead"}
Messages == Ids \X (0 .. MaxRetries)

(* attempts and the counts of the append-only delivery log.  "sending" is   *)
(* written and overwritten in one transaction, so no row is ever seen in it. *)
NotificationOutbox ==
  [key: DedupKeys \cup {NoKey}, chan: Channels, status: RowStatuses,
   by: Senders \cup {Committed}, attempts: Nat, sent: Nat, failed: Nat]
NoRow == [key |-> NoKey, chan |-> "in_app", status |-> "none", by |-> Committed,
          attempts |-> 0, sent |-> 0, failed |-> 0]

Notification ==
  [key: DedupKeys \cup {NoKey}, chan: Channels, user: Users \cup {NoUser},
   addressed: BOOLEAN,      \* carries, or resolves to, an e-mail address
   class: {"security", "transactional", "operational"}, module: {"reimbursement", "none"}]

Idle == [pc |-> "idle", todo |-> <<>>, pend |-> {}]
Free == [pc |-> "idle", id |-> CHOOSE i \in Ids : TRUE, tries |-> 0]

SenderSteps == {"idle", "look", "check", "insert", "open", "drain"}
WorkerSteps == {"idle", "sending", "accepted", "refused", "retry", "acking", "bury"}

OutboxTypeOK ==
  /\ rows \in [Ids -> NotificationOutbox]
  /\ tx \in [Senders -> [pc: SenderSteps, todo: Seq(Notification), pend: SUBSET Ids]]
  /\ queue \in [Messages -> Nat]
  /\ work \in [Workers -> [pc: WorkerSteps, id: Ids, tries: 0 .. MaxRetries]]
  /\ copies \in [Ids -> Nat]
  /\ crashes \in 0 .. MaxCrashes

-----------------------------------------------------------------------------
(* Who is addressed: recipients.resolve_recipient *)

(* A preference row for the module overrides the channel's default row.    *)
ChannelEnabled(user, chan, module) ==
  LET mine    == {p \in Prefs : p.user = user /\ p.chan = chan}
      exact   == {p \in mine : p.module = module}
      default == {p \in mine : p.module = "any"}
      chosen  == IF exact # {} THEN exact ELSE default
  IN  \A p \in chosen : p.enabled

ResolveRecipient(n) ==
  IF \/ /\ n.user # NoUser /\ n.class \notin {"security", "transactional"}
        /\ ~ChannelEnabled(n.user, n.chan, n.module)
     \/ n.chan = "email" /\ n.user # NoUser /\ ~n.addressed
  THEN "suppressed" ELSE "queued"

-----------------------------------------------------------------------------
(* Senders: outbox.persist_notification inside the caller's transaction *)

Standing(i, k) == k # NoKey /\ rows[i].key = k /\ rows[i].status \notin {"none", "dead"}

(* What a query of sender s for a live row of key k returns.               *)
Sees(s, k) == {i \in Ids : Standing(i, k) /\ rows[i].by \in {Committed, s}}

(* An uncommitted row of another transaction: an insert of the key waits.  *)
Blocks(s, k) == \E i \in Ids : Standing(i, k) /\ rows[i].by \notin {Committed, s}

(* The current request is dealt with; ids are registered for the commit.   *)
Proceed(s, pend) ==
  tx' = [tx EXCEPT ![s] = [pc |-> IF Len(@.todo) = 1 THEN "open" ELSE "look",
                           todo |-> Tail(@.todo), pend |-> pend]]

(* The business code asks for a batch of notifications.                    *)
Stage(s, batch) ==
  /\ tx[s].pc \in {"idle", "open"}
  /\ tx' = [tx EXCEPT ![s] = [pc |-> IF batch = <<>> THEN "open" ELSE "look",
                              todo |-> batch, pend |-> @.pend]]
  /\ UNCHANGED <<rows, queue, work, copies, crashes>>

(* _already_sent, the first of two look-ups of the key.                    *)
AlreadySent(s) ==
  /\ tx[s].pc = "look"
  /\ IF Sees(s, Head(tx[s].todo).key) # {}
     THEN Proceed(s, tx[s].pend)
     ELSE tx' = [tx EXCEPT ![s].pc = "check"]
  /\ UNCHANGED <<rows, queue, work, copies, crashes>>

(* persist_notification's own look-up: a row that appeared since the first *)
(* is returned as if it had been written here, and registered again.       *)
FindExisting(s) ==
  /\ tx[s].pc = "check"
  /\ LET found == Sees(s, Head(tx[s].todo).key)
     IN  IF found # {}
         THEN \E i \in found : Proceed(s, tx[s].pend \cup {i})
         ELSE tx' = [tx EXCEPT ![s].pc = "insert"]
  /\ UNCHANGED <<rows, queue, work, copies, crashes>>

Abandon(s) ==
  /\ rows' = [i \in Ids |-> IF rows[i].by = s THEN NoRow ELSE rows[i]]
  /\ tx' = [tx EXCEPT ![s] = Idle]

(* Mutant: without the partial unique index.                                *)
PersistUnindexed(s) ==
  LET n == Head(tx[s].todo)
  IN  /\ tx[s].pc = "insert"
      /\ \E i \in Ids :
           /\ rows[i].status = "none" /\ \A j \in Ids : j < i => rows[j].status # "none"
           /\ rows' = [rows EXCEPT ![i] =
                [NoRow EXCEPT !.key = n.key, !.chan = n.chan, !.by = s,
                              !.status = ResolveRecipient(n)]]
           /\ Proceed(s, tx[s].pend \cup {i})
      /\ UNCHANGED <<queue, work, copies, crashes>>

(* The INSERT.  The partial unique index makes it wait for an open          *)
(* transaction with the key; if that one commits, this one fails and its    *)
(* whole transaction is rolled back.                                        *)
PersistNotification(s) ==
  LET n == Head(tx[s].todo)
  IN  /\ tx[s].pc = "insert" /\ ~Blocks(s, n.key)
      /\ \/ /\ Sees(s, n.key) # {}
            /\ Abandon(s)
         \/ /\ Sees(s, n.key) = {}
            /\ \E i \in Ids :
                 /\ rows[i].status = "none" /\ \A j \in Ids : j < i => rows[j].status # "none"
                 /\ rows' = [rows EXCEPT ![i] =
                      [NoRow EXCEPT !.key = n.key, !.chan = n.chan, !.by = s,
                                    !.status = ResolveRecipient(n)]]
                 /\ Proceed(s, tx[s].pend \cup {i})
      /\ UNCHANGED <<queue, work, copies, crashes>>

Commit(s) ==
  /\ tx[s].pc = "open"
  /\ rows' = [i \in Ids |-> IF rows[i].by = s THEN [rows[i] EXCEPT !.by = Committed]
                                              ELSE rows[i]]
  /\ tx' = [tx EXCEPT ![s] = IF @.pend = {} THEN Idle ELSE [@ EXCEPT !.pc = "drain"]]
  /\ UNCHANGED <<queue, work, copies, crashes>>

(* The after_commit hook enqueues the registered ids one by one.           *)
DrainPendingEnqueues(s) ==
  /\ tx[s].pc = "drain"
  /\ \E i \in tx[s].pend :
       /\ queue' = [queue EXCEPT ![<<i, 0>>] = @ + 1]
       /\ tx' = [tx EXCEPT ![s] = IF @.pend = {i} THEN Idle
                                  ELSE [tx[s] EXCEPT !.pend = @ \ {i}]]
  /\ UNCHANGED <<rows, work, copies, crashes>>

(* The process dies: before the commit the transaction is lost with it,    *)
(* after the commit the ids it still held are.                             *)
CrashSender(s) ==
  /\ tx[s].pc # "idle" /\ crashes < MaxCrashes
  /\ crashes' = crashes + 1
  /\ Abandon(s)
  /\ UNCHANGED <<queue, work, copies>>

-----------------------------------------------------------------------------
(* Workers: dispatch_notification around dispatch.dispatch_outbox_row *)

Locked(i) == \E w \in Workers : work[w].id = i /\ work[w].pc \in {"sending", "accepted", "refused"}

(* What dispatch_outbox_row leaves alone; mutants: one of the two statuses   *)
(* is forgotten.                                                            *)
OnlySuppressed(row) == row.status = "suppressed"
OnlySent(row) == row.status = "sent"
Settled(row) == row.status \in {"sent", "suppressed"}

(* SELECT ... FOR UPDATE SKIP LOCKED: a row that is locked, already sent or *)
(* suppressed ends the task; anything else, a dead row included, is taken.  *)
TakeRow(w) ==
  /\ work[w].pc = "idle"
  /\ \E m \in Messages :
       /\ queue[m] > 0
       /\ queue' = [queue EXCEPT ![m] = @ - 1]
       /\ work' = IF Locked(m[1]) \/ Settled(rows[m[1]])
                  THEN work
                  ELSE [work EXCEPT ![w] = [pc |-> "sending", id |-> m[1], tries |-> m[2]]]
  /\ UNCHANGED <<rows, tx, copies, crashes>>

(* The driver takes or refuses the message; for in_app the row itself is   *)
(* the delivery and no driver is involved.                                 *)
Send(w) ==
  LET i == work[w].id
  IN  /\ work[w].pc = "sending"
      /\ \/ /\ work' = [work EXCEPT ![w].pc = "accepted"]
            /\ copies' = IF rows[i].chan = "email" THEN [copies EXCEPT ![i] = @ + 1]
                                                   ELSE copies
         \/ /\ rows[i].chan = "email"
            /\ work' = [work EXCEPT ![w].pc = "refused"]
            /\ copies' = copies
      /\ UNCHANGED <<rows, tx, queue, crashes>>

(* A row that was dead enters the unique index again when its status       *)
(* changes: another standing row of its key makes the commit fail.         *)
Clashes(i) == rows[i].status = "dead" /\ \E j \in Ids \ {i} : Standing(j, rows[i].key)

Unblocked(i) == rows[i].status = "dead" =>
  \A j \in Ids \ {i} : Standing(j, rows[i].key) => rows[j].by = Committed

CommitSent(w) ==
  LET i == work[w].id
  IN  /\ work[w].pc = "accepted" /\ Unblocked(i)
      /\ rows' = IF Clashes(i) THEN rows
                 ELSE [rows EXCEPT ![i].status = "sent", ![i].attempts = @ + 1,
                                   ![i].sent = @ + 1]
      /\ work' = [work EXCEPT ![w] = Free]
      /\ UNCHANGED <<tx, queue, copies, crashes>>

CommitFailed(w) ==
  LET i == work[w].id
  IN  /\ work[w].pc = "refused" /\ Unblocked(i)
      /\ IF Clashes(i)
         THEN rows' = rows /\ work' = [work EXCEPT ![w] = Free]
         ELSE /\ rows' = [rows EXCEPT ![i].status = "failed", ![i].attempts = @ + 1,
                                      ![i].failed = @ + 1]
              /\ work' = [work EXCEPT ![w].pc = "retry"]
      /\ UNCHANGED <<tx, queue, copies, crashes>>

(* self.retry publishes the next attempt, then the old message is          *)
(* acknowledged.  Out of retries, Celery raises MaxRetriesExceededError,   *)
(* which the task answers with mark_dead, or the transport error it was    *)
(* given, which the task does not catch.                                   *)
Retry(w) ==
  /\ work[w].pc = "retry"
  /\ \/ /\ work[w].tries < MaxRetries
        /\ queue' = [queue EXCEPT ![<<work[w].id, work[w].tries + 1>>] = @ + 1]
        /\ work' = [work EXCEPT ![w].pc = "acking"]
     \/ /\ work[w].tries = MaxRetries
        /\ queue' = queue
        /\ \/ work' = [work EXCEPT ![w].pc = "bury"]
           \/ work' = [work EXCEPT ![w] = Free]
  /\ UNCHANGED <<rows, tx, copies, crashes>>

Acknowledge(w) ==
  /\ work[w].pc = "acking"
  /\ work' = [work EXCEPT ![w] = Free]
  /\ UNCHANGED <<rows, tx, queue, copies, crashes>>

(* mark_dead looks at no status: whatever the row became meanwhile, it is  *)
(* dead.  Its UPDATE waits for a worker that holds the row.                *)
MarkDead(w) ==
  /\ work[w].pc = "bury" /\ ~Locked(work[w].id)
  /\ rows' = [rows EXCEPT ![work[w].id].status = "dead", ![work[w].id].failed = @ + 1]
  /\ work' = [work EXCEPT ![w] = Free]
  /\ UNCHANGED <<tx, queue, copies, crashes>>

(* Mutant: the message was acknowledged when it was taken.                   *)
CrashAcknowledged(w) ==
  /\ work[w].pc # "idle" /\ crashes < MaxCrashes
  /\ crashes' = crashes + 1
  /\ work' = [work EXCEPT ![w] = Free]
  /\ UNCHANGED <<rows, tx, queue, copies>>

(* A dead worker's transaction is rolled back and its message, not yet     *)
(* acknowledged, is delivered again.                                       *)
CrashWorker(w) ==
  /\ work[w].pc # "idle" /\ crashes < MaxCrashes
  /\ crashes' = crashes + 1
  /\ queue' = [queue EXCEPT ![<<work[w].id, work[w].tries>>] = @ + 1]
  /\ work' = [work EXCEPT ![w] = Free]
  /\ UNCHANGED <<rows, tx, copies>>

-----------------------------------------------------------------------------
SenderStep(s) ==
  \/ AlreadySent(s) \/ FindExisting(s) \/ PersistNotification(s)
  \/ Commit(s) \/ DrainPendingEnqueues(s)

WorkerStep(w) ==
  \/ TakeRow(w) \/ Send(w) \/ CommitSent(w) \/ CommitFailed(w)
  \/ Retry(w) \/ Acknowledge(w) \/ MarkDead(w)

OutboxInit ==
  /\ rows = [i \in Ids |-> NoRow]
  /\ tx = [s \in Senders |-> Idle]
  /\ queue = [m \in Messages |-> 0]
  /\ work = [w \in Workers |-> Free]
  /\ copies = [i \in Ids |-> 0]
  /\ crashes = 0

OutboxNext ==
  \/ \E s \in Senders : (\E batch \in Seq(Notification) : Stage(s, batch))
                        \/ SenderStep(s) \/ CrashSender(s)
  \/ \E w \in Workers : WorkerStep(w) \/ CrashWorker(w)

OutboxSpec == OutboxInit /\ [][OutboxNext]_outboxVars

-----------------------------------------------------------------------------
(* What the outbox promises *)

(* An uncommitted row is not posted yet; "queued" and "failed" both wait.  *)
NoteOf(i) ==
  IF rows[i].status = "none" \/ rows[i].by # Committed
  THEN [key |-> NoKey, chan |-> "in_app", standing |-> "unposted"]
  ELSE [key |-> rows[i].key, chan |-> rows[i].chan,
        standing |-> CASE rows[i].status = "suppressed" -> "muted"
                       [] rows[i].status = "sent" -> "confirmed"
                       [] rows[i].status = "dead" -> "given_up"
                       [] OTHER -> "waiting"]

Promise == INSTANCE AtLeastOnce WITH note <- [i \in Ids |-> NoteOf(i)]

(* The outbox implements AtLeastOnce: nothing is marked sent that no driver *)
(* accepted, a muted recipient is never written to, and at no time do two   *)
(* standing notifications share a deduplication key, whatever crashes,      *)
(* redeliveries and racing senders do.                                      *)
PromiseKept == Promise!Spec

(* The delivery log records a second success of one notification only after *)
(* it had been given up, and the driver accepts more copies than processes  *)
(* died only then: the row lock and the "sent" check absorb redelivery.     *)
DeliveredOnce ==
  \A i \in Ids : rows[i].sent > 1 \/ copies[i] > 1 + crashes
                   => rows[i].failed >= MaxRetries + 2
=============================================================================
