----------------------------- MODULE Attachments -----------------------------
(***************************************************************************)
(* core/attachments and its worker tasks: files are stored by content, a   *)
(* row per reference is scanned by a task posted after the upload commits  *)
(* and by a five-minute sweep, images are served re-encoded, and the       *)
(* retention clock starts when the claim that owns the files is paid.      *)
(*                                                                         *)
(* Scans, sweeps and the payment are transactions: a flushed row stays     *)
(* locked until its transaction ends, the first flush also takes the audit *)
(* chain's advisory lock, and an UPDATE carries only the columns whose     *)
(* value differs from the one that was loaded.  Bytes are a content, whose *)
(* type and verdict are constants; the scanner may also fail at any call.  *)
(* Time is counted in years of 365 days.                                   *)
(***************************************************************************)
EXTENDS Naturals, Sequences, FiniteSets

CONSTANTS
  Ids,          \* core_attachments.id, 1..n, handed out in order
  MediaOf,      \* content -> "image" | "pdf" | "other"
  Infected,     \* the contents ClamAV reports
  Undecodable,  \* the images Pillow cannot re-encode
  SweepLimit,   \* scan_pending_attachments(limit)
  MaxRetries,   \* scan_attachment max_retries
  MaxCrashes,   \* bound: processes that die
  MaxPayments,  \* bound: attempts to record the payment
  Clock,        \* the years at which the clock is looked at
  Scenarios,    \* what a behaviour may do (see Init)
  None

Contents == DOMAIN MediaOf
Txns == {"task", "sweep", "payment"}

(* Keys of the store: the bytes received, and what reencode_image makes of  *)
(* them, stored under its own hash.                                         *)
Received(c) == <<c, "received">>
Derived(c) == <<c, "reencoded">>

ScanStatuses == {"pending", "clean", "infected", "error"}
Files ==
  [content : Contents, media : {"image", "pdf"}, via : {"evidence", "generated", "core"},
   origin : {"uploaded", "generated"}, scan : ScanStatuses,
   sanitized : {Derived(c) : c \in Contents} \cup {None}, deleted : BOOLEAN,
   starts : Nat \cup {None}, hold : BOOLEAN, class : {"default", "financial_dv_10y"}]

(* Ids are handed out from 1 on; what the platform renders itself is a PDF. *)
ASSUME AttachmentsAssumption ==
  /\ IsFiniteSet(Ids) /\ Ids = 1 .. Cardinality(Ids)
  /\ Clock \subseteq Nat /\ MaxRetries \in Nat
  /\ \A s \in Scenarios :
       /\ s.files \in Seq(SUBSET (Contents \X {"evidence", "generated", "core"}))
       /\ \A k \in 1 .. Len(s.files) : \A f \in s.files[k] :
            f[2] = "generated" => MediaOf[f[1]] = "pdf"
  /\ None \notin Files /\ None \notin Nat /\ None \notin ScanStatuses
  /\ None \notin {Derived(c) : c \in Contents} /\ None \notin Txns /\ None \notin Contents

VARIABLES
  row,      \* core_attachments, or None while the id is unused
  blobs,    \* the content-addressed store
  queue,    \* posted scan tasks: <<id, retries>>
  request,  \* the upload in progress
  reader,   \* the download in progress: the row as it was loaded, or None
  tx,       \* the open transactions
  chain,    \* who holds the audit chain's lock, or None
  claim,    \* [status, at, tries]: the owning claim, its payment's time and
            \* the attempts to record it
  now,
  crashes,  \* processes that have died so far
  played,   \* the scenario
  served,   \* history: <<content of the row, its origin, blob served>>
  cleared   \* history: contents a scanner has called clean

vars == <<row, blobs, queue, request, reader, tx, chain, claim, now, crashes, played,
          served, cleared>>

Unwritten == [i \in {} |-> None]
Idle == [st |-> "idle", todo |-> {}, seen |-> None, set |-> None,
         wrote |-> Unwritten, msg |-> None, last |-> None, at |-> None]
NoRequest == [st |-> "idle", content |-> None, via |-> None, id |-> None]

(* Scenario [files: for each upload in turn, the <<content, route>> it may  *)
(* be; who: the other parts of the system that act].                        *)
Init ==
  /\ row = [i \in Ids |-> None] /\ blobs = {} /\ queue = {}
  /\ request = NoRequest /\ reader = None
  /\ tx = [t \in Txns |-> Idle] /\ chain = None
  /\ claim = [status |-> "open", at |-> None, tries |-> 0]
  /\ now = 0 /\ crashes = 0 /\ played \in Scenarios /\ served = {} /\ cleared = {}

Acts(part) == part \in played.who

-----------------------------------------------------------------------------
(* Locks.                                                                   *)
Holder(i) == {t \in Txns : i \in DOMAIN tx[t].wrote}
RowFree(t, i) == Holder(i) \subseteq {t}
ChainFree(t) == chain \in {None, t}

(* Rows are taken in the order of their keys.                               *)
First(ids) == CHOOSE i \in ids : \A j \in ids : i <= j

(* t waits for u: for the row it wants to flush, or for the chain.          *)
WaitsFor(t, u) ==
  \/ tx[t].st = "flush" /\ u \in Holder(First(tx[t].todo)) \ {t}
  \/ tx[t].st = "chain" /\ chain = u /\ u # t

-----------------------------------------------------------------------------
(* Upload.  validate_upload refuses what is not on the magic-byte list.     *)
Accepted(c) == MediaOf[c] \in {"image", "pdf"}

NextId == Cardinality({i \in Ids : row[i] # None}) + 1

(* upload_attachment stores the bytes before the row exists.  Routes:       *)
(* "evidence" and "generated" belong to the claim, which must be open for   *)
(* them; "core" is POST /attachments, with no holder.                       *)
SaveBytes(c, via) ==
  /\ request.st = "idle" /\ NextId <= Len(played.files) /\ NextId \in Ids
  /\ <<c, via>> \in played.files[NextId]
  /\ Accepted(c)
  /\ via # "core" => claim.status = "open"
  /\ blobs' = blobs \cup {Received(c)}
  /\ request' = [st |-> "saved", content |-> c, via |-> via, id |-> None]
  /\ UNCHANGED <<row, queue, reader, tx, chain, claim, now, crashes, played, served, cleared>>

NewRow(c, via) ==
  [content |-> c, media |-> MediaOf[c], via |-> via,
   origin |-> IF via = "generated" THEN "generated" ELSE "uploaded",
   scan |-> IF via = "generated" THEN "clean" ELSE "pending",
   sanitized |-> None, deleted |-> FALSE, starts |-> None, hold |-> FALSE,
   class |-> IF via = "core" THEN "default" ELSE "financial_dv_10y"]

CommitUpload ==
  /\ request.st = "saved" /\ ChainFree(None)
  /\ request.via # "core" => claim.status = "open"
  /\ row' = [row EXCEPT ![NextId] = NewRow(request.content, request.via)]
  /\ request' = IF request.via = "generated" THEN NoRequest
                ELSE [request EXCEPT !.st = "committed", !.id = NextId]
  /\ UNCHANGED <<blobs, queue, reader, tx, chain, claim, now, crashes, played, served, cleared>>

(* scan_on_commit: the after_commit hook posts the task.                    *)
DrainScans ==
  /\ request.st = "committed"
  /\ queue' = queue \cup {<<request.id, 0>>}
  /\ request' = NoRequest
  /\ UNCHANGED <<row, blobs, reader, tx, chain, claim, now, crashes, played, served, cleared>>

(* The web process dies, or the request is rolled back.                     *)
CrashRequest ==
  /\ Acts("crash") /\ crashes < MaxCrashes /\ request.st # "idle"
  /\ request' = NoRequest
  /\ crashes' = crashes + 1
  /\ UNCHANGED <<row, blobs, queue, reader, tx, chain, claim, now, played, served, cleared>>

-----------------------------------------------------------------------------
(* Scanning.  A task names one row; the sweep takes a page of the rows that *)
(* still need a verdict, oldest first; mutant: it leaves out the failed     *)
(* ones.                                                                    *)
PendingOnly(r) == r.scan = "pending"
NeedsScan(r) == r.scan \in {"pending", "error"}

Visible(i) == row[i] # None /\ ~row[i].deleted

SweepPage ==
  LET due == {i \in Ids : Visible(i) /\ NeedsScan(row[i])}
  IN {i \in due : Cardinality({j \in due : j < i}) < SweepLimit}

BeginTask(m) ==
  /\ m \in queue /\ tx["task"] = Idle
  /\ queue' = queue \ {m}
  /\ tx' = [tx EXCEPT !["task"] = [Idle EXCEPT !.st = "load", !.todo = {m[1]}, !.msg = m]]
  /\ UNCHANGED <<row, blobs, request, reader, chain, claim, now, crashes, played, served, cleared>>

BeginSweep ==
  /\ Acts("sweep") /\ tx["sweep"] = Idle /\ SweepPage # {}
  /\ tx' = [tx EXCEPT !["sweep"] = [Idle EXCEPT !.st = "load", !.todo = SweepPage]]
  /\ UNCHANGED <<row, blobs, queue, request, reader, chain, claim, now, crashes, played, served, cleared>>

Advance(t) ==
  LET rest == tx[t].todo \ {First(tx[t].todo)}
  IN [tx[t] EXCEPT !.todo = rest, !.seen = None, !.set = None,
                   !.last = IF tx[t].set = None THEN @ ELSE tx[t].set.scan,
                   !.st = IF rest = {} THEN "commit" ELSE "load"]

AdvanceFlush(t) ==
  LET rest == tx[t].todo \ {First(tx[t].todo)}
  IN [tx[t] EXCEPT !.todo = rest, !.st = IF rest = {} THEN "commit" ELSE "flush"]

(* process_attachment's SELECT: a row that is gone raises and ends the      *)
(* transaction, a settled one is left alone.                                *)
LoadRow(t) ==
  /\ t # "payment" /\ tx[t].st = "load"
  /\ LET i == First(tx[t].todo)
     IN IF ~Visible(i)
        THEN /\ tx' = [tx EXCEPT ![t] = Idle]
             /\ chain' = IF chain = t THEN None ELSE chain
        ELSE /\ tx' = [tx EXCEPT ![t] =
                        IF NeedsScan(row[i])
                        THEN [@ EXCEPT !.st = "scan", !.seen = row[i]]
                        ELSE Advance(t)]
             /\ UNCHANGED chain
  /\ UNCHANGED <<row, blobs, queue, request, reader, claim, now, crashes, played, served, cleared>>

Verdict(c) == IF c \in Infected THEN "infected" ELSE "clean"

(* What the scan of content c leaves on the row: an image that will not     *)
(* re-encode is an error, a re-encoded one names its derivative.            *)
Outcome(c, media, verdict) ==
  IF verdict = "clean" /\ media = "image"
  THEN IF c \in Undecodable THEN [scan |-> "error", sanitized |-> None]
       ELSE [scan |-> "clean", sanitized |-> Derived(c)]
  ELSE [scan |-> verdict, sanitized |-> None]

(* Mutant: the derivative's bytes are not saved.                            *)
KeepDerivative(out) == {}
SavedBy(out) == {out.sanitized} \ {None}

(* storage.read, scanner.scan, reencode_image, storage.save.                *)
ScanBytes(t, verdict) ==
  /\ tx[t].st = "scan" /\ verdict \in {Verdict(tx[t].seen.content), "error"}
  /\ IF verdict = "error" THEN Acts("outage") ELSE Received(tx[t].seen.content) \in blobs
  /\ LET out == Outcome(tx[t].seen.content, tx[t].seen.media, verdict)
     IN /\ blobs' = blobs \cup SavedBy(out)
        /\ tx' = [tx EXCEPT ![t].st = "flush", ![t].set = out]
  /\ cleared' = IF verdict = "clean" THEN cleared \cup {tx[t].seen.content} ELSE cleared
  /\ UNCHANGED <<row, queue, request, reader, chain, claim, now, crashes, played, served>>

(* The columns an UPDATE carries: the assigned ones that differ from what   *)
(* was loaded (None: not carried).                                          *)
Changed(new, old) == IF new = old THEN None ELSE new

UpdateOf(t) ==
  IF t = "payment" THEN [scan |-> None, sanitized |-> None, starts |-> tx[t].at]
  ELSE [scan |-> Changed(tx[t].set.scan, tx[t].seen.scan),
        sanitized |-> IF tx[t].set.sanitized = None THEN None
                      ELSE Changed(tx[t].set.sanitized, tx[t].seen.sanitized),
        starts |-> None]

(* The flush of the next row is over: the audit rows are written, and the   *)
(* chain's lock is kept until the transaction ends.                         *)
Flushed(t, wrote) ==
  /\ chain' = t
  /\ tx' = [tx EXCEPT ![t] = [(IF t = "payment" THEN AdvanceFlush(t) ELSE Advance(t))
                                EXCEPT !.wrote = wrote]]

(* session.flush() for one row: it waits for the row's lock, then for the   *)
(* chain's.                                                                 *)
FlushRow(t) ==
  /\ tx[t].st = "flush" /\ RowFree(t, First(tx[t].todo))
  /\ LET i == First(tx[t].todo)
         wrote == [j \in DOMAIN tx[t].wrote \cup {i} |->
                     IF j = i THEN UpdateOf(t) ELSE tx[t].wrote[j]]
     IN IF ChainFree(t) THEN Flushed(t, wrote)
        ELSE /\ tx' = [tx EXCEPT ![t].st = "chain", ![t].wrote = wrote]
             /\ UNCHANGED chain
  /\ UNCHANGED <<row, blobs, queue, request, reader, claim, now, crashes, played, served, cleared>>

LockChain(t) ==
  /\ tx[t].st = "chain" /\ ChainFree(t)
  /\ Flushed(t, tx[t].wrote)
  /\ UNCHANGED <<row, blobs, queue, request, reader, claim, now, crashes, played, served, cleared>>

Carried(new, old) == IF new = None THEN old ELSE new

Written(t) ==
  [i \in Ids |->
     IF i \notin DOMAIN tx[t].wrote THEN row[i]
     ELSE LET ch == tx[t].wrote[i]
          IN [row[i] EXCEPT !.scan = Carried(ch.scan, @),
                            !.sanitized = Carried(ch.sanitized, @),
                            !.starts = Carried(ch.starts, @)]]

(* scan_attachment raises self.retry while its own verdict was an error.    *)
Retried(t) ==
  IF t = "task" /\ tx[t].last = "error" /\ tx[t].msg[2] < MaxRetries
  THEN {<<tx[t].msg[1], tx[t].msg[2] + 1>>} ELSE {}

CommitTxn(t) ==
  /\ tx[t].st = "commit"
  /\ row' = Written(t)
  /\ queue' = queue \cup Retried(t)
  /\ claim' = IF t = "payment" THEN [claim EXCEPT !.status = "closed", !.at = tx[t].at] ELSE claim
  /\ tx' = [tx EXCEPT ![t] = Idle]
  /\ chain' = IF chain = t THEN None ELSE chain
  /\ UNCHANGED <<blobs, request, reader, now, crashes, played, served, cleared>>

(* PostgreSQL rolls back one transaction of a wait cycle.  The payment's    *)
(* claim is open again; a failed task is acknowledged and not retried.      *)
AbortDeadlocked(t) ==
  /\ \E u \in Txns \ {t} : WaitsFor(t, u) /\ WaitsFor(u, t)
  /\ tx' = [tx EXCEPT ![t] = Idle]
  /\ chain' = IF chain = t THEN None ELSE chain
  /\ claim' = IF t = "payment" THEN [claim EXCEPT !.status = "open"] ELSE claim
  /\ UNCHANGED <<row, blobs, queue, request, reader, now, crashes, played, served, cleared>>

(* acks_late: the broker redelivers a task whose worker died; the sweep     *)
(* comes again by itself.                                                   *)
CrashWorker(t) ==
  /\ Acts("crash") /\ crashes < MaxCrashes /\ t # "payment" /\ tx[t] # Idle
  /\ queue' = queue \cup ({tx[t].msg} \ {None})
  /\ tx' = [tx EXCEPT ![t] = Idle]
  /\ chain' = IF chain = t THEN None ELSE chain
  /\ crashes' = crashes + 1
  /\ UNCHANGED <<row, blobs, request, reader, claim, now, played, served, cleared>>

-----------------------------------------------------------------------------
(* record_payout and record_settlement, the parts that touch the files: the *)
(* payment's first flush takes the chain, start_retention then selects the  *)
(* claim's live files without a clock and stamps them in key order; mutant: *)
(* only the files already found clean.                                      *)
StampCleanOnly(r) == r.via # "core" /\ r.starts = None /\ ~r.deleted /\ r.scan = "clean"
Stamps(r) == r.via # "core" /\ r.starts = None /\ ~r.deleted

BeginPayment ==
  /\ Acts("payment") /\ claim.status = "open" /\ request.st = "idle" /\ ChainFree("payment")
  /\ claim.tries < MaxPayments
  /\ \E i \in Ids : row[i] # None /\ row[i].via # "core"
  /\ chain' = "payment"
  /\ claim' = [claim EXCEPT !.status = "paying", !.tries = @ + 1]
  /\ tx' = [tx EXCEPT !["payment"] = [Idle EXCEPT !.st = "load", !.at = now]]
  /\ UNCHANGED <<row, blobs, queue, request, reader, now, crashes, played, served, cleared>>

SelectFiles ==
  /\ tx["payment"].st = "load"
  /\ LET files == {i \in Ids : row[i] # None /\ Stamps(row[i])}
     IN tx' = [tx EXCEPT !["payment"].todo = files,
                         !["payment"].st = IF files = {} THEN "commit" ELSE "flush"]
  /\ UNCHANGED <<row, blobs, queue, request, reader, chain, claim, now, crashes, played, served, cleared>>

-----------------------------------------------------------------------------
(* DELETE /attachments/{id} and remove_claim_evidence: the row is marked,   *)
(* the bytes stay.                                                          *)
SoftDelete(i) ==
  /\ Acts("delete") /\ Visible(i) /\ Holder(i) = {} /\ chain = None
  /\ row' = [row EXCEPT ![i].deleted = TRUE]
  /\ UNCHANGED <<blobs, queue, request, reader, tx, chain, claim, now, crashes, played, served, cleared>>

(* download_attachment: the row is loaded, the holder's authorizer is       *)
(* awaited, and what was loaded decides.                                    *)
LoadForDownload(i) ==
  /\ Acts("download") /\ reader = None /\ Visible(i)
  /\ reader' = row[i]
  /\ UNCHANGED <<row, blobs, queue, request, tx, chain, claim, now, crashes, played, served, cleared>>

(* Mutant: an image is served as it was received.                           *)
OriginalKey(r) == Received(r.content)
ServedKey(r) == IF r.sanitized # None THEN r.sanitized ELSE Received(r.content)

Ready(r) == r.scan = "clean"

(* The authorizer may deny, and the gate may refuse: nothing is served.     *)
Refuse ==
  /\ reader # None
  /\ reader' = None
  /\ UNCHANGED <<row, blobs, queue, request, tx, chain, claim, now, crashes, played, served, cleared>>

Serve ==
  /\ reader # None /\ Ready(reader) /\ ServedKey(reader) \in blobs
  /\ served' = served \cup {<<reader.content, reader.origin, ServedKey(reader)>>}
  /\ reader' = None
  /\ UNCHANGED <<row, blobs, queue, request, tx, chain, claim, now, crashes, played, cleared>>

-----------------------------------------------------------------------------
(* retention.py.  RETENTION_CLASSES; no years: never disposable.            *)
RetentionYears ==
  [default |-> 10, financial_dv_10y |-> 10, permanent |-> None, transitory |-> 3]

RetainUntil(class, starts) ==
  IF starts = None \/ RetentionYears[class] = None THEN None
  ELSE starts + RetentionYears[class]

(* evaluate_candidate, as disposal_eligibility_report lists every row.      *)
Eligible(r) ==
  /\ ~r.hold
  /\ RetainUntil(r.class, r.starts) # None
  /\ RetainUntil(r.class, r.starts) <= now

DisposalReport == {i \in Ids : row[i] # None /\ Eligible(row[i])}

(* A records officer sets legal_hold; nothing under src/ does.              *)
PlaceHold(i) ==
  /\ Acts("hold") /\ row[i] # None /\ ~row[i].hold
  /\ row' = [row EXCEPT ![i].hold = TRUE]
  /\ UNCHANGED <<blobs, queue, request, reader, tx, chain, claim, now, crashes, played, served, cleared>>

Tick ==
  /\ Acts("time") /\ \E y \in Clock : y > now
  /\ now' = CHOOSE y \in Clock : y > now /\ \A z \in Clock : z > now => z >= y
  /\ UNCHANGED <<row, blobs, queue, request, reader, tx, chain, claim, crashes, played, served, cleared>>

-----------------------------------------------------------------------------
Upload ==
  \/ \E c \in Contents, via \in {"evidence", "generated", "core"} : SaveBytes(c, via)
  \/ CommitUpload \/ DrainScans \/ CrashRequest

Scans(t) ==
  LoadRow(t) \/ (\E v \in {"clean", "infected", "error"} : ScanBytes(t, v))

Steps(t) == FlushRow(t) \/ LockChain(t) \/ CommitTxn(t) \/ AbortDeadlocked(t)

Next ==
  \/ Upload
  \/ \E m \in queue : BeginTask(m)
  \/ BeginSweep
  \/ \E t \in Txns : Scans(t) \/ Steps(t) \/ CrashWorker(t)
  \/ BeginPayment \/ SelectFiles
  \/ \E i \in Ids : SoftDelete(i) \/ LoadForDownload(i) \/ PlaceHold(i)
  \/ Refuse \/ Serve
  \/ Tick

Spec == Init /\ [][Next]_vars

(* The sweep comes every five minutes and finishes, a transaction that can  *)
(* go on does, and the scanner's outages end: a sweep that keeps reaching   *)
(* the scanner is answered in the end.                                      *)
Fairness ==
  /\ WF_vars(BeginSweep \/ Scans("sweep") \/ Steps("sweep"))
  /\ WF_vars(Scans("task") \/ Steps("task"))
  /\ WF_vars(SelectFiles \/ Steps("payment"))
  /\ SF_vars(\E v \in {"clean", "infected"} : ScanBytes("sweep", v))

FairSpec == Spec /\ Fairness

-----------------------------------------------------------------------------
(* Whatever was downloaded had been called clean by a scan of those bytes,  *)
(* or was produced by the platform, and an image left only re-encoded: for  *)
(* all overlaps of scans, deletions and downloads, the row being read once  *)
(* and served later.                                                        *)
ServedIsCleared ==
  \A s \in served :
    /\ s[2] = "uploaded" => s[1] \in cleared \ Infected
    /\ s[2] = "uploaded" /\ MediaOf[s[1]] = "image" => s[3] = Derived(s[1])

(* A row that says clean can be served: its bytes, or for an uploaded image *)
(* its re-encoded bytes, are in the store, whichever transaction's columns  *)
(* were written last and whatever crashed (claim_evidence offers a link for *)
(* such rows only).                                                         *)
ReadyIsServable ==
  \A i \in Ids :
    row[i] # None /\ Ready(row[i]) =>
      /\ ServedKey(row[i]) \in blobs
      /\ MediaOf[row[i].content] \in {"image", "pdf"}
      /\ row[i].media = "image" => row[i].sanitized = Derived(row[i].content)

(* Once the claim is paid its whole live file carries the payment's date,   *)
(* uploads of any scan state and generated documents alike, and nothing is  *)
(* reported disposable that is on hold, was never dated, or was paid for    *)
(* less than its class's years ago.                                         *)
FilesAreDated ==
  \A i \in Ids :
    row[i] # None =>
      /\ claim.status = "closed" /\ row[i].via # "core" /\ ~row[i].deleted
           => row[i].starts = claim.at
      /\ i \in DisposalReport =>
           claim.status = "closed" /\ row[i].via # "core" /\ ~row[i].hold
           /\ claim.at + 10 <= now

(* A file gets its verdict in the end, though tasks are lost, retried only  *)
(* MaxRetries times, overwritten by an overlapping scan or rolled back: as  *)
(* long as fewer files than the sweep's limit stand before it that can      *)
(* never get one.                                                           *)
Hopeless(i) ==
  Visible(i) /\ row[i].origin = "uploaded" /\ row[i].content \in Undecodable \ Infected

ScansSettle ==
  \A i \in Ids :
    (Visible(i) /\ Acts("sweep") /\ ~Hopeless(i)
       /\ Cardinality({j \in 1..(i - 1) : Hopeless(j)}) < SweepLimit)
    ~> (row[i] # None /\ (row[i].deleted \/ row[i].scan \in {"clean", "infected"}))

=============================================================================
