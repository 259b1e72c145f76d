------------------------------ MODULE ClaimPacket ------------------------------
(***************************************************************************)
(* The packet of one claim: its checklist rows and uploads (services/      *)
(* checklist.py over core/checklist/engine.py), the official copies of its *)
(* form and of the combined packet (core/documents/snapshots.py), and the  *)
(* worker passes that render them (documents/service.py, ops/document_     *)
(* tasks.py) while the claimant and the approvers go on working.           *)
(*                                                                         *)
(* A request that changes anything takes the audit chain's lock before its *)
(* first write and ends in one commit, so it is one step.  A pass reads    *)
(* the claim once, without a lock, and renders for seconds; it takes the   *)
(* lock at its first write and keeps it to its commit.  The claim object   *)
(* it read is the one it uses to the end (the ORM does not refresh it), so *)
(* a pass is two steps or three: the reads, and the write.                 *)
(*                                                                         *)
(* The claim's printed data is one value of Facts.  With the catalog in    *)
(* force it decides which checklist rows the rules require and what the    *)
(* automatic checks say (ChecklistRules).  The catalog is reference data:  *)
(* a seed run revises it in place, whatever claims are in flight.          *)
(***************************************************************************)
EXTENDS ChecklistRules

CONSTANTS
  Uploads,      \* catalog codes a claimant attaches files to
  Form,         \* the catalog code of the generated form
  Facts,        \* claim data
  FactsOf,      \* claim data -> the facts the rules read
  Catalogs,     \* revision -> code -> its rule, evidence kind and checks
  FilesFor,     \* upload code -> the files that may be attached to it (a bound)
  Situations,   \* a behaviour's data, revisions, retries (self.max_retries) and passes
                \* that may run at once (worker --concurrency) (a bound)
  Jobs,         \* slots for ops.generate_documents messages (a bound)
  None

Codes == Uploads \cup {Form}
Files == UNION {FilesFor[c] : c \in Uploads}

ASSUME PacketAssumption ==
  /\ Form \notin Uploads
  /\ \A v \in DOMAIN Catalogs : \A c \in Codes :
       /\ ValidateRequiredRule(Catalogs[v][c].rule)
       /\ Catalogs[v][c].evidence \in BlockingEvidence <=> c \in Uploads
  /\ Situations \subseteq [facts: SUBSET Facts, catalogs: SUBSET DOMAIN Catalogs,
                             retries: Nat, workers: Nat]
  /\ \A c, d \in Uploads : c # d => FilesFor[c] \cap FilesFor[d] = {}

VARIABLES
  status,     \* the claim's status, reduced to who may act
  facts,      \* the claim's data
  receipt,    \* the settlement's OR number is recorded (printed once known)
  rows,       \* code -> its reimb_checklist_items row
  generated,  \* the Form row's status is "generated"
  held,       \* code -> files joined to its row
  infected,   \* files the scanner condemned
  official,   \* document -> the content of its active snapshot, or None
  job,        \* slot -> a queued or running pass, or None
  overlapped, \* the last pass to begin found another one running
  unfiled,    \* a pass was lost or gave up, and none has begun since
  catalog,    \* the revision of the catalog in force
  revised,    \* it was revised since the claim was last submitted
  scope       \* the situation examined

claim == <<status, facts, receipt>>
checklist == <<rows, generated, held, infected>>
rules == <<catalog, revised, scope>>
vars == <<claim, checklist, official, job, overlapped, unfiled, rules>>

Editable == {"draft", "returned"}
Filed == {"in_chain", "settled"}
Documents == {"form", "packet"}

Init ==
  /\ scope \in Situations
  /\ catalog \in scope.catalogs /\ revised = FALSE
  /\ status = "draft" /\ facts \in scope.facts /\ receipt = FALSE
  /\ rows = [c \in Codes |-> "none"]
  /\ generated = FALSE
  /\ held = [c \in Codes |-> {}]
  /\ infected = {}
  /\ official = [d \in Documents |-> None]
  /\ job = [k \in Jobs |-> None]
  /\ overlapped = FALSE /\ unfiled = FALSE

-----------------------------------------------------------------------------
(* core/checklist/engine.py.  A scan that is pending counts as evidence,    *)
(* an infected one does not (attachments.py evidence_counts).               *)
Usable(h, c) == h[c] \ infected

(* ItemState.holds_something; mutant: a generated document alone counts.    *)
HoldsGenerated(h, gen, c) == c = Form /\ gen
HoldsSomething(h, gen, c) == Usable(h, c) # {} \/ (c = Form /\ gen)

(* evaluate_required_rule on the claim data f.                              *)
Evaluated == {<<v, f, c, EvaluateRequiredRule(Catalogs[v][c].rule, FactsOf[f])>>
              : v \in DOMAIN Catalogs, f \in Facts, c \in Codes}
Required == {<<t[1], t[2], t[3]>> : t \in {t \in Evaluated : t[4].required}}
Unreadable == {<<t[1], t[2], t[3]>> : t \in {t \in Evaluated : t[4].unparseable}}
OutcomeOf(f, c) ==
  [required |-> <<catalog, f, c>> \in Required,
   unparseable |-> <<catalog, f, c>> \in Unreadable]

(* plan_checklist and refresh_checklist on one row.                         *)
PlanChecklist(f, row, h, gen, c) ==
  RowAfter(Action(OutcomeOf(f, c), row, HoldsSomething(h, gen, c)), row)

(* refresh_checklist, for the claim data f.                                 *)
Refresh(f, r, h, gen) == [c \in Codes |-> PlanChecklist(f, r[c], h, gen, c)]

(* _item_for_catalog and materialize_generated_item: the row that is to     *)
(* hold something is created or revived.                                    *)
Materialize(r, c) == [r EXCEPT ![c] = "live"]

(* _states: the tally of a row's files, and its generated status.           *)
Item(h, gen, c) ==
  [count |-> Cardinality(Usable(h, c)), infected |-> Cardinality(h[c] \cap infected),
   generated |-> c = Form /\ gen]

(* packet_status over the plan: what blocks a submit.                       *)
Blocking(f, h) ==
  {c \in Codes :
     LET spec == Catalogs[catalog][c]
         item == Item(h, generated, c)
     IN  Blocks(spec, OutcomeOf(f, c), item, RunAutoChecks(spec.checks, FactsOf[f], item))}

(* assert_persisted_packet_complete: what blocks an approval.               *)
PersistedBlocking == {c \in Uploads : rows[c] = "live" /\ Usable(held, c) = {}}

-----------------------------------------------------------------------------
(* core/documents/queue.py: the after_commit hook sends one message, which  *)
(* is lost if the process dies or the broker is away.                       *)
NewJob ==
  [phase |-> "queued", tries |-> 0, of |-> None, form |-> None, files |-> {},
   failed |-> FALSE]

FreeSlot == \E k \in Jobs : job[k] = None

GenerateOnCommit ==
  \/ /\ \E k \in Jobs : job[k] = None /\ job' = [job EXCEPT ![k] = NewJob]
     /\ UNCHANGED unfiled
  \/ unfiled' = TRUE /\ UNCHANGED job

(* core/documents/snapshots.py: one active copy of each document, which the *)
(* next one supersedes.                                                     *)
FreezeSnapshot(d, copy) == official' = [official EXCEPT ![d] = copy]
VoidSnapshots == official' = [d \in Documents |-> None]

(* core/seeds apply_dataset: the catalog rows are updated in place.         *)
ReviseCatalog(v) ==
  /\ v \in scope.catalogs /\ v > catalog
  /\ catalog' = v /\ revised' = (revised \/ status \in Filed)
  /\ UNCHANGED <<claim, checklist, official, job, overlapped, unfiled, scope>>

(* drafts.py update_draft_fields, replace_legs.                             *)
EditFields(f) ==
  /\ status \in Editable /\ f # facts /\ f \in scope.facts
  /\ facts' = f
  /\ VoidSnapshots
  /\ UNCHANGED <<status, receipt, checklist, job, unfiled>>

(* checklist.py attach_evidence: _item_for_catalog revives the row, the     *)
(* copies are voided, the checklist is refreshed.                           *)
AttachEvidence(c, x) ==
  /\ status \in Editable
  /\ x \notin held[c]
  /\ LET h == [held EXCEPT ![c] = @ \cup {x}]
     IN  /\ held' = h
         /\ rows' = Refresh(facts, Materialize(rows, c), h, generated)
  /\ VoidSnapshots
  /\ UNCHANGED <<claim, generated, infected, job, unfiled>>

(* checklist.py detach_evidence: the row must be live.  The next upload is  *)
(* a new attachment, so x starts again unscanned.                           *)
DetachEvidence(c, x) ==
  /\ status \in Editable
  /\ rows[c] = "live" /\ x \in held[c]
  /\ LET h == [held EXCEPT ![c] = @ \ {x}]
     IN  held' = h /\ rows' = Refresh(facts, rows, h, generated)
  /\ infected' = infected \ {x}
  /\ VoidSnapshots
  /\ UNCHANGED <<claim, generated, job, unfiled>>

(* The scanner's verdict, at any time after the upload; it touches the      *)
(* attachment only.                                                         *)
Condemn(c, x) ==
  /\ x \in held[c] \ infected
  /\ infected' = infected \cup {x}
  /\ UNCHANGED <<claim, rows, generated, held, official, job, unfiled>>

(* api/checklist.py generate_documents: the owner while editable, a         *)
(* reviewer or approver at any time.                                        *)
RequestDocuments ==
  /\ FreeSlot
  /\ GenerateOnCommit
  /\ UNCHANGED <<claim, checklist, official>>

(* lifecycle.py submit_claim and the resubmit branch of claim_action:       *)
(* assert_packet_complete refreshes, then refuses or lets the claim in.     *)
(* Mutant: no pass is queued.                                               *)
SubmitUnqueued ==
  /\ status \in Editable
  /\ FreeSlot
  /\ Blocking(facts, held) = {}
  /\ rows' = Refresh(facts, rows, held, generated)
  /\ status' = "in_chain"
  /\ UNCHANGED <<facts, receipt, generated, held, infected, official, job, unfiled>>

Submit ==
  /\ status \in Editable
  /\ FreeSlot
  /\ Blocking(facts, held) = {}
  /\ rows' = Refresh(facts, rows, held, generated)
  /\ status' = "in_chain"
  /\ GenerateOnCommit
  /\ UNCHANGED <<facts, receipt, generated, held, infected, official>>

(* claim_action return.                                                     *)
Return ==
  /\ status = "in_chain"
  /\ status' = "returned"
  /\ UNCHANGED <<facts, receipt, checklist, official, job, unfiled>>

(* settlement.py settle_liquidation: the OR number, the gated approve, and  *)
(* one more pass, since the report prints the number.                       *)
Settle ==
  /\ status = "in_chain"
  /\ FreeSlot
  /\ PersistedBlocking = {}
  /\ status' = "settled" /\ receipt' = TRUE
  /\ GenerateOnCommit
  /\ UNCHANGED <<facts, checklist, official>>

-----------------------------------------------------------------------------
(* documents/context.py: what a form prints, is_draft_claim included.       *)
Current == [facts |-> facts, receipt |-> receipt, draft |-> status \in Editable]

(* The upload manifest of the packet: files on the rows the view shows.     *)
Manifest(r, f) ==
  UNION {held[c] : c \in {c \in Codes : r[c] = "live" \/ OutcomeOf(f, c).required}}

PacketOf(of, form, files) == [of |-> of, form |-> form, files |-> files]

Running == {k \in Jobs : job[k] # None /\ job[k].phase # "queued"}
InPhase(k, phase) == job[k] # None /\ job[k].phase = phase

(* service.py generate_claim_documents and _generate_one up to the render:  *)
(* the claim is read, and the form is unchanged if its fingerprint and      *)
(* draft flag are those of the active snapshot.  Mutant: the flag is not    *)
(* compared.                                                                *)
ReadClaimAnyFlag(k) ==
  /\ InPhase(k, "queued") /\ Cardinality(Running) < scope.workers
  /\ LET same == official["form"] # None /\ official["form"].facts = facts
                   /\ official["form"].receipt = receipt
     IN  job' = [job EXCEPT ![k] =
           [@ EXCEPT !.of = Current, !.form = IF same THEN Current ELSE None,
                     !.phase = IF same THEN "packet" ELSE "form"]]
  /\ overlapped' = (Running # {}) /\ unfiled' = FALSE
  /\ UNCHANGED <<claim, checklist, official>>

ReadClaim(k) ==
  /\ InPhase(k, "queued") /\ Cardinality(Running) < scope.workers
  /\ LET same == official["form"] = Current
     IN  job' = [job EXCEPT ![k] =
           [@ EXCEPT !.of = Current, !.form = IF same THEN Current ELSE None,
                     !.phase = IF same THEN "packet" ELSE "form"]]
  /\ overlapped' = (Running # {}) /\ unfiled' = FALSE
  /\ UNCHANGED <<claim, checklist, official>>

(* document_tasks.py generate_documents after its commit: retry when a      *)
(* document failed and attempts are left.                                   *)
EndPass(k, failed) ==
  LET p == job[k]
  IN  IF failed /\ p.tries < scope.retries
      THEN /\ job' = [job EXCEPT ![k] = [NewJob EXCEPT !.tries = p.tries + 1]]
           /\ UNCHANGED unfiled
      ELSE /\ job' = [job EXCEPT ![k] = None]
           /\ unfiled' = (unfiled \/ failed)

(* The packet of a pass whose form rendered: its cover prints that form's   *)
(* hash.                                                                    *)
PacketLast(of, r) == PacketOf(of, of, Manifest(r, of.facts))

(* The form renders: its row is materialized and marked, its copy frozen,   *)
(* the checklist refreshed from the claim as the pass read it; then the     *)
(* packet, in the same transaction.                                         *)
RenderForm(k) ==
  /\ InPhase(k, "form")
  /\ LET of == job[k].of
         r  == Refresh(of.facts, Materialize(rows, Form), held, TRUE)
     IN  /\ rows' = r /\ generated' = TRUE
         /\ \/ /\ official' = [form |-> of, packet |-> PacketLast(of, r)]
               /\ EndPass(k, job[k].failed)
            \/ /\ FreezeSnapshot("form", of)
               /\ EndPass(k, TRUE)
  /\ UNCHANGED <<claim, held, infected>>

(* RenderFailed: the pass goes on to the packet, whose cover has no hash    *)
(* for the form.                                                            *)
FailForm(k) ==
  /\ InPhase(k, "form")
  /\ job' = [job EXCEPT ![k] = [@ EXCEPT !.phase = "packet", !.failed = TRUE]]
  /\ UNCHANGED <<claim, checklist, official, unfiled>>

(* build_document_context raises: nothing is compared or rendered.          *)
NoContext(k) ==
  /\ InPhase(k, "queued") /\ Cardinality(Running) < scope.workers
  /\ job' = [job EXCEPT ![k] = [@ EXCEPT !.of = Current, !.phase = "packet", !.failed = TRUE]]
  /\ overlapped' = (Running # {}) /\ unfiled' = FALSE
  /\ UNCHANGED <<claim, checklist, official>>

(* service.py _generate_packet up to the render.                            *)
ReadPacket(k) ==
  /\ InPhase(k, "packet")
  /\ LET p     == job[k]
         files == Manifest(rows, p.of.facts)
     IN  IF official["packet"] = PacketOf(p.of, p.form, files)
         THEN EndPass(k, p.failed)
         ELSE /\ job' = [job EXCEPT ![k] = [@ EXCEPT !.phase = "bind", !.files = files]]
              /\ UNCHANGED unfiled
  /\ UNCHANGED <<claim, checklist, official>>

BindPacket(k) ==
  /\ InPhase(k, "bind")
  /\ LET p == job[k]
     IN  FreezeSnapshot("packet", PacketOf(p.of, p.form, p.files))
  /\ EndPass(k, job[k].failed)
  /\ UNCHANGED <<claim, checklist>>

(* build_packet_context raises, or RenderFailed.                            *)
FailPacket(k) ==
  /\ InPhase(k, "packet") \/ InPhase(k, "bind")
  /\ EndPass(k, TRUE)
  /\ UNCHANGED <<claim, checklist, official>>

(* The worker is killed before its commit: acks_late delivers the message   *)
(* again.                                                                   *)
Crash(k) ==
  /\ k \in Running
  /\ job' = [job EXCEPT ![k] = [NewJob EXCEPT !.tries = job[k].tries]]
  /\ UNCHANGED <<claim, checklist, official, unfiled>>

(* Any other exception or the time limit ends the task: its transaction is  *)
(* rolled back, its message acknowledged, and nothing retries it.           *)
Abort(k) ==
  /\ k \in Running
  /\ job' = [job EXCEPT ![k] = None]
  /\ unfiled' = TRUE
  /\ UNCHANGED <<claim, checklist, official>>

Pass(k) ==
  RenderForm(k) \/ FailForm(k) \/ ReadPacket(k) \/ BindPacket(k) \/ FailPacket(k)

Request ==
  \/ \E f \in Facts : EditFields(f)
  \/ \E c \in Uploads : \E x \in FilesFor[c] :
       AttachEvidence(c, x) \/ DetachEvidence(c, x) \/ Condemn(c, x)
  \/ RequestDocuments \/ Submit \/ Return \/ Settle

Step ==
  \/ \E k \in Jobs : ReadClaim(k) \/ NoContext(k)
  \/ /\ Request \/ \E k \in Jobs : Pass(k) \/ Crash(k) \/ Abort(k)
     /\ UNCHANGED overlapped

Next ==
  \/ \E v \in DOMAIN Catalogs : ReviseCatalog(v)
  \/ /\ Step
     /\ revised' = (revised /\ ~(status \in Editable /\ status' = "in_chain"))
     /\ UNCHANGED <<catalog, scope>>

Spec == Init /\ [][Next]_vars

(* The step at which a pass commits and its message is acknowledged or      *)
(* retried.                                                                 *)
Ends(k) ==
  /\ RenderForm(k) \/ ReadPacket(k) \/ BindPacket(k) \/ FailPacket(k)
  /\ job'[k] = None \/ job'[k].phase = "queued"

(* An idle worker takes a message, a running pass goes on, Celery delivers  *)
(* a message again until it is acknowledged, and a worker is not killed in  *)
(* every attempt before its commit.                                         *)
FairSpec ==
  /\ Spec
  /\ WF_vars(\E k \in Jobs : ReadClaim(k) /\ UNCHANGED rules)
  /\ SF_vars(\E k \in Jobs : Pass(k) /\ UNCHANGED <<overlapped, rules>>)
  /\ SF_vars(\E k \in Jobs : Ends(k) /\ UNCHANGED <<overlapped, rules>>)

-----------------------------------------------------------------------------
FormCopy == [facts: Facts, receipt: BOOLEAN, draft: BOOLEAN]
PacketCopy == [of: FormCopy, form: FormCopy \cup {None}, files: SUBSET Files]
Job == [phase: {"queued", "form", "packet", "bind"}, tries: 0 .. scope.retries,
        of: FormCopy \cup {None}, form: FormCopy \cup {None}, files: SUBSET Files,
        failed: BOOLEAN]

TypeOK ==
  /\ status \in Editable \cup Filed /\ facts \in Facts /\ receipt \in BOOLEAN
  /\ rows \in [Codes -> {"none", "live", "dormant"}]
  /\ generated \in BOOLEAN
  /\ held \in [Codes -> SUBSET Files] /\ infected \subseteq Files
  /\ official["form"] \in FormCopy \cup {None}
  /\ official["packet"] \in PacketCopy \cup {None}
  /\ \A k \in Jobs : job[k] = None \/ job[k] \in Job
  /\ overlapped \in BOOLEAN /\ unfiled \in BOOLEAN /\ revised \in BOOLEAN
  /\ catalog \in scope.catalogs

(* No pass is queued or running, and none was lost or gave up.              *)
Quiet == ~unfiled /\ \A k \in Jobs : job[k] = None

(* The same, and the last pass to begin ran alone.                          *)
QuietAlone == Quiet /\ ~overlapped

Authoritative ==
  /\ official["form"] = Current
  /\ official["packet"] = PacketOf(Current, Current, Manifest(rows, facts))

(* "Submit regenerates authoritatively" (_invalidate_packet): once the      *)
(* passes have run out, the last one alone, a claim in the chain has an     *)
(* official form and packet, not drafts, that state its own data and list   *)
(* its own files, whatever came before: edits and uploads during a render,  *)
(* overlapping passes, retries, crashes, returns, catalog revisions before  *)
(* the submit.  The hashes on a cover are those of the filed form, for      *)
(* drafts too (_generate_packet goes last for this).                        *)
FiledIsAuthoritative ==
  QuietAlone =>
    /\ status \in Filed /\ ~revised => Authoritative
    /\ official["form"] # None /\ official["packet"] # None =>
         official["packet"].form = official["form"]

(* "Never block without a path", "in-flight always finishes": what the      *)
(* submit gate asks for is a file on an upload row, never that a check      *)
(* stops flagging or a document is generated.  Once the passes have run     *)
(* out, the last one alone, and the catalog stands, the approve gate        *)
(* (assert_persisted_packet_complete) stops a claim in the chain only for   *)
(* files condemned since, never for a row left behind by a pass that        *)
(* refreshed the checklist from data edited meanwhile.                      *)
OnlyFilesBlock ==
  /\ \A c \in Blocking(facts, held) : c \in Uploads /\ Usable(held, c) = {}
  /\ QuietAlone /\ status = "in_chain" /\ ~revised =>
       \A c \in PersistedBlocking : held[c] # {}

(* "Fresh evaluation mid-approval would let a catalog edit retroactively    *)
(* block a claim already in the chain" (assert_persisted_packet_complete):  *)
(* the same, whatever becomes of the catalog.                               *)
CatalogEditsDoNotBlock ==
  QuietAlone /\ status = "in_chain" => \A c \in PersistedBlocking : held[c] # {}

(* "An item that stops applying but already holds evidence is never         *)
(* removed" (plan_checklist): usable files and a generated form always sit  *)
(* on a live row, also after a refresh from stale data.                     *)
EvidenceKept ==
  /\ \A c \in Uploads : Usable(held, c) # {} => rows[c] = "live"
  /\ generated => rows[Form] = "live"

(* "the draft a claimant previewed is automatically retired by the          *)
(* authoritative version generated at submit" (documents/service.py): no    *)
(* claim in the chain is left with a draft as its official form.            *)
DraftIsRetired ==
  Quiet /\ status \in Filed /\ official["form"] # None => ~official["form"].draft

(* A submitted claim gets its official documents, unless its message was    *)
(* lost or every attempt failed, two passes overlapped, or it leaves the    *)
(* chain first.                                                             *)
SubmittedIsFiled ==
  status = "in_chain"
    ~> (Authoritative \/ unfiled \/ overlapped \/ status # "in_chain")
=============================================================================
