------------------------------- MODULE Directory -------------------------------
(***************************************************************************)
(* core/directory/ingest.py: a personnel feed becomes org units and staff   *)
(* rows.  A feed is validated in memory against the units read at its start *)
(* and applied in one transaction: the first write takes the audit chain's  *)
(* lock, so an import is two steps, the read with its validation and the    *)
(* write.  The ORM writes the columns that differ from what it read.        *)
(*                                                                          *)
(* A feed is [units, staff, prune, malformed]: units maps the codes it      *)
(* names to [parent, kind], staff the employee numbers to [division,        *)
(* section, email]; malformed stands for the row-level errors (a missing    *)
(* code, name or number, a duplicate).  A unit's id is its code.            *)
(***************************************************************************)
EXTENDS OrgUnits, FiniteSetsExt

CONSTANTS
  Employees,     \* employee numbers
  NoEmail,       \* NULL email
  Importers,     \* imports that may be under way at once
  Idle,
  MaxTreeDepth   \* _MAX_TREE_DEPTH

VARIABLES
  units,      \* unit -> row of core_org_units, or NoRow
  staff,      \* employee number -> row of core_staff, or NoRow
  importing   \* importer -> [feed, seen], or Idle

directory == <<units, staff, importing>>

OrgKinds == {"office", "division", "section", "unit"}

-----------------------------------------------------------------------------
(* _detect_org_cycles: the walk from a code through the feed's own parents  *)
(* meets a code again, or is deeper than the guard.                         *)
Loops(specs, code) ==
  LET at[d \in 0 .. MaxTreeDepth + 1] ==
        IF d = 0 THEN code
        ELSE IF at[d - 1] \in DOMAIN specs THEN specs[at[d - 1]].parent ELSE NoUnit
  IN  at[MaxTreeDepth + 1] \in DOMAIN specs

DetectOrgCycles(specs) == {code \in DOMAIN specs : Loops(specs, code)}

(* _topological_order (Kahn): the codes in batches, none of whose parents   *)
(* is still to come.  Mutant: the order of the codes.                       *)
FeedOrder(specs) == [k \in 1 .. Cardinality(DOMAIN specs) |-> IF k = 1 THEN DOMAIN specs ELSE {}]

TopologicalOrder(specs) ==
  LET n == Cardinality(DOMAIN specs)
      placed[k \in 0 .. n] ==
        IF k = 0 THEN {}
        ELSE placed[k - 1] \cup
             {c \in DOMAIN specs : specs[c].parent \notin DOMAIN specs \ placed[k - 1]}
  IN  [k \in 1 .. n |-> placed[k] \ placed[k - 1]]

(* The `while remaining` loop ends, and every parent has its row by the     *)
(* time code_to_unit is asked for it.                                       *)
Placeable(specs, seen) ==
  LET order == TopologicalOrder(specs)
      before(k) == UNION {order[j] : j \in 1 .. k - 1}
  IN  /\ UNION {order[k] : k \in DOMAIN order} = DOMAIN specs
      /\ \A k \in DOMAIN order : \A c \in order[k] :
           specs[c].parent # NoUnit =>
             specs[c].parent \in before(k) \/ seen[specs[c].parent] # NoRow

-----------------------------------------------------------------------------
(* The checks ingest_directory makes before it writes anything.             *)
KnownParents(specs, seen) ==
  \A c \in DOMAIN specs :
    specs[c].parent \in DOMAIN specs \cup {NoUnit} \/ seen[specs[c].parent] # NoRow

KindAfter(specs, seen, code) ==
  IF code \in DOMAIN specs THEN specs[code].kind
  ELSE IF seen[code] # NoRow THEN seen[code].kind ELSE "unknown"

StaffPlaced(feed, seen) ==
  \A e \in DOMAIN feed.staff :
    LET s == feed.staff[e]
    IN  /\ s.division # NoUnit => KindAfter(feed.units, seen, s.division) = "division"
        /\ s.section # NoUnit => KindAfter(feed.units, seen, s.section) = "section"

EmailsDistinct(people) ==
  \A e, f \in DOMAIN people :
    e # f /\ people[e].email # NoEmail => people[e].email # people[f].email

Valid(feed, seen) ==
  /\ ~feed.malformed
  /\ \A c \in DOMAIN feed.units : feed.units[c].kind \in OrgKinds
  /\ KnownParents(feed.units, seen)
  /\ DetectOrgCycles(feed.units) = {}
  /\ EmailsDistinct(feed.staff)
  /\ StaffPlaced(feed, seen)

-----------------------------------------------------------------------------
(* The writes.  A unit row keeps what a concurrent import changed in a      *)
(* column this one found already right.                                     *)
MergedUnit(row, loaded, spec) ==
  IF loaded = NoRow THEN [parent |-> spec.parent, kind |-> spec.kind, live |-> TRUE]
  ELSE [parent |-> IF spec.parent # loaded.parent THEN spec.parent ELSE row.parent,
        kind   |-> IF spec.kind # loaded.kind THEN spec.kind ELSE row.kind,
        live   |-> loaded.live => row.live]

ApplyOrgUnits(specs, seen) ==
  [c \in Units |-> IF c \in DOMAIN specs THEN MergedUnit(units[c], seen[c], specs[c])
                                         ELSE units[c]]

LiveStaff(people) == {e \in Employees : people[e] # NoRow /\ people[e].live}

NextStaffId == 1 + Max({0} \cup {staff[e].id : e \in {f \in Employees : staff[f] # NoRow}})

(* A staff row: found by its number and revived, or created.                *)
StaffRow(e, spec) ==
  [id       |-> IF staff[e] = NoRow THEN NextStaffId + Cardinality({f \in Employees : staff[f] = NoRow /\ f < e})
                                    ELSE staff[e].id,
   division |-> spec.division, section |-> spec.section, email |-> spec.email, live |-> TRUE]

ApplyStaff(specs) ==
  [e \in Employees |-> IF e \in DOMAIN specs THEN StaffRow(e, specs[e]) ELSE staff[e]]

(* uq_core_staff_email, checked at each row of the flush: the UPDATEs run   *)
(* in id order, so an address may also still be held by a later row.        *)
EmailTaken(specs) ==
  LET new == ApplyStaff(specs)
      clash(a, b) == a.email # NoEmail /\ a.email = b.email
  IN  \E e \in DOMAIN specs : \E f \in Employees \ {e} :
        \/ new[f] # NoRow /\ new[f].live /\ clash(new[e], new[f])
        \/ /\ f \in LiveStaff(staff) \cap DOMAIN specs /\ staff[e] # NoRow
           /\ staff[f].id > staff[e].id /\ clash(new[e], staff[f])

(* deactivate_absent: an empty staff feed prunes nobody.                    *)
Prunes(feed) == feed.prune /\ DOMAIN feed.staff # {}

Pruned(feed, people) ==
  IF ~Prunes(feed) THEN people
  ELSE [e \in Employees |-> IF e \in LiveStaff(people) \ DOMAIN feed.staff
                            THEN [people[e] EXCEPT !.live = FALSE] ELSE people[e]]

-----------------------------------------------------------------------------
(* POST /directory/import or the ingest-directory command, up to its first  *)
(* write.  A feed that does not validate is answered with its errors.       *)
BeginImport(p, feed) ==
  /\ importing[p] = Idle
  /\ Valid(feed, units)
  /\ importing' = [importing EXCEPT ![p] = [feed |-> feed, seen |-> units]]
  /\ UNCHANGED <<units, staff>>

(* A unit created meanwhile, an address in use or a prune against an empty  *)
(* feed rolls the import back.                                              *)
Refused(feed, seen) ==
  \/ \E c \in DOMAIN feed.units : seen[c] = NoRow /\ units[c] # NoRow
  \/ EmailTaken(feed.staff)
  \/ feed.prune /\ ~Prunes(feed)

CommitImport(p) ==
  /\ importing[p] # Idle
  /\ LET feed == importing[p].feed
         seen == importing[p].seen
     IN  IF Refused(feed, seen) THEN UNCHANGED <<units, staff>>
         ELSE /\ units' = ApplyOrgUnits(feed.units, seen)
              /\ staff' = Pruned(feed, ApplyStaff(feed.staff))
  /\ importing' = [importing EXCEPT ![p] = Idle]

(* Nothing in the code disbands a unit; the walks and the import handle one *)
(* an administrator disbanded in the database.                              *)
DisbandUnit(x) ==
  /\ LiveUnit(units, x)
  /\ units' = [units EXCEPT ![x].live = FALSE]
  /\ UNCHANGED <<staff, importing>>
=============================================================================
