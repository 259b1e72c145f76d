---------------------------- MODULE LockOrderProofs ----------------------------
(***************************************************************************)
(* With any number of transactions, the orderly routes never deadlock.     *)
(*                                                                         *)
(* Some locks are guarded: they are only requested by a transaction that   *)
(* holds an exclusive lock every other requester also holds (the claim for *)
(* the workflow rows, the audit lock for the counter and the files), so    *)
(* nobody ever waits for them.  The rest are always taken in the order     *)
(* advance, claim, audit, and a transaction waiting for the last of them   *)
(* waits for one that waits for nothing.                                   *)
(***************************************************************************)
EXTENDS LockOrder, TLAPS

ClaimGuarded == {"instance", "gate", "fms_gate"}
AuditGuarded == {"counter", "attachment"}
Guarded == ClaimGuarded \cup AuditGuarded

Requests ==
  [lock: Guarded \cup {"advance", "claim", "audit"},
   mode: {"update", "no_key", "key_share"}, skip: BOOLEAN]

(* Every guarded request comes after request number j, the guard.           *)
GuardedBy(sc, j, guard, locks) ==
  \/ \A k \in 1 .. Len(sc) : sc[k].lock \notin locks
  \/ /\ j \in 1 .. Len(sc) /\ sc[j] = For(guard)
     /\ \A k \in 1 .. Len(sc) : sc[k].lock \in locks => j < k

Ordered(sc) ==
  \A k \in 1 .. Len(sc) : \A j \in 1 .. Len(sc) : j < k =>
    /\ sc[j].lock = "audit" => sc[k].lock \in Guarded
    /\ sc[j].lock = "claim" => sc[k].lock \in Guarded \cup {"audit"}
    /\ sc[j].lock = "advance" => sc[k].lock \in Guarded \cup {"audit", "claim"}

(* What the scripts of the orderly routes have in common.                   *)
OrderlyScript(sc) ==
  /\ sc \in Seq(Requests)
  /\ \E j \in Nat : GuardedBy(sc, j, "claim", ClaimGuarded)
  /\ \E j \in Nat : GuardedBy(sc, j, "audit", AuditGuarded)
  /\ Ordered(sc)

(* A script is orderly once the places of its guards are known.             *)
LEMMA OrderlyIf ==
  ASSUME NEW sc, sc \in Seq(Requests), NEW c \in Nat, NEW a \in Nat,
         GuardedBy(sc, c, "claim", ClaimGuarded),
         GuardedBy(sc, a, "audit", AuditGuarded), Ordered(sc)
  PROVE  OrderlyScript(sc)
BY DEF OrderlyScript

(* Every orderly route's requests (claim_action, record_payout, ...) follow *)
(* that discipline.                                                         *)
LEMMA ScriptsAreOrderly == \A r \in OrderlyRoutes : OrderlyScript(Script[r])
<1> USE DEF For, Updates, Refers, SkipLocked, Guarded, ClaimGuarded, AuditGuarded
<1>1. OrderlyScript(DecideScript)
  <2>1. DecideScript \in Seq(Requests)
    BY DEF DecideScript, Requests
  <2>2. GuardedBy(DecideScript, 1, "claim", ClaimGuarded)
    BY DEF DecideScript, GuardedBy
  <2>3. GuardedBy(DecideScript, 1, "audit", AuditGuarded)
    BY DEF DecideScript, GuardedBy
  <2>4. Ordered(DecideScript)
    BY DEF DecideScript, Ordered
  <2> QED
    BY <2>1, <2>2, <2>3, <2>4, OrderlyIf
<1>2. OrderlyScript(FmsReturnScript)
  <2>1. FmsReturnScript \in Seq(Requests)
    BY DEF FmsReturnScript, Requests
  <2>2. GuardedBy(FmsReturnScript, 1, "claim", ClaimGuarded)
    BY DEF FmsReturnScript, GuardedBy
  <2>3. GuardedBy(FmsReturnScript, 1, "audit", AuditGuarded)
    BY DEF FmsReturnScript, GuardedBy
  <2>4. Ordered(FmsReturnScript)
    BY DEF FmsReturnScript, Ordered
  <2> QED
    BY <2>1, <2>2, <2>3, <2>4, OrderlyIf
<1>3. OrderlyScript(MarkPaidScript)
  <2>1. MarkPaidScript \in Seq(Requests)
    BY DEF MarkPaidScript, Requests
  <2>2. GuardedBy(MarkPaidScript, 1, "claim", ClaimGuarded)
    BY DEF MarkPaidScript, GuardedBy
  <2>3. GuardedBy(MarkPaidScript, 2, "audit", AuditGuarded)
    BY DEF MarkPaidScript, GuardedBy
  <2>4. Ordered(MarkPaidScript)
    BY DEF MarkPaidScript, Ordered
  <2> QED
    BY <2>1, <2>2, <2>3, <2>4, OrderlyIf
<1>4. OrderlyScript(SubmitScript)
  <2>1. SubmitScript \in Seq(Requests)
    BY DEF SubmitScript, Requests
  <2>2. GuardedBy(SubmitScript, 1, "claim", ClaimGuarded)
    BY DEF SubmitScript, GuardedBy
  <2>3. GuardedBy(SubmitScript, 2, "audit", AuditGuarded)
    BY DEF SubmitScript, GuardedBy
  <2>4. Ordered(SubmitScript)
    BY DEF SubmitScript, Ordered
  <2> QED
    BY <2>1, <2>2, <2>3, <2>4, OrderlyIf
<1>5. OrderlyScript(ResubmitScript)
  <2>1. ResubmitScript \in Seq(Requests)
    BY DEF ResubmitScript, Requests
  <2>2. GuardedBy(ResubmitScript, 1, "claim", ClaimGuarded)
    BY DEF ResubmitScript, GuardedBy
  <2>3. GuardedBy(ResubmitScript, 1, "audit", AuditGuarded)
    BY DEF ResubmitScript, GuardedBy
  <2>4. Ordered(ResubmitScript)
    BY DEF ResubmitScript, Ordered
  <2> QED
    BY <2>1, <2>2, <2>3, <2>4, OrderlyIf
<1>6. OrderlyScript(EditScript)
  <2>1. EditScript \in Seq(Requests)
    BY DEF EditScript, Requests
  <2>2. GuardedBy(EditScript, 1, "claim", ClaimGuarded)
    BY DEF EditScript, GuardedBy
  <2>3. GuardedBy(EditScript, 1, "audit", AuditGuarded)
    BY DEF EditScript, GuardedBy
  <2>4. Ordered(EditScript)
    BY DEF EditScript, Ordered
  <2> QED
    BY <2>1, <2>2, <2>3, <2>4, OrderlyIf
<1>7. OrderlyScript(RelayScript)
  <2>1. RelayScript \in Seq(Requests)
    BY DEF RelayScript, Requests
  <2>2. GuardedBy(RelayScript, 1, "claim", ClaimGuarded)
    BY DEF RelayScript, GuardedBy
  <2>3. GuardedBy(RelayScript, 1, "audit", AuditGuarded)
    BY DEF RelayScript, GuardedBy
  <2>4. Ordered(RelayScript)
    BY DEF RelayScript, Ordered
  <2> QED
    BY <2>1, <2>2, <2>3, <2>4, OrderlyIf
<1>8. OrderlyScript(LiquidateScript)
  <2>1. LiquidateScript \in Seq(Requests)
    BY DEF LiquidateScript, Requests
  <2>2. GuardedBy(LiquidateScript, 1, "claim", ClaimGuarded)
    BY DEF LiquidateScript, GuardedBy
  <2>3. GuardedBy(LiquidateScript, 1, "audit", AuditGuarded)
    BY DEF LiquidateScript, GuardedBy
  <2>4. Ordered(LiquidateScript)
    BY DEF LiquidateScript, Ordered
  <2> QED
    BY <2>1, <2>2, <2>3, <2>4, OrderlyIf
<1>9. OrderlyScript(SettleScript)
  <2>1. SettleScript \in Seq(Requests)
    BY DEF SettleScript, Requests
  <2>2. GuardedBy(SettleScript, 2, "claim", ClaimGuarded)
    BY DEF SettleScript, GuardedBy
  <2>3. GuardedBy(SettleScript, 3, "audit", AuditGuarded)
    BY DEF SettleScript, GuardedBy
  <2>4. Ordered(SettleScript)
    BY DEF SettleScript, Ordered
  <2> QED
    BY <2>1, <2>2, <2>3, <2>4, OrderlyIf
<1>10. OrderlyScript(OverdueScript)
  <2>1. OverdueScript \in Seq(Requests)
    BY DEF OverdueScript, Requests
  <2>2. GuardedBy(OverdueScript, 1, "claim", ClaimGuarded)
    BY DEF OverdueScript, GuardedBy
  <2>3. GuardedBy(OverdueScript, 1, "audit", AuditGuarded)
    BY DEF OverdueScript, GuardedBy
  <2>4. Ordered(OverdueScript)
    BY DEF OverdueScript, Ordered
  <2> QED
    BY <2>1, <2>2, <2>3, <2>4, OrderlyIf
<1> HIDE DEF For, Updates, Refers, SkipLocked, Guarded, ClaimGuarded, AuditGuarded
<1> QED
  BY <1>1, <1>2, <1>3, <1>4, <1>5, <1>6, <1>7, <1>8, <1>9, <1>10
  DEF OrderlyRoutes, Script

-----------------------------------------------------------------------------
(* Requests t has completed.                                                *)
Granted(t) == {Script[route[t]][k] : k \in 1 .. pc[t]}

(* t holds what it has asked for so far, unless it is a sweep that skipped. *)
HoldsItsRequests(t) ==
  /\ route[t] = NoRoute => pc[t] = 0 /\ held[t] = {}
  /\ route[t] # NoRoute =>
       /\ pc[t] <= Len(Script[route[t]])
       /\ held[t] = Granted(t) \/ (held[t] = {} /\ pc[t] = Len(Script[route[t]]))

Exclusive(t, u) ==
  \A l \in held[t], m \in held[u] : l.lock = m.lock => ~Conflicts(l.mode, m.mode)

LockInv ==
  /\ route \in [Txns -> Routes \cup {NoRoute}]
  /\ pc \in [Txns -> Nat]
  /\ held \in [Txns -> SUBSET Requests]
  /\ \A t \in Txns : HoldsItsRequests(t)
  /\ \A t, u \in Txns : t # u => Exclusive(t, u)

(* Only a sweep skips, and it does so at its first request.                 *)
LEMMA ScriptsSkipFirst ==
  \A r \in OrderlyRoutes : \A k \in 1 .. Len(Script[r]) : Script[r][k].skip => k = 1
<1> DEFINE P(sc) == \A k \in 1 .. Len(sc) : sc[k].skip => k = 1
<1>1. P(DecideScript)
  BY DEF DecideScript, For, Updates, Refers, SkipLocked
<1>2. P(FmsReturnScript)
  BY DEF FmsReturnScript, For, Updates, Refers, SkipLocked
<1>3. P(MarkPaidScript)
  BY DEF MarkPaidScript, For, Updates, Refers, SkipLocked
<1>4. P(SubmitScript)
  BY DEF SubmitScript, For, Updates, Refers, SkipLocked
<1>5. P(ResubmitScript)
  BY DEF ResubmitScript, For, Updates, Refers, SkipLocked
<1>6. P(EditScript)
  BY DEF EditScript, For, Updates, Refers, SkipLocked
<1>7. P(RelayScript)
  BY DEF RelayScript, For, Updates, Refers, SkipLocked
<1>8. P(LiquidateScript)
  BY DEF LiquidateScript, For, Updates, Refers, SkipLocked
<1>9. P(SettleScript)
  BY DEF SettleScript, For, Updates, Refers, SkipLocked
<1>10. P(OverdueScript)
  BY DEF OverdueScript, For, Updates, Refers, SkipLocked
<1>11. \A r \in OrderlyRoutes : P(Script[r])
  <2> HIDE DEF P
  <2> QED
    BY <1>1, <1>2, <1>3, <1>4, <1>5, <1>6, <1>7, <1>8, <1>9, <1>10
    DEF OrderlyRoutes, Script
<1> QED
  BY <1>11

(* The script of an open transaction is an orderly sequence of requests.    *)
LEMMA OpenScript ==
  ASSUME Routes \subseteq OrderlyRoutes, LockInv, NEW t \in Txns, route[t] # NoRoute
  PROVE  /\ OrderlyScript(Script[route[t]])
         /\ Script[route[t]] \in Seq(Requests)
         /\ Len(Script[route[t]]) \in Nat
BY ScriptsAreOrderly DEF LockInv, OrderlyScript

(* A waiting transaction holds exactly its completed requests, which lie    *)
(* before the one it waits for.                                             *)
LEMMA WaiterHolds ==
  ASSUME Routes \subseteq OrderlyRoutes, LockInv, NEW t \in Txns, Requesting(t)
  PROVE  /\ held[t] = Granted(t)
         /\ route[t] # NoRoute
         /\ pc[t] \in Nat /\ pc[t] + 1 \in 1 .. Len(Script[route[t]])
         /\ Wants(t) \in Requests
<1>1. route[t] # NoRoute /\ pc[t] < Len(Script[route[t]])
  BY DEF Requesting
<1>2. Script[route[t]] \in Seq(Requests) /\ Len(Script[route[t]]) \in Nat
  BY <1>1, OpenScript
<1>3. pc[t] \in Nat
  BY DEF LockInv
<1>4. pc[t] + 1 \in 1 .. Len(Script[route[t]])
  BY <1>1, <1>2, <1>3
<1>5. held[t] = Granted(t)
  BY <1>1, <1>2, <1>3 DEF LockInv, HoldsItsRequests
<1>6. Script[route[t]][pc[t] + 1] \in Requests
  BY <1>2, <1>4
<1> QED
  BY <1>1, <1>3, <1>4, <1>5, <1>6 DEF Wants

(* Whoever holds a guarded lock holds its guard.                            *)
LEMMA HolderHoldsGuard ==
  ASSUME Routes \subseteq OrderlyRoutes, LockInv, NEW t \in Txns, NEW l \in held[t]
  PROVE  /\ l.lock \in ClaimGuarded => For("claim") \in held[t]
         /\ l.lock \in AuditGuarded => For("audit") \in held[t]
<1> DEFINE sc == Script[route[t]]
<1>1. route[t] # NoRoute /\ held[t] = Granted(t) /\ pc[t] \in Nat /\ pc[t] <= Len(sc)
  BY DEF LockInv, HoldsItsRequests
<1>2. OrderlyScript(sc) /\ Len(sc) \in Nat
  BY <1>1, OpenScript
<1>3. PICK k \in 1 .. pc[t] : l = sc[k]
  BY <1>1 DEF Granted
<1>4. k \in 1 .. Len(sc)
  BY <1>1, <1>2, <1>3
<1>5. ASSUME l.lock \in ClaimGuarded
      PROVE  For("claim") \in held[t]
  <2>1. PICK j \in Nat : GuardedBy(sc, j, "claim", ClaimGuarded)
    BY <1>2 DEF OrderlyScript
  <2>2. j \in 1 .. Len(sc) /\ sc[j] = For("claim") /\ j < k
    BY <2>1, <1>3, <1>4, <1>5 DEF GuardedBy
  <2>3. j \in 1 .. pc[t]
    BY <2>2, <1>1, <1>2, <1>3
  <2> QED
    BY <2>2, <2>3, <1>1 DEF Granted
<1>6. ASSUME l.lock \in AuditGuarded
      PROVE  For("audit") \in held[t]
  <2>1. PICK j \in Nat : GuardedBy(sc, j, "audit", AuditGuarded)
    BY <1>2 DEF OrderlyScript
  <2>2. j \in 1 .. Len(sc) /\ sc[j] = For("audit") /\ j < k
    BY <2>1, <1>3, <1>4, <1>6 DEF GuardedBy
  <2>3. j \in 1 .. pc[t]
    BY <2>2, <1>1, <1>2, <1>3
  <2> QED
    BY <2>2, <2>3, <1>1 DEF Granted
<1> QED
  BY <1>5, <1>6

(* Whoever waits for a guarded lock holds its guard.                        *)
LEMMA WaiterHoldsGuard ==
  ASSUME Routes \subseteq OrderlyRoutes, LockInv, NEW t \in Txns, Requesting(t)
  PROVE  /\ Wants(t).lock \in ClaimGuarded => For("claim") \in held[t]
         /\ Wants(t).lock \in AuditGuarded => For("audit") \in held[t]
<1> DEFINE sc == Script[route[t]]
           k == pc[t] + 1
<1>1. route[t] # NoRoute /\ held[t] = Granted(t) /\ pc[t] \in Nat /\ k \in 1 .. Len(sc)
  BY WaiterHolds
<1>2. OrderlyScript(sc) /\ Len(sc) \in Nat
  BY <1>1, OpenScript
<1>5. ASSUME Wants(t).lock \in ClaimGuarded
      PROVE  For("claim") \in held[t]
  <2>1. PICK j \in Nat : GuardedBy(sc, j, "claim", ClaimGuarded)
    BY <1>2 DEF OrderlyScript
  <2>2. j \in 1 .. Len(sc) /\ sc[j] = For("claim") /\ j < k
    BY <2>1, <1>1, <1>5 DEF GuardedBy, Wants
  <2>3. j \in 1 .. pc[t]
    BY <2>2, <1>1, <1>2
  <2> QED
    BY <2>2, <2>3, <1>1 DEF Granted
<1>6. ASSUME Wants(t).lock \in AuditGuarded
      PROVE  For("audit") \in held[t]
  <2>1. PICK j \in Nat : GuardedBy(sc, j, "audit", AuditGuarded)
    BY <1>2 DEF OrderlyScript
  <2>2. j \in 1 .. Len(sc) /\ sc[j] = For("audit") /\ j < k
    BY <2>1, <1>1, <1>6 DEF GuardedBy, Wants
  <2>3. j \in 1 .. pc[t]
    BY <2>2, <1>1, <1>2
  <2> QED
    BY <2>2, <2>3, <1>1 DEF Granted
<1> QED
  BY <1>5, <1>6

(* What a waiting transaction holds comes, in the lock order, before what   *)
(* it waits for.                                                            *)
LEMMA WaitsForward ==
  ASSUME Routes \subseteq OrderlyRoutes, LockInv, NEW t \in Txns, Requesting(t),
         NEW l \in held[t]
  PROVE  /\ l.lock = "audit" => Wants(t).lock \in Guarded
         /\ l.lock = "claim" => Wants(t).lock \in Guarded \cup {"audit"}
         /\ l.lock = "advance" => Wants(t).lock \in Guarded \cup {"audit", "claim"}
<1> DEFINE sc == Script[route[t]]
           k == pc[t] + 1
<1>1. route[t] # NoRoute /\ held[t] = Granted(t) /\ pc[t] \in Nat /\ k \in 1 .. Len(sc)
  BY WaiterHolds
<1>2. Ordered(sc) /\ Len(sc) \in Nat
  BY <1>1, OpenScript DEF OrderlyScript
<1>3. PICK j \in 1 .. pc[t] : l = sc[j]
  BY <1>1 DEF Granted
<1>4. j \in 1 .. Len(sc) /\ j < k
  BY <1>1, <1>2, <1>3
<1> QED
  BY <1>1, <1>2, <1>3, <1>4 DEF Ordered, Wants

(* Nobody waits for a guarded lock: its holder would share the guard.       *)
LEMMA GuardedNeverAwaited ==
  ASSUME Routes \subseteq OrderlyRoutes, LockInv, NEW t \in Txns, NEW u \in Txns,
         Requesting(t), Wants(t).lock \in Guarded
  PROVE  ~BlockedBy(t, u)
<1> SUFFICES ASSUME BlockedBy(t, u)
             PROVE  FALSE
  OBVIOUS
<1>1. PICK l \in held[u] : l.lock = Wants(t).lock
  BY DEF BlockedBy
<1>2. u # t /\ Exclusive(t, u)
  BY DEF BlockedBy, LockInv
<1>3. CASE Wants(t).lock \in ClaimGuarded
  <2>1. For("claim") \in held[t] /\ For("claim") \in held[u]
    BY <1>1, <1>3, HolderHoldsGuard, WaiterHoldsGuard
  <2> QED
    BY <2>1, <1>2 DEF Exclusive, Conflicts, For
<1>4. CASE Wants(t).lock \in AuditGuarded
  <2>1. For("audit") \in held[t] /\ For("audit") \in held[u]
    BY <1>1, <1>4, HolderHoldsGuard, WaiterHoldsGuard
  <2> QED
    BY <2>1, <1>2 DEF Exclusive, Conflicts, For
<1> QED
  BY <1>3, <1>4 DEF Guarded

(* No group of waiting transactions is stuck: in turn, none of its members  *)
(* waits for a guarded lock, for audit, for the claim, for the advance.     *)
LEMMA InvGivesNoDeadlock ==
  ASSUME Routes \subseteq OrderlyRoutes, LockInv
  PROVE  NoDeadlock
<1> SUFFICES ASSUME NEW group \in SUBSET Txns, group # {}, Stuck(group)
             PROVE  FALSE
  BY DEF NoDeadlock
<1>1. \A t \in group : /\ t \in Txns /\ Requesting(t)
                       /\ \E u \in group : BlockedBy(t, u)
  BY DEF Stuck
<1>2. \A t \in group : Wants(t).lock \notin Guarded
  BY <1>1, GuardedNeverAwaited
<1>3. ASSUME NEW t \in group
      PROVE  \E u \in group : \E l \in held[u] : l.lock = Wants(t).lock
  BY <1>1 DEF BlockedBy
<1>4. ASSUME NEW t \in group
      PROVE  Wants(t).lock # "audit"
  BY <1>1, <1>2, <1>3, WaitsForward, Zenon
<1>5. ASSUME NEW t \in group
      PROVE  Wants(t).lock # "claim"
  BY <1>1, <1>2, <1>3, <1>4, WaitsForward, ZenonT(40)
<1>6. ASSUME NEW t \in group
      PROVE  Wants(t).lock # "advance"
  BY <1>1, <1>2, <1>3, <1>4, <1>5, WaitsForward, ZenonT(30)
<1>7. \A t \in group : Wants(t) \in Requests
  BY <1>1, WaiterHolds
<1> QED
  BY <1>2, <1>4, <1>5, <1>6, <1>7 DEF Requests

(* The invariant gives LocksExclude.                                        *)
LEMMA InvGivesExclusion ==
  ASSUME Routes \subseteq OrderlyRoutes, LockInv
  PROVE  LocksExclude
<1>1. \A t, u \in Txns : \A l \in held[t], m \in held[u] :
        (t # u /\ l.lock = m.lock) => ~Conflicts(l.mode, m.mode)
  BY DEF LockInv, Exclusive
<1>2. For("instance").lock \in ClaimGuarded
  BY DEF For, ClaimGuarded
<1>3. \A t \in Txns : For("instance") \in held[t] => For("claim") \in held[t]
  BY <1>2, HolderHoldsGuard
<1> QED
  BY <1>1, <1>3 DEF LocksExclude

-----------------------------------------------------------------------------
(* The invariant looks at one transaction at a time, or at pairs: a step of *)
(* t keeps it when t keeps its own part and excludes the others.            *)
LEMMA StepOfOne ==
  ASSUME LockInv, NEW t \in Txns,
         NEW r \in Routes \cup {NoRoute}, NEW n \in Nat, NEW h \in SUBSET Requests,
         route' = [route EXCEPT ![t] = r], pc' = [pc EXCEPT ![t] = n],
         held' = [held EXCEPT ![t] = h],
         HoldsItsRequests(t)',
         \A u \in Txns \ {t} : \A l \in h, m \in held[u] :
           l.lock = m.lock => ~Conflicts(l.mode, m.mode) /\ ~Conflicts(m.mode, l.mode)
  PROVE  LockInv'
<1>1. /\ route' \in [Txns -> Routes \cup {NoRoute}]
      /\ pc' \in [Txns -> Nat]
      /\ held' \in [Txns -> SUBSET Requests]
  BY DEF LockInv
<1>2. \A u \in Txns \ {t} : route'[u] = route[u] /\ pc'[u] = pc[u] /\ held'[u] = held[u]
  BY DEF LockInv
<1>3. \A u \in Txns : HoldsItsRequests(u)'
  <2>1. ASSUME NEW u \in Txns \ {t} PROVE HoldsItsRequests(u)'
    <3>1. route'[u] = route[u] /\ pc'[u] = pc[u] /\ held'[u] = held[u]
      BY <1>2
    <3>2. HoldsItsRequests(u)
      BY DEF LockInv
    <3> QED BY <3>1, <3>2 DEF HoldsItsRequests, Granted
  <2> QED BY <2>1
<1>4. held'[t] = h
  BY DEF LockInv
<1>5. ASSUME NEW u \in Txns, NEW w \in Txns, u # w
      PROVE  Exclusive(u, w)'
  <2>1. CASE u = t
    BY <1>2, <1>4, <1>5, <2>1 DEF Exclusive
  <2>2. CASE w = t
    BY <1>2, <1>4, <1>5, <2>2 DEF Exclusive
  <2>3. CASE u # t /\ w # t
    BY <1>2, <1>5, <2>3 DEF Exclusive, LockInv
  <2> QED
    BY <2>1, <2>2, <2>3
<1> QED
  BY <1>1, <1>3, <1>5 DEF LockInv

(* The case of a step after which t holds nothing.                          *)
LEMMA StepToNothing ==
  ASSUME LockInv, NEW t \in Txns, NEW r \in Routes \cup {NoRoute}, NEW n \in Nat,
         route' = [route EXCEPT ![t] = r], pc' = [pc EXCEPT ![t] = n],
         held' = [held EXCEPT ![t] = {}], HoldsItsRequests(t)'
  PROVE  LockInv'
<1> DEFINE h == {}
<1>1. h \in SUBSET Requests /\ held' = [held EXCEPT ![t] = h]
  OBVIOUS
<1>2. \A u \in Txns \ {t} : \A l \in h, m \in held[u] :
        l.lock = m.lock => ~Conflicts(l.mode, m.mode) /\ ~Conflicts(m.mode, l.mode)
  OBVIOUS
<1> HIDE DEF h
<1> QED
  BY <1>1, <1>2, StepOfOne, Zenon

(* A new request holds nothing yet.                                         *)
LEMMA BeginKeeps ==
  ASSUME Routes \subseteq OrderlyRoutes, LockInv, NEW t \in Txns, NEW r \in Routes,
         Begin(t, r)
  PROVE  LockInv'
<1>1. route[t] = NoRoute /\ pc[t] = 0 /\ held[t] = {}
  BY DEF Begin, LockInv, HoldsItsRequests
<1>2. /\ route' = [route EXCEPT ![t] = r]
      /\ pc' = [pc EXCEPT ![t] = 0]
      /\ held' = [held EXCEPT ![t] = {}]
  BY <1>1 DEF Begin, LockInv
<1>3. route'[t] = r /\ pc'[t] = 0 /\ held'[t] = {}
  BY <1>2 DEF LockInv
<1>4. r # NoRoute
  BY RoutesAssumption
<1>5. Script[r] \in Seq(Requests)
  BY ScriptsAreOrderly DEF OrderlyScript
<1>6. Len(Script[r]) \in Nat
  BY <1>5
<1>7. Granted(t)' = {}
  BY <1>3 DEF Granted
<1>8. HoldsItsRequests(t)'
  BY <1>3, <1>4, <1>6, <1>7 DEF HoldsItsRequests
<1>9. r \in Routes \cup {NoRoute} /\ 0 \in Nat
  OBVIOUS
<1> QED
  BY <1>2, <1>8, <1>9, StepToNothing, Zenon

(* A granted request conflicts with nobody's, and joins those held.         *)
LEMMA AcquireKeeps ==
  ASSUME Routes \subseteq OrderlyRoutes, LockInv, NEW t \in Txns, Acquire(t)
  PROVE  LockInv'
<1> DEFINE h == held[t] \cup {Wants(t)}
<1>1. Requesting(t) /\ Free(t)
  BY DEF Acquire
<1>2. /\ held[t] = Granted(t) /\ route[t] # NoRoute
      /\ pc[t] \in Nat /\ pc[t] + 1 \in 1 .. Len(Script[route[t]])
      /\ Wants(t) \in Requests
  BY <1>1, WaiterHolds
<1>3. Len(Script[route[t]]) \in Nat
  BY <1>2, OpenScript
<1>4. /\ route' = [route EXCEPT ![t] = route[t]]
      /\ pc' = [pc EXCEPT ![t] = pc[t] + 1]
      /\ held' = [held EXCEPT ![t] = h]
  BY DEF Acquire, LockInv
<1>5. route'[t] = route[t] /\ pc'[t] = pc[t] + 1 /\ held'[t] = h
  BY <1>4 DEF LockInv
<1>6. Granted(t)' = h
  <2>1. 1 .. pc[t] + 1 = (1 .. pc[t]) \cup {pc[t] + 1}
    BY <1>2
  <2> QED
    BY <2>1, <1>2, <1>5 DEF Granted, Wants
<1>7. HoldsItsRequests(t)'
  BY <1>2, <1>3, <1>5, <1>6 DEF HoldsItsRequests
<1>8. ASSUME NEW u \in Txns \ {t}, NEW l \in h, NEW m \in held[u], l.lock = m.lock
      PROVE  ~Conflicts(l.mode, m.mode) /\ ~Conflicts(m.mode, l.mode)
  <2>1. CASE l \in held[t]
    BY <1>8, <2>1 DEF LockInv, Exclusive
  <2>2. CASE l = Wants(t)
    <3>1. ~Conflicts(m.mode, l.mode)
      BY <1>1, <1>8, <2>2 DEF Free, BlockedBy
    <3> QED
      BY <3>1 DEF Conflicts
  <2> QED
    BY <2>1, <2>2
<1>9. h \in SUBSET Requests
  BY <1>2 DEF LockInv
<1>10. route[t] \in Routes \cup {NoRoute} /\ pc[t] + 1 \in Nat
  BY <1>2 DEF LockInv
<1> HIDE DEF h
<1> QED
  BY <1>4, <1>7, <1>8, <1>9, <1>10, StepOfOne, Zenon

(* A sweep that skips holds nothing and asks for nothing more.              *)
LEMMA SkipKeeps ==
  ASSUME Routes \subseteq OrderlyRoutes, LockInv, NEW t \in Txns, Skip(t)
  PROVE  LockInv'
<1> DEFINE n == Len(Script[route[t]])
<1>1. /\ held[t] = Granted(t) /\ route[t] # NoRoute
      /\ pc[t] \in Nat /\ pc[t] + 1 \in 1 .. n
  BY WaiterHolds DEF Skip
<1>2. n \in Nat /\ OrderlyScript(Script[route[t]])
  BY <1>1, OpenScript
<1>3. pc[t] = 0
  BY <1>1, <1>2, ScriptsSkipFirst DEF Skip, Wants, LockInv
<1>4. held[t] = {}
  BY <1>1, <1>3 DEF Granted
<1>5. /\ route' = [route EXCEPT ![t] = route[t]]
      /\ pc' = [pc EXCEPT ![t] = n]
      /\ held' = [held EXCEPT ![t] = {}]
  BY <1>4 DEF Skip, LockInv
<1>6. route'[t] = route[t] /\ pc'[t] = n /\ held'[t] = {}
  BY <1>5 DEF LockInv
<1>7. HoldsItsRequests(t)'
  BY <1>1, <1>2, <1>6 DEF HoldsItsRequests
<1>8. route[t] \in Routes \cup {NoRoute}
  BY DEF LockInv
<1> HIDE DEF n
<1> QED
  BY <1>2, <1>5, <1>7, <1>8, StepToNothing, Zenon

(* COMMIT and ROLLBACK release everything.                                  *)
LEMMA FinishKeeps ==
  ASSUME LockInv, NEW t \in Txns, Finish(t)
  PROVE  LockInv'
<1>1. /\ route' = [route EXCEPT ![t] = NoRoute]
      /\ pc' = [pc EXCEPT ![t] = 0]
      /\ held' = [held EXCEPT ![t] = {}]
  BY DEF Finish
<1>2. HoldsItsRequests(t)'
  BY <1>1 DEF HoldsItsRequests, LockInv
<1>3. NoRoute \in Routes \cup {NoRoute} /\ 0 \in Nat
  OBVIOUS
<1> QED
  BY <1>1, <1>2, <1>3, StepToNothing, Zenon

(* The invariant holds in every reachable state.                            *)
LEMMA LockInvHolds ==
  ASSUME Routes \subseteq OrderlyRoutes
  PROVE  Spec => []LockInv
<1>1. Init => LockInv
  BY DEF Init, LockInv, HoldsItsRequests, Exclusive
<1>2. ASSUME LockInv, [Next]_vars
      PROVE  LockInv'
  <2>1. ASSUME NEW t \in Txns, NEW r \in Routes, Begin(t, r)
        PROVE  LockInv'
    BY <1>2, <2>1, BeginKeeps
  <2>2. ASSUME NEW t \in Txns, Acquire(t)
        PROVE  LockInv'
    BY <1>2, <2>2, AcquireKeeps
  <2>3. ASSUME NEW t \in Txns, Skip(t)
        PROVE  LockInv'
    BY <1>2, <2>3, SkipKeeps
  <2>4. ASSUME NEW t \in Txns, Finish(t)
        PROVE  LockInv'
    BY <1>2, <2>4, FinishKeeps
  <2>5. CASE UNCHANGED vars
    BY <1>2, <2>5 DEF vars, LockInv, HoldsItsRequests, Granted, Exclusive
  <2> QED
    BY <1>2, <2>1, <2>2, <2>3, <2>4, <2>5 DEF Next
<1> QED
  BY <1>1, <1>2, PTL DEF Spec

(* However many requests run at once, the orderly routes never wait on one  *)
(* another: PostgreSQL has no deadlock among them to break.                 *)
THEOREM OrderlyRoutesNeverDeadlock ==
  ASSUME Routes \subseteq OrderlyRoutes
  PROVE  Spec => []NoDeadlock
<1>1. LockInv => NoDeadlock
  BY InvGivesNoDeadlock
<1> QED
  BY <1>1, LockInvHolds, PTL

(* However many requests run at once, no two hold a row in conflicting      *)
(* modes, and the holder of the instance's lock holds the claim's.          *)
THEOREM OrderlyLocksExclude ==
  ASSUME Routes \subseteq OrderlyRoutes
  PROVE  Spec => []LocksExclude
<1>1. LockInv => LocksExclude
  BY InvGivesExclusion
<1> QED
  BY <1>1, LockInvHolds, PTL
=============================================================================
