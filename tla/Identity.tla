------------------------------ MODULE Identity ------------------------------
(***************************************************************************)
(* core/auth, core/rbac, core/api/{auth,users,rbac}: one account, its        *)
(* server-side sessions in Redis, its grants and the permission cache.       *)
(* Accounts share no keys, so one account stands for all.                    *)
(*                                                                         *)
(* A request is a process that takes one step per round trip to Redis or to *)
(* Postgres; other requests and the clock move between its steps.  The       *)
(* account is what is committed; a request that has flushed a change of the  *)
(* core_users row holds the row lock until it commits.                       *)
(*                                                                         *)
(* `late`, `epoch`, `login`, `code` and `crossed` are history: they record   *)
(* what overlapped what, and no step of the code looks at them.              *)
(***************************************************************************)
EXTENDS Naturals, FiniteSets

CONSTANTS Procs, None,
          MaxSids,            \* bound: session ids minted in a behaviour
          MaxNow,             \* bound: the clock
          MaxVersion,         \* bound: changes of the account's grants
          MaxEpoch,           \* bound: revocations of the account's sessions
          Cap, CapPolicy,     \* session_max_concurrent, session_cap_policy
          IdleStaff, IdlePrivileged, Absolute, Reauth, Backstop,
          Threshold, BackoffBase, BackoffCeiling, Window,
          ValidWindow,        \* mfa_valid_window, in steps of the code's clock
          Grants,             \* core_user_roles rows of the account
          GrantOf,            \* grant -> [codes, from, to, privileged, mfa]
          Starts              \* the situations a behaviour may start in

(* The last conjunct is arithmetic: of any ends of windows one is earliest. *)
ASSUME IdentityAssumption ==
  /\ MaxSids \in Nat /\ MaxNow \in Nat /\ Cap \in Nat /\ Threshold \in Nat \ {0}
  /\ MaxVersion \in Nat /\ MaxEpoch \in Nat
  /\ Absolute \in Nat \ {0} /\ IdleStaff \in Nat \ {0} /\ IdlePrivileged \in Nat \ {0}
  /\ Reauth \in Nat /\ Backstop \in Nat /\ Window \in Nat /\ ValidWindow \in Nat
  /\ BackoffBase \in Nat /\ BackoffCeiling \in Nat
  /\ None \notin Procs /\ Grants \subseteq DOMAIN GrantOf
  /\ \A g \in DOMAIN GrantOf : GrantOf[g].from \in Nat /\ GrantOf[g].to \in Nat
  /\ \A start \in Starts :
       /\ start.minted \in 0 .. MaxSids /\ start.mcp \in BOOLEAN
       /\ start.mfa \in {"off", "enrolled", "on"} /\ start.grants \subseteq DOMAIN GrantOf
  /\ \A edges \in SUBSET UNION {{GrantOf[g].from, GrantOf[g].to} : g \in DOMAIN GrantOf} :
       edges # {} => \E e \in edges : \A f \in edges : e <= f

VARIABLES now,
          acct,      \* the committed core_users row and the live grants
          lock,      \* holder of the row lock, or None
          hash,      \* session:{sid}
          index,     \* user_sessions:{uid}
          minted,    \* how many session ids have been handed out
          cache,     \* authz:perm:{uid}:v{version}
          pending,   \* expiry of mfa:pending:{token}
          used,      \* expiry of mfa:used:{uid}:{counter}
          throttle,  \* the account's failure counter and its :until key
          req,       \* per process: the request it serves
          kinds      \* the requests that are made in this behaviour

vars == <<now, acct, lock, hash, index, minted, cache, pending, used, throttle, req, kinds>>

Sids == 1 .. MaxSids
Later(a, b) == IF a < b THEN b ELSE a
Sooner(a, b) == IF a < b THEN a ELSE b

NoHash == [kind |-> "none", created |-> 0, seen |-> 0, auth |-> 0, ver |-> 0, tier |-> "staff",
           mcp |-> FALSE, setup |-> FALSE, exp |-> 0,
           login |-> 0, epoch |-> 0, late |-> FALSE, code |-> None]
NoRequest == [kind |-> "none", pc |-> "idle", sid |-> 0, rec |-> NoHash, list |-> {},
              ver |-> 0, codes |-> {}, edge |-> 0, grant |-> None, late |-> FALSE]
NoEntry == [codes |-> {}, exp |-> 0]

-----------------------------------------------------------------------------
(* Grants and windows: load_permission_entry, _role_codes *)

InForce(t) == {g \in acct.grants : GrantOf[g].from <= t /\ t < GrantOf[g].to}
EffectivePermissions(t) == UNION {GrantOf[g].codes : g \in InForce(t)}

(* The next moment a window of a live grant opens or closes.               *)
NextBoundary(t) ==
  LET edges == {e \in UNION {{GrantOf[g].from, GrantOf[g].to} : g \in acct.grants} : e > t}
  IN  IF edges = {} THEN t + Backstop ELSE CHOOSE e \in edges : \A f \in edges : e <= f

(* Mutant: the backstop alone.                                             *)
BackstopTtl(edge) == Backstop
CacheTtl(edge) == Later(1, Sooner(Backstop, IF edge > now THEN edge - now ELSE 0))

-----------------------------------------------------------------------------
(* The session store *)

Exists(s) == hash[s].kind # "none"
IdleSeconds(tier) == IF tier = "privileged" THEN IdlePrivileged ELSE IdleStaff
Expired(r) == now >= r.created + Absolute \/ now >= r.seen + IdleSeconds(r.tier)

(* A whole record is stored; a request is let in unless it has expired.    *)
Stands(s) == Exists(s) /\ hash[s].kind = "full"
Full(s) == Stands(s) /\ ~Expired(hash[s])

SessionTtl(r) ==
  Later(1, Sooner(IdleSeconds(r.tier), IF r.created + Absolute > now THEN r.created + Absolute - now ELSE 0))

Delete(gone) == [s \in Sids |-> IF s \in gone THEN NoHash ELSE hash[s]]

(* _prune_user_index: members whose hash is gone.                          *)
Pruned == {s \in index : Exists(s)}

(* Members in the order of their score, created_at.                        *)
Older(s, t) == hash[s].created < hash[t].created \/ (hash[s].created = hash[t].created /\ s < t)
Oldest(members, n) == {s \in members : Cardinality({t \in members : Older(t, s)}) < n}

-----------------------------------------------------------------------------
(* Who overlaps whom *)

Changing == {p \in Procs : req[p].kind \in {"revoke", "grant"}}
(* A password change mints a session too, from its start on.               *)
Minting == {p \in Procs : \/ req[p].pc \in {"cap", "create", "mfa", "rot", "rotated"}
                          \/ req[p].kind = "revoke" /\ req[p].grant = "password"}

Become(p, r) == req' = [req EXCEPT ![p] = r]
Goto(p, pc) == req' = [req EXCEPT ![p].pc = pc]
Answer(p) == Become(p, NoRequest)

(* A change starts: whatever mints a session at this moment overlaps it.   *)
StartChange(p, r) ==
  req' = [q \in Procs |-> IF q = p THEN r
                          ELSE IF q \in Minting THEN [req[q] EXCEPT !.late = TRUE] ELSE req[q]]

Idle(p, kind) == req[p].pc = "idle" /\ kind \in kinds

-----------------------------------------------------------------------------
(* Login *)

BackoffSeconds(fails) ==
  IF fails < Threshold THEN 0 ELSE Sooner(BackoffBase * 2^(fails - Threshold), BackoffCeiling)

(* The counter slides; past the threshold every failure sets the delay.    *)
RegisterFailure ==
  LET fails == throttle.fails + 1
      delay == BackoffSeconds(fails)
  IN  throttle' = [fails |-> fails, exp |-> now + Window,
                   until |-> IF delay > 0 THEN now + delay ELSE throttle.until]

NoFailures == [fails |-> 0, exp |-> 0, until |-> 0]

(* The record a successful login will store, from the account as read.     *)
RecordFor(code) ==
  [NoHash EXCEPT !.kind = "full", !.ver = acct.ver, !.mcp = acct.mcp, !.epoch = acct.epoch,
     !.tier = IF \E g \in InForce(now) : GrantOf[g].privileged THEN "privileged" ELSE "staff",
     !.setup = acct.mfa # "on" /\ \E g \in InForce(now) : GrantOf[g].mfa,
     !.code = code]

LoginRequest(code, pc) ==
  [NoRequest EXCEPT !.kind = "login", !.pc = pc, !.rec = RecordFor(code), !.late = Changing # {}]

(* A throttled attempt leaves nothing; a wrong password or an inactive     *)
(* account counts as a failure; with a second factor the session waits.    *)
Login(p, good) ==
  /\ Idle(p, "login") /\ now >= throttle.until
  /\ good \/ "wrong" \in kinds
  /\ IF good /\ acct.active
     THEN /\ throttle' = NoFailures
          /\ IF acct.mfa = "on"
             THEN pending' = now + Reauth /\ UNCHANGED req
             ELSE Become(p, LoginRequest(None, "cap")) /\ UNCHANGED pending
     ELSE RegisterFailure /\ UNCHANGED <<pending, req>>
  /\ UNCHANGED <<now, acct, lock, hash, index, minted, cache, used, kinds>>

(* complete_mfa reads the pending login and the account ...                *)
ReadPending(p) ==
  /\ Idle(p, "login") /\ pending > 0
  /\ acct.active /\ acct.mfa = "on"
  /\ Become(p, LoginRequest(None, "mfa"))
  /\ UNCHANGED <<now, acct, lock, hash, index, minted, cache, pending, used, throttle, kinds>>

(* ... and a code of a step near now is good once: SET NX decides.         *)
CheckAndConsume(p, code) ==
  /\ req[p].pc = "mfa"
  /\ code <= now + ValidWindow /\ now <= code + ValidWindow
  /\ IF used[code] > 0
     THEN Answer(p) /\ UNCHANGED <<used, pending>>
     ELSE /\ used' = [used EXCEPT ![code] = now + 2 * ValidWindow + 2]
          /\ pending' = 0
          /\ Become(p, [req[p] EXCEPT !.pc = "cap", !.rec.code = code])
  /\ UNCHANGED <<now, acct, lock, hash, index, minted, cache, throttle, kinds>>

EnforceCap(p) ==
  LET live == Pruned
      surplus == Cardinality(live) + 1 - Cap
      evicted == IF surplus > 0 THEN Oldest(live, surplus) ELSE {}
  IN  /\ req[p].pc = "cap"
      /\ IF Cap < 1 THEN Goto(p, "create") /\ UNCHANGED <<hash, index>>
         ELSE IF CapPolicy = "reject"
         THEN /\ IF surplus > 0 THEN Answer(p) ELSE Goto(p, "create")
              /\ index' = live /\ UNCHANGED hash
         ELSE hash' = Delete(evicted) /\ index' = live \ evicted /\ Goto(p, "create")
      /\ UNCHANGED <<now, acct, lock, minted, cache, pending, used, throttle, kinds>>

(* One pipeline stores the hash, its time to live and the index member.    *)
CreateSession(p) ==
  LET sid == minted + 1
      r == [req[p].rec EXCEPT !.created = now, !.seen = now, !.auth = now, !.login = now,
                              !.late = req[p].late]
  IN  /\ req[p].pc = "create" /\ minted < MaxSids
      /\ minted' = sid
      /\ hash' = [hash EXCEPT ![sid] = [r EXCEPT !.exp = now + SessionTtl(r)]]
      /\ index' = index \cup {sid}
      /\ Answer(p)
      /\ UNCHANGED <<now, acct, lock, cache, pending, used, throttle, kinds>>

-----------------------------------------------------------------------------
(* A request with a cookie: AuthPrincipalMiddleware *)

(* get_session_record: an expired session is destroyed, a partial hash     *)
(* cannot be decoded, and the caller stays anonymous.                      *)
Resolve(p, s) ==
  /\ Idle(p, "request") /\ s <= minted
  /\ IF Stands(s) /\ Expired(hash[s])
     THEN hash' = Delete({s}) /\ index' = index \ {s} /\ UNCHANGED req
     ELSE /\ Full(s)
          /\ Become(p, [NoRequest EXCEPT !.kind = "request", !.pc = "touch", !.sid = s,
                                         !.rec = hash[s]])
          /\ UNCHANGED <<hash, index>>
  /\ UNCHANGED <<now, acct, lock, minted, cache, pending, used, throttle, kinds>>

(* Mutant: the whole record, as it was read, is written back.              *)
TouchWhole(p) ==
  /\ req[p].pc = "touch"
  /\ hash' = [hash EXCEPT ![req[p].sid] = [req[p].rec EXCEPT !.seen = now,
                                              !.exp = now + SessionTtl(req[p].rec)]]
  /\ Goto(p, "in")
  /\ UNCHANGED <<now, acct, lock, index, minted, cache, pending, used, throttle, kinds>>

(* The field-level write of touch.  A session destroyed since the read       *)
(* comes back as a hash without its other fields.                           *)
Touch(p) ==
  LET s == req[p].sid
      stored == IF Exists(s) THEN hash[s] ELSE [NoHash EXCEPT !.kind = "partial"]
  IN  /\ req[p].pc = "touch"
      /\ hash' = [hash EXCEPT ![s] = [stored EXCEPT !.seen = now,
                                                    !.exp = now + SessionTtl(req[p].rec)]]
      /\ Goto(p, "in")
      /\ UNCHANGED <<now, acct, lock, index, minted, cache, pending, used, throttle, kinds>>

Logout(p) ==
  /\ req[p].pc = "in" /\ "logout" \in kinds
  /\ hash' = Delete({req[p].sid}) /\ index' = index \ {req[p].sid}
  /\ Answer(p)
  /\ UNCHANGED <<now, acct, lock, minted, cache, pending, used, throttle, kinds>>

(* require_session: a session that must change its password or enrol first *)
(* gets no further.                                                        *)
Admitted(p) == req[p].pc = "in" /\ ~req[p].rec.mcp /\ ~req[p].rec.setup

(* resolve_handle finds a session of the caller's own index; destroy.      *)
RevokeMySession(p, s) ==
  /\ Admitted(p) /\ "logout" \in kinds /\ s \in Pruned
  /\ hash' = Delete({s}) /\ index' = Pruned \ {s}
  /\ Answer(p)
  /\ UNCHANGED <<now, acct, lock, minted, cache, pending, used, throttle, kinds>>

(* list_for_user destroys what it finds expired.                           *)
MySessions(p) ==
  LET over == {s \in Pruned : Stands(s) /\ Expired(hash[s])}
  IN  /\ Admitted(p) /\ "logout" \in kinds
      /\ hash' = Delete(over) /\ index' = Pruned \ over
      /\ Answer(p)
      /\ UNCHANGED <<now, acct, lock, minted, cache, pending, used, throttle, kinds>>

(* require_permission: a hit is answered without the database, a miss is   *)
(* loaded and stored under the version of the caller's session.            *)
AskPermission(p) ==
  LET entry == cache[req[p].rec.ver]
  IN  /\ Admitted(p) /\ "ask" \in kinds
      /\ IF entry.exp > 0 THEN Answer(p) ELSE Goto(p, "load")
      /\ UNCHANGED <<now, acct, lock, hash, index, minted, cache, pending, used, throttle, kinds>>

LoadPermissionEntry(p) ==
  /\ req[p].pc = "load"
  /\ Become(p, [req[p] EXCEPT !.pc = "store", !.codes = EffectivePermissions(now),
                              !.edge = NextBoundary(now)])
  /\ UNCHANGED <<now, acct, lock, hash, index, minted, cache, pending, used, throttle, kinds>>

StoreEntry(p) ==
  /\ req[p].pc = "store"
  /\ cache' = [cache EXCEPT ![req[p].rec.ver] =
                 [codes |-> req[p].codes, exp |-> now + CacheTtl(req[p].edge)]]
  /\ Answer(p)
  /\ UNCHANGED <<now, acct, lock, hash, index, minted, pending, used, throttle, kinds>>

-----------------------------------------------------------------------------
(* Second factor *)

MfaEnroll(p) ==
  /\ req[p].pc = "in" /\ "mfa" \in kinds /\ lock = None
  /\ acct' = [acct EXCEPT !.mfa = "enrolled"]
  /\ Answer(p)
  /\ UNCHANGED <<now, lock, hash, index, minted, cache, pending, used, throttle, kinds>>

(* mfa_confirm commits, then rotates the session.                          *)
MfaConfirm(p) ==
  /\ req[p].pc = "in" /\ "mfa" \in kinds /\ lock = None
  /\ acct.mfa # "off"
  /\ acct' = [acct EXCEPT !.mfa = "on"]
  /\ Become(p, [req[p] EXCEPT !.pc = "rot", !.late = Changing # {}])
  /\ UNCHANGED <<now, lock, hash, index, minted, cache, pending, used, throttle, kinds>>

(* regenerate_id: read the record, then copy and delete in one MULTI.      *)
RotateRead(p) ==
  LET s == req[p].sid
      next == IF req[p].kind = "revoke" THEN "commit" ELSE "idle"
  IN  /\ req[p].pc = "rot"
      /\ IF Full(s)
         THEN Become(p, [req[p] EXCEPT !.pc = "rotated", !.rec = hash[s],
                                       !.late = @ \/ hash[s].late]) /\ UNCHANGED <<hash, index>>
         ELSE /\ IF next = "idle" THEN Answer(p) ELSE Goto(p, next)
              /\ hash' = IF Exists(s) THEN Delete({s}) ELSE hash
              /\ index' = IF Exists(s) THEN index \ {s} ELSE index
      /\ UNCHANGED <<now, acct, lock, minted, cache, pending, used, throttle, kinds>>

(* Mutant: the rotated session starts a new lifetime.                      *)
RotatedAnew(p) ==
  LET r == [req[p].rec EXCEPT !.created = now, !.seen = now, !.auth = now, !.late = req[p].late,
              !.code = None,
              !.mcp = @ /\ req[p].kind # "revoke", !.setup = @ /\ req[p].kind = "revoke",
              !.epoch = IF req[p].kind = "revoke" THEN @ + 1 ELSE @]
  IN  [r EXCEPT !.exp = now + SessionTtl(r)]

(* The rotated session keeps its lifetime; a password change clears the    *)
(* first gate, a confirmed second factor the second.                       *)
Rotated(p) ==
  LET r == [req[p].rec EXCEPT !.auth = now, !.late = req[p].late, !.code = None,
              !.mcp = @ /\ req[p].kind # "revoke", !.setup = @ /\ req[p].kind = "revoke",
              !.epoch = IF req[p].kind = "revoke" THEN @ + 1 ELSE @]
  IN  [r EXCEPT !.exp = now + SessionTtl(r)]

RotateWrite(p) ==
  LET sid == minted + 1
  IN  /\ req[p].pc = "rotated" /\ minted < MaxSids
      /\ minted' = sid
      /\ hash' = [Delete({req[p].sid}) EXCEPT ![sid] = Rotated(p)]
      /\ index' = (index \ {req[p].sid}) \cup {sid}
      /\ IF req[p].kind = "revoke" THEN Goto(p, "commit") ELSE Answer(p)
      /\ UNCHANGED <<now, acct, lock, cache, pending, used, throttle, kinds>>

-----------------------------------------------------------------------------
(* Revocations: own password change, reset, deactivation, admin revoke *)

Revocation(p, what, s) ==
  [NoRequest EXCEPT !.kind = "revoke", !.pc = "list", !.grant = what, !.sid = s,
                    !.late = Changing # {}]

(* change_password: the flush takes the row lock.                          *)
ChangePassword(p) ==
  /\ req[p].pc = "in" /\ "password" \in kinds /\ lock = None
  /\ acct.active /\ acct.epoch < MaxEpoch
  /\ lock' = p
  /\ StartChange(p, Revocation(p, "password", req[p].sid))
  /\ UNCHANGED <<now, acct, hash, index, minted, cache, pending, used, throttle, kinds>>

(* An administrator resets the password, deactivates the account (not a    *)
(* break-glass one, not their own) or revokes its sessions.                *)
AdminRevoke(p, what) ==
  /\ Idle(p, what) /\ acct.epoch < MaxEpoch
  /\ what = "deactivate" => ~acct.breakGlass
  /\ IF what = "sessions" THEN UNCHANGED lock ELSE lock = None /\ lock' = p
  /\ StartChange(p, Revocation(p, what, 0))
  /\ UNCHANGED <<now, acct, hash, index, minted, cache, pending, used, throttle, kinds>>

(* Mutant: ZRANGE 0 -2, all but the newest.                                *)
ListButNewest(p) ==
  /\ req[p].kind = "revoke" /\ req[p].pc = "list"
  /\ Become(p, [req[p] EXCEPT !.pc = "destroy",
       !.list = Oldest(index, Later(Cardinality(index), 1) - 1) \ {req[p].sid}])
  /\ UNCHANGED <<now, acct, lock, hash, index, minted, cache, pending, used, throttle, kinds>>

(* destroy_all_for_user: ZRANGE, then one pipeline of deletes.             *)
ListSessions(p) ==
  /\ req[p].kind = "revoke" /\ req[p].pc = "list"
  /\ Become(p, [req[p] EXCEPT !.pc = "destroy", !.list = index \ {req[p].sid}])
  /\ UNCHANGED <<now, acct, lock, hash, index, minted, cache, pending, used, throttle, kinds>>

DestroyListed(p) ==
  /\ req[p].pc = "destroy"
  /\ hash' = Delete(req[p].list) /\ index' = index \ req[p].list
  /\ Goto(p, IF req[p].grant = "password" THEN "rot" ELSE "commit")
  /\ UNCHANGED <<now, acct, lock, minted, cache, pending, used, throttle, kinds>>

CommitRevocation(p) ==
  LET what == req[p].grant
  IN  /\ req[p].kind = "revoke" /\ req[p].pc = "commit"
      /\ acct' = [acct EXCEPT !.epoch = @ + 1,
                    !.active = @ /\ what # "deactivate",
                    !.mcp = (@ /\ what # "password") \/ what = "reset"]
      /\ lock' = IF lock = p THEN None ELSE lock
      /\ Answer(p)
      /\ UNCHANGED <<now, hash, index, minted, cache, pending, used, throttle, kinds>>

ReactivateUser(p) ==
  /\ Idle(p, "deactivate") /\ lock = None /\ ~acct.active
  /\ acct' = [acct EXCEPT !.active = TRUE]
  /\ UNCHANGED <<now, lock, hash, index, minted, cache, pending, used, throttle, req, kinds>>

-----------------------------------------------------------------------------
(* Grants: rbac.grant_role and rbac.revoke_role *)

(* The account is read first, so the new version is one more than what was *)
(* committed then.                                                         *)
ChangeGrant(p, g) ==
  /\ Idle(p, "grant") /\ acct.ver < MaxVersion
  /\ StartChange(p, [NoRequest EXCEPT !.kind = "grant", !.pc = "bump", !.grant = g,
                                      !.ver = acct.ver + 1])
  /\ acct' = [acct EXCEPT !.crossed = @ \/ \E q \in Changing : req[q].kind = "grant"]
  /\ UNCHANGED <<now, lock, hash, index, minted, cache, pending, used, throttle, kinds>>

(* A live grant is tombstoned, a tombstoned or new one made live.          *)
CommitGrant(p) ==
  LET g == req[p].grant
  IN  /\ req[p].pc = "bump" /\ lock = None
      /\ acct' = [acct EXCEPT !.ver = req[p].ver,
                    !.grants = IF g \in @ THEN @ \ {g} ELSE @ \cup {g}]
      /\ Goto(p, "stamp")
      /\ UNCHANGED <<now, lock, hash, index, minted, cache, pending, used, throttle, kinds>>

(* set_permissions_version: prune and list, then stamp what still exists.  *)
ListForStamp(p) ==
  /\ req[p].pc = "stamp"
  /\ index' = Pruned
  /\ Become(p, [req[p] EXCEPT !.pc = "stamping", !.list = Pruned])
  /\ UNCHANGED <<now, acct, lock, hash, minted, cache, pending, used, throttle, kinds>>

SetPermissionsVersion(p) ==
  /\ req[p].pc = "stamping"
  /\ hash' = [s \in Sids |-> IF s \in req[p].list /\ Exists(s)
                             THEN [hash[s] EXCEPT !.ver = req[p].ver] ELSE hash[s]]
  /\ Goto(p, "invalidate")
  /\ UNCHANGED <<now, acct, lock, index, minted, cache, pending, used, throttle, kinds>>

InvalidateOld(p) ==
  /\ req[p].pc = "invalidate"
  /\ cache' = [cache EXCEPT ![req[p].ver - 1] = NoEntry]
  /\ Answer(p)
  /\ UNCHANGED <<now, acct, lock, hash, index, minted, pending, used, throttle, kinds>>

-----------------------------------------------------------------------------
(* The clock, and Redis dropping the keys whose time is over.  A loaded      *)
(* permission set is stored within the clock's resolution.                  *)
Tick ==
  LET on(exp) == IF exp > now + 1 THEN exp ELSE 0
  IN  /\ now < MaxNow /\ \A p \in Procs : req[p].pc # "store"
      /\ now' = now + 1
      /\ hash' = [s \in Sids |-> IF on(hash[s].exp) > 0 THEN hash[s] ELSE NoHash]
      /\ cache' = [v \in DOMAIN cache |-> IF on(cache[v].exp) > 0 THEN cache[v] ELSE NoEntry]
      /\ pending' = on(pending)
      /\ used' = [c \in DOMAIN used |-> on(used[c])]
      /\ throttle' = [fails |-> IF on(throttle.exp) > 0 THEN throttle.fails ELSE 0,
                      exp |-> on(throttle.exp), until |-> on(throttle.until)]
      /\ UNCHANGED <<acct, lock, index, minted, req, kinds>>

Init ==
  /\ now = 0 /\ lock = None /\ index = {} /\ pending = 0
  /\ \E start \in Starts :
       /\ kinds = start.kinds /\ minted = start.minted
       /\ acct = [active |-> TRUE, breakGlass |-> FALSE, mcp |-> start.mcp, mfa |-> start.mfa,
                  ver |-> 0, grants |-> start.grants, epoch |-> 0, crossed |-> FALSE]
  /\ hash = [s \in Sids |-> NoHash]
  /\ cache = [v \in 0 .. MaxVersion |-> NoEntry]
  /\ used = [c \in 0 .. MaxNow |-> 0]
  /\ throttle = NoFailures
  /\ req = [p \in Procs |-> NoRequest]

Next ==
  \/ Tick
  \/ \E p \in Procs :
       \/ \E good \in BOOLEAN : Login(p, good)
       \/ ReadPending(p) \/ \E c \in 0 .. MaxNow : CheckAndConsume(p, c)
       \/ EnforceCap(p) \/ CreateSession(p)
       \/ \E s \in Sids : Resolve(p, s) \/ RevokeMySession(p, s)
       \/ Touch(p) \/ Logout(p) \/ MySessions(p)
       \/ AskPermission(p) \/ LoadPermissionEntry(p) \/ StoreEntry(p)
       \/ MfaEnroll(p) \/ MfaConfirm(p) \/ RotateRead(p) \/ RotateWrite(p)
       \/ ChangePassword(p) \/ \E what \in {"reset", "deactivate", "sessions"} : AdminRevoke(p, what)
       \/ ListSessions(p) \/ DestroyListed(p) \/ CommitRevocation(p) \/ ReactivateUser(p)
       \/ \E g \in Grants : ChangeGrant(p, g)
       \/ CommitGrant(p) \/ ListForStamp(p) \/ SetPermissionsVersion(p) \/ InvalidateOld(p)

Spec == Init /\ [][Next]_vars

-----------------------------------------------------------------------------
(* Properties *)

(* A session id that has ended never lets anyone in again: not when a       *)
(* request that read the session before it was destroyed writes after.      *)
EndedStaysEnded ==
  [][\A s \in Sids : s <= minted /\ ~Stands(s) => ~Stands(s)']_vars

(* Rotation, touching and stamping never extend a session: it stands at     *)
(* most the absolute lifetime after the credentials were presented, counted *)
(* over every rotation, and every standing session can be found and revoked *)
(* through the account's index.                                             *)
SessionsAreBounded ==
  \A s \in Sids : Full(s) => now < hash[s].login + Absolute /\ s \in index

(* Once a password change, a reset, a deactivation or a revocation is over, *)
(* no earlier session stands, except one minted by a login or a rotation    *)
(* that overlapped it.                                                      *)
RevocationIsComplete ==
  \A s \in Sids : Full(s) /\ hash[s].epoch < acct.epoch => hash[s].late

(* A grant or its revocation reaches every request made after it is over:   *)
(* the standing sessions carry the new version, and what the cache holds    *)
(* under that version is what is in force now, windows included.  Excepted  *)
(* are sessions minted meanwhile and accounts with overlapping changes.     *)
GrantsTakeEffect ==
  (~acct.crossed /\ \A p \in Changing : req[p].kind # "grant") =>
    /\ \A s \in Sids : Full(s) /\ ~hash[s].late => hash[s].ver = acct.ver
    /\ cache[acct.ver].exp > 0 => cache[acct.ver].codes = EffectivePermissions(now)

(* A code of the second factor buys one session: two requests with the same *)
(* code and the same pending login cannot both be let in.                   *)
OneSessionPerCode ==
  \A s, t \in 1 .. minted : hash[s].code # None /\ hash[s].code = hash[t].code => s = t

(* Every session answers for one presentation of the credentials: one per   *)
(* code of the second factor, none beyond the absolute lifetime, none that  *)
(* revocation could not find.                                               *)
SessionsAreEarned == SessionsAreBounded /\ OneSessionPerCode
=============================================================================
