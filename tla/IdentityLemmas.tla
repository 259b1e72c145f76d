--------------------------- MODULE IdentityLemmas ---------------------------
(***************************************************************************)
(* The inductive invariant of Identity, and that the steps which neither   *)
(* change the account nor move the clock keep it: logins, requests, the    *)
(* permission cache, the second factor, and the minting of sessions.       *)
(***************************************************************************)
EXTENDS Identity, TLAPS

SessionRecord ==
  [kind : {"none", "partial", "full"}, created : Nat, seen : Nat, auth : Nat,
   ver : 0 .. MaxVersion, tier : {"staff", "privileged"}, mcp : BOOLEAN, setup : BOOLEAN,
   exp : Nat, login : Nat, epoch : Nat, late : BOOLEAN, code : (0 .. MaxNow) \cup {None}]

Codes == UNION {GrantOf[g].codes : g \in DOMAIN GrantOf}
Revocations == {"password", "reset", "deactivate", "sessions"}

Request ==
  [kind : {"none", "login", "request", "revoke", "grant"},
   pc : {"idle", "cap", "create", "mfa", "touch", "in", "load", "store", "rot", "rotated",
         "list", "destroy", "commit", "bump", "stamp", "stamping", "invalidate"},
   sid : 0 .. MaxSids, rec : SessionRecord, list : SUBSET Sids, ver : 0 .. MaxVersion,
   codes : SUBSET Codes, edge : Nat, grant : Grants \cup Revocations \cup {None},
   late : BOOLEAN]

Account ==
  [active : BOOLEAN, breakGlass : BOOLEAN, mcp : BOOLEAN, mfa : {"off", "enrolled", "on"},
   ver : 0 .. MaxVersion, grants : SUBSET DOMAIN GrantOf, epoch : Nat, crossed : BOOLEAN]

IdentityTypeOK ==
  /\ now \in 0 .. MaxNow /\ acct \in Account /\ lock \in Procs \cup {None}
  /\ hash \in [Sids -> SessionRecord] /\ index \subseteq Sids /\ minted \in 0 .. MaxSids
  /\ cache \in [0 .. MaxVersion -> [codes : SUBSET Codes, exp : Nat]]
  /\ used \in [0 .. MaxNow -> Nat]
  /\ req \in [Procs -> Request]

(* Which requests are at which step, and what a revocation holds.           *)
RequestOK(p) ==
  LET r == req[p]
  IN  /\ r.kind = "none" => r.pc = "idle"
      /\ r.kind = "login" => r.pc \in {"cap", "create", "mfa"} /\ r.rec.kind = "full"
      /\ r.kind = "request" =>
           r.pc \in {"touch", "in", "load", "store", "rot", "rotated"} /\ r.sid \in Sids
      /\ r.kind = "grant" =>
           r.pc \in {"bump", "stamp", "stamping", "invalidate"} /\ r.grant \in Grants
      /\ r.kind = "revoke" =>
           /\ r.pc \in {"list", "destroy", "rot", "rotated", "commit"}
           /\ r.grant \in Revocations
           /\ r.grant # "sessions" => lock = p
           /\ r.grant # "password" => r.sid = 0 /\ r.pc \notin {"rot", "rotated"}
           /\ r.grant = "password" => r.sid \in Sids
      /\ r.pc = "rotated" => r.rec.kind = "full" /\ r.rec.created = r.rec.login

RequestsOK == \A p \in Procs : RequestOK(p)

(* A standing session is indexed, and as old as its login.                  *)
StoreOK == \A s \in Sids : Stands(s) => hash[s].created = hash[s].login /\ s \in index

(* A code that was consumed is still marked or no longer near now, and      *)
(* belongs to one login in progress or to one session.                      *)
Carries(p) == req[p].pc \in {"cap", "create"} /\ req[p].rec.code # None
Spent(c) == used[c] > c + ValidWindow + 1 \/ now > c + ValidWindow

CodesOK ==
  /\ \A s \in Sids : hash[s].code # None => Spent(hash[s].code)
  /\ \A p \in Procs : Carries(p) => Spent(req[p].rec.code)
  /\ \A s, t \in Sids : hash[s].code # None /\ hash[s].code = hash[t].code => s = t
  /\ \A p, q \in Procs :
       Carries(p) /\ Carries(q) /\ req[p].rec.code = req[q].rec.code => p = q
  /\ \A p \in Procs, s \in Sids : Carries(p) => hash[s].code # req[p].rec.code

(* What is minting and was not overlapped by a change has read what is      *)
(* still so: no other change is under way.                                  *)
HasRead(r) == r.pc \in {"cap", "create", "mfa", "rotated"}

OverlapOK ==
  \A p \in Minting : ~req[p].late =>
    /\ Changing \subseteq {p}
    /\ HasRead(req[p]) => req[p].rec.epoch >= acct.epoch
    /\ HasRead(req[p]) /\ ~acct.crossed => req[p].rec.ver = acct.ver

(* A session no change overlapped, seen from the revocations under way.     *)
Current(s) == Stands(s) /\ ~hash[s].late

Facing(s, r) ==
  r.kind = "revoke" =>
    /\ r.pc = "destroy" => s \in r.list \cup {r.sid}
    /\ r.pc \in {"rot", "rotated"} => s = r.sid
    /\ r.pc = "commit" => r.grant = "password" /\ hash[s].epoch > acct.epoch

RevokeOK ==
  \A s \in Sids : Current(s) =>
    hash[s].epoch >= acct.epoch /\ \A p \in Procs : Facing(s, req[p])

(* The same, from the one grant change under way.                           *)
Granting == {p \in Procs : req[p].kind = "grant"}

Bound(r) == r.ver = IF r.pc = "bump" THEN acct.ver + 1 ELSE acct.ver

Stamped(s) ==
  \/ hash[s].ver = acct.ver
  \/ \E p \in Granting : \/ req[p].pc = "stamp"
                         \/ req[p].pc = "stamping" /\ s \in req[p].list

GrantOK ==
  ~acct.crossed =>
    /\ \A p, q \in Granting : p = q
    /\ \A p \in Granting : Bound(req[p])
    /\ \A s \in Sids : hash[s].ver <= acct.ver
    /\ \A p \in Procs : req[p].rec.ver <= acct.ver
    /\ \A s \in Sids : Current(s) => Stamped(s)

(* What is cached under the account's version is in force until it expires. *)
Holds(codes, until) ==
  \A t \in Nat : now <= t /\ t < until => codes = EffectivePermissions(t)

CacheOK ==
  ~acct.crossed =>
    /\ \A v \in 0 .. MaxVersion : v > acct.ver => cache[v].exp = 0
    /\ cache[acct.ver].exp > 0 =>
         cache[acct.ver].exp > now /\ Holds(cache[acct.ver].codes, cache[acct.ver].exp)
    /\ \A p \in Procs : req[p].pc = "store" /\ req[p].rec.ver = acct.ver =>
         Holds(req[p].codes, now + CacheTtl(req[p].edge))

IdentityInv ==
  /\ IdentityTypeOK /\ RequestsOK /\ StoreOK /\ CodesOK /\ OverlapOK /\ RevokeOK
  /\ GrantOK /\ CacheOK

-----------------------------------------------------------------------------
(* Types *)

LEMMA NoHashType == NoHash \in SessionRecord
  BY IdentityAssumption DEF NoHash, SessionRecord

LEMMA NoRequestType == NoRequest \in Request
  BY IdentityAssumption, NoHashType DEF NoRequest, Request

LEMMA TtlType ==
  ASSUME IdentityTypeOK, NEW r \in SessionRecord
  PROVE  SessionTtl(r) \in Nat
<1>1. IdleSeconds(r.tier) \in Nat /\ now \in Nat
  BY IdentityAssumption DEF IdentityTypeOK, SessionRecord, IdleSeconds
<1> DEFINE left == IF r.created + Absolute > now THEN r.created + Absolute - now ELSE 0
<1>2. r.created \in Nat /\ Absolute \in Nat
  BY IdentityAssumption, Zenon DEF SessionRecord
<1>3. left \in Nat
  <2>1. \A a, b, c \in Nat : (IF a + b > c THEN a + b - c ELSE 0) \in Nat
    OBVIOUS
  <2> QED BY <1>1, <1>2, <2>1, Zenon
<1>4. SessionTtl(r) = Later(1, Sooner(IdleSeconds(r.tier), left))
  BY Zenon DEF SessionTtl
<1> HIDE DEF left
<1>5. Sooner(IdleSeconds(r.tier), left) \in Nat
  BY <1>1, <1>3, Zenon DEF Sooner
<1> QED BY <1>4, <1>5 DEF Later

LEMMA CacheTtlType ==
  ASSUME IdentityTypeOK, NEW edge \in Nat
  PROVE  CacheTtl(edge) \in Nat /\ CacheTtl(edge) >= 1
  BY IdentityAssumption DEF IdentityTypeOK, CacheTtl, Later, Sooner

(* The record of a login carries the account's version and epoch.           *)
LEMMA RecordForType ==
  ASSUME IdentityTypeOK, NEW code \in (0 .. MaxNow) \cup {None}
  PROVE  /\ RecordFor(code) \in SessionRecord /\ RecordFor(code).ver = acct.ver
         /\ RecordFor(code).epoch = acct.epoch /\ RecordFor(code).code = code
         /\ RecordFor(code).kind = "full"
<1> DEFINE t == IF \E g \in InForce(now) : GrantOf[g].privileged THEN "privileged" ELSE "staff"
           m == acct.mfa # "on" /\ \E g \in InForce(now) : GrantOf[g].mfa
<1>1. acct.ver \in 0 .. MaxVersion /\ acct.epoch \in Nat /\ acct.mcp \in BOOLEAN
  BY Zenon DEF IdentityTypeOK, Account
<1>2. t \in {"staff", "privileged"}
  BY Zenon
<1>3. m \in BOOLEAN
  BY Zenon
<1> HIDE DEF t, m
<1>4. RecordFor(code) = [NoHash EXCEPT !.kind = "full", !.ver = acct.ver, !.mcp = acct.mcp,
                           !.epoch = acct.epoch, !.tier = t, !.setup = m, !.code = code]
  BY Zenon DEF RecordFor, t, m
<1>5. RecordFor(code) =
        [kind |-> "full", created |-> 0, seen |-> 0, auth |-> 0, ver |-> acct.ver, tier |-> t,
         mcp |-> acct.mcp, setup |-> m, exp |-> 0, login |-> 0, epoch |-> acct.epoch,
         late |-> FALSE, code |-> code]
  BY <1>4, ZenonT(60) DEF NoHash
<1> QED BY <1>1, <1>2, <1>3, <1>5 DEF SessionRecord

LEMMA LoginRequestType ==
  ASSUME IdentityTypeOK, NEW pc \in {"cap", "mfa"}
  PROVE  /\ LoginRequest(None, pc) \in Request
         /\ LoginRequest(None, pc).kind = "login" /\ LoginRequest(None, pc).pc = pc
         /\ LoginRequest(None, pc).rec = RecordFor(None)
         /\ LoginRequest(None, pc).late = (Changing # {})
<1> DEFINE b == Changing # {}
           rec == RecordFor(None)
<1>1. b \in BOOLEAN /\ rec \in SessionRecord
  BY RecordForType, Zenon
<1>2. LoginRequest(None, pc) =
        [NoRequest EXCEPT !.kind = "login", !.pc = pc, !.rec = rec, !.late = b]
  BY Zenon DEF LoginRequest
<1> HIDE DEF b, rec
<1>3. /\ LoginRequest(None, pc) \in Request
      /\ LoginRequest(None, pc).kind = "login" /\ LoginRequest(None, pc).pc = pc
      /\ LoginRequest(None, pc).rec = rec /\ LoginRequest(None, pc).late = b
  BY <1>1, <1>2, NoRequestType, ZenonT(60) DEF Request, NoRequest
<1> QED BY <1>3, Zenon DEF b, rec

(* What the proofs follow of a stored session, and what ends it.            *)
Kept(a, b) ==
  /\ b.kind = a.kind /\ b.created = a.created /\ b.login = a.login /\ b.epoch = a.epoch
  /\ b.late = a.late /\ b.code = a.code /\ b.ver = a.ver

Over(b) == b.kind # "full" /\ b.code = None /\ b.ver = 0

LEMMA SeenType ==
  ASSUME NEW r \in SessionRecord, NEW t \in Nat, NEW e \in Nat
  PROVE  [r EXCEPT !.seen = t, !.exp = e] \in SessionRecord
         /\ Kept(r, [r EXCEPT !.seen = t, !.exp = e])
  BY Zenon DEF SessionRecord, Kept

LEMMA PartialType ==
  ASSUME NEW t \in Nat, NEW e \in Nat
  PROVE  LET r == [[NoHash EXCEPT !.kind = "partial"] EXCEPT !.seen = t, !.exp = e]
         IN  r \in SessionRecord /\ Over(r)
<1> DEFINE m == [NoHash EXCEPT !.kind = "partial"]
           r == [m EXCEPT !.seen = t, !.exp = e]
<1>1. m \in SessionRecord /\ Over(m)
  <2>1. m \in SessionRecord
    BY NoHashType, Zenon DEF SessionRecord
  <2>2. m.kind = "partial" /\ m.code = NoHash.code /\ m.ver = NoHash.ver
    BY NoHashType, Zenon DEF SessionRecord
  <2>3. NoHash.code = None /\ NoHash.ver = 0
    BY Zenon DEF NoHash
  <2> QED BY <2>1, <2>2, <2>3, Zenon DEF Over
<1> HIDE DEF m
<1>2. r \in SessionRecord /\ Over(r)
  BY <1>1, Zenon DEF SessionRecord, Over
<1> QED BY <1>2, Zenon DEF m, r

LEMMA StampType ==
  ASSUME NEW r \in SessionRecord, NEW v \in 0 .. MaxVersion
  PROVE  LET n == [r EXCEPT !.ver = v]
         IN  /\ n \in SessionRecord /\ n.kind = r.kind /\ n.created = r.created
             /\ n.login = r.login /\ n.epoch = r.epoch /\ n.late = r.late
             /\ n.code = r.code /\ n.ver = v
  BY Zenon DEF SessionRecord

LEMMA ExpiryType ==
  ASSUME NEW m \in SessionRecord, NEW e \in Nat, NEW n, n = [m EXCEPT !.exp = e]
  PROVE  n \in SessionRecord /\ Kept(m, n)
  BY Zenon DEF SessionRecord, Kept

(* A rotated session keeps its lifetime and starts no new one.              *)
LEMMA RotatedType ==
  ASSUME IdentityTypeOK, NEW p \in Procs
  PROVE  /\ Rotated(p) \in SessionRecord /\ Rotated(p).kind = req[p].rec.kind
         /\ Rotated(p).created = req[p].rec.created /\ Rotated(p).login = req[p].rec.login
         /\ Rotated(p).late = req[p].late /\ Rotated(p).code = None
         /\ Rotated(p).ver = req[p].rec.ver
         /\ Rotated(p).epoch =
              IF req[p].kind = "revoke" THEN req[p].rec.epoch + 1 ELSE req[p].rec.epoch
<1> DEFINE r == req[p].rec
           m == r.mcp /\ req[p].kind # "revoke"
           u == r.setup /\ req[p].kind = "revoke"
           e == IF req[p].kind = "revoke" THEN r.epoch + 1 ELSE r.epoch
           n == [r EXCEPT !.auth = now, !.late = req[p].late, !.code = None, !.mcp = m,
                          !.setup = u, !.epoch = e]
<1>1. r \in SessionRecord /\ req[p].late \in BOOLEAN /\ now \in Nat
  BY DEF IdentityTypeOK, Request
<1>2. m \in BOOLEAN /\ u \in BOOLEAN
  BY <1>1, Zenon DEF SessionRecord
<1>3. e \in Nat
  BY <1>1 DEF SessionRecord
<1>4. Rotated(p) = [n EXCEPT !.exp = now + SessionTtl(n)]
  BY Zenon DEF Rotated
<1> HIDE DEF m, u, e, r
<1>5. /\ n \in SessionRecord /\ n.kind = r.kind /\ n.created = r.created /\ n.login = r.login
      /\ n.late = req[p].late /\ n.code = None /\ n.ver = r.ver /\ n.epoch = e
  BY <1>1, <1>2, <1>3, Zenon DEF SessionRecord
<1> HIDE DEF n
<1>6. now + SessionTtl(n) \in Nat
  BY <1>1, <1>5, TtlType
<1>7. /\ Rotated(p) \in SessionRecord /\ Rotated(p).kind = n.kind
      /\ Rotated(p).created = n.created /\ Rotated(p).login = n.login
      /\ Rotated(p).late = n.late /\ Rotated(p).code = n.code /\ Rotated(p).ver = n.ver
      /\ Rotated(p).epoch = n.epoch
  BY <1>4, <1>5, <1>6, Zenon DEF SessionRecord
<1>8. e = IF req[p].kind = "revoke" THEN req[p].rec.epoch + 1 ELSE req[p].rec.epoch
  BY Zenon DEF e, r
<1> QED BY <1>5, <1>7, <1>8, Zenon DEF r

LEMMA GotoType ==
  ASSUME NEW r \in Request,
         NEW pc \in {"create", "in", "load", "rot", "commit", "stamp", "invalidate"}
  PROVE  LET n == [r EXCEPT !.pc = pc]
         IN  /\ n \in Request /\ n.pc = pc /\ n.kind = r.kind /\ n.sid = r.sid /\ n.rec = r.rec
             /\ n.list = r.list /\ n.ver = r.ver /\ n.grant = r.grant /\ n.late = r.late
  BY Zenon DEF Request

LEMMA InitInv == Init => IdentityInv
<1> SUFFICES ASSUME Init PROVE IdentityInv
  BY Zenon
<1> USE IdentityAssumption
<1>1. PICK start \in Starts :
        /\ minted = start.minted
        /\ acct = [active |-> TRUE, breakGlass |-> FALSE, mcp |-> start.mcp, mfa |-> start.mfa,
                   ver |-> 0, grants |-> start.grants, epoch |-> 0, crossed |-> FALSE]
  BY Zenon DEF Init
<1>2. acct \in Account /\ acct.ver = 0 /\ acct.epoch = 0 /\ minted \in 0 .. MaxSids
  BY <1>1 DEF Account
<1>3. NoHash.kind = "none" /\ NoHash.code = None /\ NoHash.ver = 0
  BY Zenon DEF NoHash
<1>4. NoRequest.kind = "none" /\ NoRequest.pc = "idle" /\ NoRequest.rec = NoHash
  BY Zenon DEF NoRequest
<1>5. \A s \in Sids : hash[s] = NoHash
  BY Zenon DEF Init
<1>6. \A p \in Procs : req[p] = NoRequest
  BY Zenon DEF Init
<1>7. \A v \in 0 .. MaxVersion : cache[v] = NoEntry /\ cache[v].exp = 0
  BY Zenon DEF Init, NoEntry
<1>8. IdentityTypeOK
  <2>1. NoEntry \in [codes : SUBSET Codes, exp : Nat]
    BY Zenon DEF NoEntry
  <2> QED BY <1>2, <2>1, NoHashType, NoRequestType DEF Init, IdentityTypeOK
<1>9. RequestsOK
  BY <1>4, <1>6, Zenon DEF RequestsOK, RequestOK
<1>10. StoreOK /\ RevokeOK
  BY <1>3, <1>5, Zenon DEF StoreOK, RevokeOK, Current, Stands
<1>11. CodesOK
  BY <1>3, <1>4, <1>5, <1>6, Zenon DEF CodesOK, Carries
<1>12. OverlapOK
  BY <1>4, <1>6, Zenon DEF OverlapOK, Minting
<1>13. GrantOK
  BY <1>2, <1>3, <1>4, <1>5, <1>6 DEF GrantOK, Granting, Current, Stands
<1>14. CacheOK
  BY <1>2, <1>4, <1>6, <1>7 DEF CacheOK
<1> QED BY <1>8, <1>9, <1>10, <1>11, <1>12, <1>13, <1>14, Zenon DEF IdentityInv

-----------------------------------------------------------------------------
(* What a step that mints nothing and changes no grant leaves alone *)

(* Every session is as it was in what the invariant sees of it, or over.    *)
HashKeeps ==
  \A s \in Sids :
    \/ Over(hash'[s])
    \/ Kept(hash[s], hash'[s]) /\ (s \in index /\ Stands(s) => s \in index')

LEMMA UnchangedKeeps ==
  ASSUME hash' = hash, index' = index
  PROVE  HashKeeps
  BY Zenon DEF HashKeeps, Kept

LEMMA DeleteKeeps ==
  ASSUME IdentityTypeOK, NEW gone, hash' = Delete(gone),
         \A s \in index \ gone : Stands(s) => s \in index'
  PROVE  HashKeeps
<1>1. \A s \in Sids : hash'[s] = IF s \in gone THEN NoHash ELSE hash[s]
  BY Zenon DEF Delete
<1>2. Over(NoHash)
  BY Zenon DEF Over, NoHash
<1> QED BY <1>1, <1>2, Zenon DEF HashKeeps, Kept

LEMMA StoreFrame ==
  ASSUME StoreOK, HashKeeps
  PROVE  StoreOK'
  BY Zenon DEF StoreOK, HashKeeps, Kept, Over, Stands, Exists

LEMMA CurrentKept ==
  ASSUME HashKeeps, NEW s \in Sids, Current(s)'
  PROVE  Current(s) /\ hash'[s].epoch = hash[s].epoch /\ hash'[s].ver = hash[s].ver
  BY Zenon DEF HashKeeps, Kept, Over, Current, Stands, Exists

(* Codes: nobody comes to carry one.                                        *)
LEMMA CodesMove ==
  ASSUME IdentityTypeOK, CodesOK, HashKeeps, \A c \in 0 .. MaxNow : Spent(c) => Spent(c)',
         \A q \in Procs : Carries(q)' => Carries(q) /\ req'[q].rec.code = req[q].rec.code
  PROVE  CodesOK'
<1>1. \A s \in Sids : hash'[s].code # None => hash'[s].code = hash[s].code
  BY Zenon DEF HashKeeps, Kept, Over
<1>2. \A s \in Sids : hash[s].code \in (0 .. MaxNow) \cup {None}
  BY Zenon DEF IdentityTypeOK, SessionRecord
<1>3. \A q \in Procs : req[q].rec.code \in (0 .. MaxNow) \cup {None}
  BY Zenon DEF IdentityTypeOK, Request, SessionRecord
<1>4. ASSUME NEW s \in Sids, hash'[s].code # None PROVE Spent(hash[s].code)'
  <2>1. PICK d \in 0 .. MaxNow : d = hash[s].code
    BY <1>1, <1>2, <1>4, Zenon
  <2>2. Spent(d)' /\ hash'[s].code = d
    BY <1>1, <1>4, <2>1 DEF CodesOK
  <2> QED BY <2>2, Zenon DEF Spent
<1>5. ASSUME NEW q \in Procs, Carries(q)' PROVE Spent(req[q].rec.code)'
  <2>1. PICK d \in 0 .. MaxNow : d = req[q].rec.code
    BY <1>3, <1>5, Zenon DEF Carries
  <2>2. Spent(d)' /\ req'[q].rec.code = d
    BY <1>5, <2>1, Zenon DEF CodesOK
  <2> QED BY <2>2, Zenon DEF Spent
<1>6. \A s, t \in Sids : hash'[s].code # None /\ hash'[s].code = hash'[t].code => s = t
  BY <1>1, ZenonT(60) DEF CodesOK
<1>7. \A p, q \in Procs :
        Carries(p)' /\ Carries(q)' /\ req'[p].rec.code = req'[q].rec.code => p = q
  BY Zenon DEF CodesOK
<1>8. \A p \in Procs, s \in Sids : Carries(p)' => hash'[s].code # req'[p].rec.code
  BY <1>1, Zenon DEF CodesOK, Carries
<1> QED BY <1>4, <1>5, <1>6, <1>7, <1>8, Zenon DEF CodesOK

LEMMA CodesFrame ==
  ASSUME IdentityTypeOK, CodesOK, HashKeeps, now' = now, used' = used,
         \A q \in Procs : Carries(q)' => Carries(q) /\ req'[q].rec.code = req[q].rec.code
  PROVE  CodesOK'
<1>1. \A c \in 0 .. MaxNow : Spent(c) => Spent(c)'
  BY Zenon DEF Spent
<1> QED BY <1>1, CodesMove, Zenon

LEMMA OverlapFrame ==
  ASSUME OverlapOK, acct'.epoch = acct.epoch, acct'.ver = acct.ver, acct'.crossed = acct.crossed,
         Changing' \subseteq Changing,
         \A q \in Procs : q \in Minting' /\ ~req'[q].late =>
           /\ q \in Minting /\ ~req[q].late
           /\ HasRead(req'[q]) => HasRead(req[q]) /\ req'[q].rec.epoch = req[q].rec.epoch
                                 /\ req'[q].rec.ver = req[q].rec.ver
  PROVE  OverlapOK'
<1> SUFFICES ASSUME NEW q \in Minting', ~req'[q].late
             PROVE  /\ Changing' \subseteq {q}
                    /\ HasRead(req'[q]) => req'[q].rec.epoch >= acct'.epoch
                    /\ HasRead(req'[q]) /\ ~acct'.crossed => req'[q].rec.ver = acct'.ver
  BY Zenon DEF OverlapOK, HasRead
<1>1. q \in Procs
  BY Zenon DEF Minting
<1> QED BY <1>1, Zenon DEF OverlapOK

LEMMA RevokeFrame ==
  ASSUME RevokeOK, HashKeeps, acct'.epoch = acct.epoch,
         \A q \in Procs : req'[q].kind = "revoke" =>
           \/ req'[q].pc = "list"
           \/ /\ req'[q].kind = req[q].kind /\ req'[q].pc = req[q].pc /\ req'[q].sid = req[q].sid
              /\ req'[q].list = req[q].list /\ req'[q].grant = req[q].grant
  PROVE  RevokeOK'
<1> SUFFICES ASSUME NEW s \in Sids, Current(s)'
             PROVE  hash'[s].epoch >= acct'.epoch /\ \A q \in Procs : Facing(s, req[q])'
  BY Zenon DEF RevokeOK
<1>1. Current(s) /\ hash'[s].epoch = hash[s].epoch
  BY CurrentKept, Zenon
<1>2. hash[s].epoch >= acct.epoch /\ \A q \in Procs : Facing(s, req[q])
  BY <1>1, Zenon DEF RevokeOK
<1>3. ASSUME NEW q \in Procs
      PROVE  Facing(s, req[q])'
  BY <1>1, <1>2, Zenon DEF Facing
<1> QED BY <1>1, <1>2, <1>3, Zenon

LEMMA GrantFrame ==
  ASSUME GrantOK, HashKeeps, acct'.ver = acct.ver, acct'.crossed = acct.crossed, acct.ver \in Nat,
         \A q \in Procs : req'[q].kind = "grant" <=> req[q].kind = "grant",
         \A q \in Procs : req[q].kind = "grant" =>
           req'[q].pc = req[q].pc /\ req'[q].list = req[q].list /\ req'[q].ver = req[q].ver,
         ~acct.crossed => \A q \in Procs : req'[q].rec.ver <= acct.ver
  PROVE  GrantOK'
<1> SUFFICES ASSUME ~acct.crossed
             PROVE  /\ \A p, q \in Granting' : p = q
                    /\ \A p \in Granting' : Bound(req[p])'
                    /\ \A s \in Sids : hash'[s].ver <= acct'.ver
                    /\ \A p \in Procs : req'[p].rec.ver <= acct'.ver
                    /\ \A s \in Sids : Current(s)' => Stamped(s)'
  BY Zenon DEF GrantOK
<1>1. Granting' = Granting
  BY Zenon DEF Granting
<1>2. \A p \in Granting : Bound(req[p])'
  BY ZenonT(60) DEF Granting, Bound, GrantOK
<1>3. \A s \in Sids : hash'[s].ver <= acct'.ver
  BY DEF HashKeeps, Kept, Over, GrantOK
<1>4. ASSUME NEW s \in Sids, Current(s)' PROVE Stamped(s)'
  <2>1. Current(s) /\ hash'[s].ver = hash[s].ver
    BY <1>4, CurrentKept, Zenon
  <2>2. Stamped(s)
    BY <2>1, Zenon DEF GrantOK
  <2> QED BY <1>1, <2>1, <2>2, Zenon DEF Stamped, Granting
<1> QED BY <1>1, <1>2, <1>3, <1>4, Zenon DEF GrantOK

LEMMA CacheFrame ==
  ASSUME CacheOK, now' = now, cache' = cache, acct'.ver = acct.ver, acct.crossed => acct'.crossed,
         acct'.grants = acct.grants,
         \A q \in Procs : req'[q].pc = "store" => req'[q] = req[q]
  PROVE  CacheOK'
<1>1. \A t : EffectivePermissions(t)' = EffectivePermissions(t)
  BY Zenon DEF EffectivePermissions, InForce
<1>2. \A e : CacheTtl(e)' = CacheTtl(e)
  BY Zenon DEF CacheTtl
<1>3. \A c, u : Holds(c, u)' <=> Holds(c, u)
  BY <1>1, Zenon DEF Holds
<1> QED BY <1>2, <1>3, Zenon DEF CacheOK

(* A request that changes nothing of the account moves on.                  *)
Changer(r) == r.kind \in {"revoke", "grant"}

Minter(r) ==
  \/ r.pc \in {"cap", "create", "mfa", "rot", "rotated"}
  \/ r.kind = "revoke" /\ r.grant = "password"

UpToDate(r) == r.rec.epoch >= acct.epoch /\ (~acct.crossed => r.rec.ver = acct.ver)

AccountKeeps ==
  /\ acct'.epoch = acct.epoch /\ acct'.ver = acct.ver /\ acct'.crossed = acct.crossed
  /\ acct'.grants = acct.grants

(* Only p's request moves, and the row lock does not.                       *)
LEMMA OthersOK ==
  ASSUME RequestsOK, NEW p \in Procs, lock' = lock, RequestOK(p)',
         \A q \in Procs : q # p => req'[q] = req[q]
  PROVE  RequestsOK'
<1> SUFFICES ASSUME NEW q \in Procs, q # p PROVE RequestOK(q)'
  BY Zenon DEF RequestsOK
<1>1. req'[q] = req[q] /\ RequestOK(q)
  BY Zenon DEF RequestsOK
<1> QED BY <1>1, Zenon DEF RequestOK

LEMMA RequestMoves ==
  ASSUME IdentityInv, NEW p \in Procs, NEW r \in Request, req' = [req EXCEPT ![p] = r],
         ~Changer(req[p]), ~Changer(r), HashKeeps, AccountKeeps,
         now' = now, used' = used, lock' = lock,
         RequestOK(p)',
         Carries(p)' => Carries(p) /\ r.rec.code = req[p].rec.code,
         ~acct.crossed => r.rec.ver <= acct.ver,
         Minter(r) /\ ~r.late => Changing = {} /\ (HasRead(r) => UpToDate(r))
  PROVE  RequestsOK' /\ StoreOK' /\ CodesOK' /\ OverlapOK' /\ RevokeOK' /\ GrantOK'
<1>1. req'[p] = r /\ \A q \in Procs : q # p => req'[q] = req[q]
  BY Zenon DEF IdentityInv, IdentityTypeOK
<1>2. RequestsOK'
  <2>1. RequestsOK
    BY Zenon DEF IdentityInv
  <2> QED BY ONLY p \in Procs, lock' = lock, RequestOK(p)', <1>1, <2>1, OthersOK, Zenon
<1>3. StoreOK'
  BY StoreFrame, Zenon DEF IdentityInv
<1>4. CodesOK'
  <2>1. \A q \in Procs : Carries(q)' => Carries(q) /\ req'[q].rec.code = req[q].rec.code
    BY <1>1, Zenon DEF Carries
  <2> QED BY <2>1, CodesFrame, Zenon DEF IdentityInv
<1>5. Changing' = Changing
  BY <1>1, Zenon DEF Changing, Changer
<1>6. OverlapOK'
  <2> SUFFICES ASSUME NEW q \in Minting', ~req'[q].late
               PROVE  /\ Changing' \subseteq {q}
                      /\ HasRead(req'[q]) => req'[q].rec.epoch >= acct'.epoch
                      /\ HasRead(req'[q]) /\ ~acct'.crossed => req'[q].rec.ver = acct'.ver
    BY Zenon DEF OverlapOK, HasRead
  <2>1. q \in Procs /\ Minter(req'[q])
    BY Zenon DEF Minting, Minter
  <2>2. CASE q = p
    BY <1>1, <1>5, <2>1, <2>2, Zenon DEF UpToDate, AccountKeeps
  <2>3. CASE q # p
    <3>1. q \in Minting /\ req'[q] = req[q]
      BY <1>1, <2>1, <2>3, Zenon DEF Minting, Minter
    <3> QED BY <1>5, <3>1, Zenon DEF IdentityInv, OverlapOK, AccountKeeps
  <2> QED BY <2>2, <2>3, Zenon
<1>7. RevokeOK'
  <2>1. \A q \in Procs : req'[q].kind = "revoke" => req'[q] = req[q]
    BY <1>1, Zenon DEF Changer
  <2> QED BY <2>1, RevokeFrame, Zenon DEF IdentityInv, AccountKeeps
<1>8. GrantOK'
  <2>1. \A q \in Procs : req'[q].kind = "grant" <=> req[q].kind = "grant"
    BY <1>1, Zenon DEF Changer
  <2>2. \A q \in Procs : req[q].kind = "grant" => req'[q] = req[q]
    BY <1>1, Zenon DEF Changer
  <2>3. ~acct.crossed => \A q \in Procs : req'[q].rec.ver <= acct.ver
    BY <1>1, Zenon DEF IdentityInv, GrantOK
  <2>4. acct.ver \in Nat
    BY DEF IdentityInv, IdentityTypeOK, Account
  <2> QED BY <2>1, <2>2, <2>3, <2>4, GrantFrame, Zenon DEF IdentityInv, AccountKeeps
<1> QED BY <1>2, <1>3, <1>4, <1>6, <1>7, <1>8, Zenon

(* The same, for a request that is not about to fill the cache.             *)
LEMMA QuietMove ==
  ASSUME IdentityInv, NEW p \in Procs, NEW r \in Request, req' = [req EXCEPT ![p] = r],
         ~Changer(req[p]), ~Changer(r), HashKeeps, AccountKeeps, acct' \in Account,
         now' = now, used' = used, lock' = lock, cache' = cache, minted' = minted,
         hash' \in [Sids -> SessionRecord], index' \subseteq Sids,
         RequestOK(p)', r.pc # "store",
         Carries(p)' => Carries(p) /\ r.rec.code = req[p].rec.code,
         ~acct.crossed => r.rec.ver <= acct.ver,
         Minter(r) /\ ~r.late => Changing = {} /\ (HasRead(r) => UpToDate(r))
  PROVE  IdentityInv'
<1>1. RequestsOK' /\ StoreOK' /\ CodesOK' /\ OverlapOK' /\ RevokeOK' /\ GrantOK'
  BY RequestMoves, Zenon
<1>2. CacheOK'
  <2>1. \A q \in Procs : req'[q].pc = "store" => req'[q] = req[q]
    BY Zenon DEF IdentityInv, IdentityTypeOK
  <2> QED BY <2>1, CacheFrame, Zenon DEF IdentityInv, AccountKeeps
<1>3. IdentityTypeOK'
  BY Zenon DEF IdentityInv, IdentityTypeOK
<1> QED BY <1>1, <1>2, <1>3, Zenon DEF IdentityInv

LEMMA DeleteType ==
  ASSUME IdentityTypeOK, NEW gone
  PROVE  Delete(gone) \in [Sids -> SessionRecord]
  BY NoHashType, Zenon DEF Delete, IdentityTypeOK

(* An answered request is an idle one.                                      *)
LEMMA Answers ==
  ASSUME IdentityInv, NEW p \in Procs, Answer(p), ~Changer(req[p]), HashKeeps, AccountKeeps,
         acct' \in Account, now' = now, used' = used, lock' = lock, cache' = cache,
         minted' = minted, hash' \in [Sids -> SessionRecord], index' \subseteq Sids
  PROVE  IdentityInv'
<1>1. req' = [req EXCEPT ![p] = NoRequest]
  BY Zenon DEF Answer, Become
<1>2. /\ NoRequest.kind = "none" /\ NoRequest.pc = "idle" /\ NoRequest.rec = NoHash
      /\ NoHash.ver = 0
  BY Zenon DEF NoRequest, NoHash
<1>3. req'[p] = NoRequest
  BY <1>1, Zenon DEF IdentityInv, IdentityTypeOK
<1>4. RequestOK(p)'
  BY <1>2, <1>3, Zenon DEF RequestOK
<1>5. ~Carries(p)' /\ ~Changer(NoRequest) /\ ~Minter(NoRequest)
  BY <1>2, <1>3, Zenon DEF Carries, Changer, Minter
<1>6. NoRequest.rec.ver <= acct.ver
  BY <1>2 DEF IdentityInv, IdentityTypeOK, Account
<1> QED BY <1>1, <1>2, <1>4, <1>5, <1>6, NoRequestType, QuietMove, Zenon

(* A step of an idle process that leaves it idle.                           *)
LEMMA IdleMoves ==
  ASSUME IdentityInv, NEW p \in Procs, req[p].pc = "idle", req' = req, HashKeeps, AccountKeeps,
         acct' \in Account, now' = now, used' = used, lock' = lock, cache' = cache,
         minted' = minted, hash' \in [Sids -> SessionRecord], index' \subseteq Sids
  PROVE  IdentityInv'
<1>1. req[p] \in Request /\ req' = [req EXCEPT ![p] = req[p]] /\ req'[p] = req[p]
  BY Zenon DEF IdentityInv, IdentityTypeOK
<1>2. RequestOK(p)
  BY Zenon DEF IdentityInv, RequestsOK
<1>3. req[p].kind = "none"
  BY <1>1, <1>2, Zenon DEF RequestOK, Request
<1>4. RequestOK(p)'
  BY <1>1, <1>3, Zenon DEF RequestOK
<1>5. ~Carries(p)' /\ ~Changer(req[p]) /\ ~Minter(req[p])
  BY <1>1, <1>3, Zenon DEF Carries, Changer, Minter
<1>6. ~acct.crossed => req[p].rec.ver <= acct.ver
  BY Zenon DEF IdentityInv, GrantOK
<1> QED BY <1>1, <1>4, <1>5, <1>6, QuietMove, Zenon

(* The request of a login starts from the account as it is.                 *)
LEMMA LoginStarts ==
  ASSUME IdentityInv, NEW p \in Procs, req[p].pc = "idle", NEW pc \in {"cap", "mfa"},
         Become(p, LoginRequest(None, pc)),
         UNCHANGED <<now, acct, lock, hash, index, minted, cache, used>>
  PROVE  IdentityInv'
<1> DEFINE r == LoginRequest(None, pc)
<1>1. IdentityTypeOK /\ HashKeeps /\ AccountKeeps
  BY UnchangedKeeps, Zenon DEF IdentityInv, AccountKeeps
<1>2. /\ r \in Request /\ r.kind = "login" /\ r.pc = pc /\ r.rec = RecordFor(None)
      /\ r.late = (Changing # {})
  BY <1>1, LoginRequestType, Zenon
<1>3. /\ r.rec.ver = acct.ver /\ r.rec.epoch = acct.epoch /\ r.rec.code = None
      /\ r.rec.kind = "full"
  <2>1. None \in (0 .. MaxNow) \cup {None}
    BY Zenon
  <2>2. RecordFor(None).ver = acct.ver /\ RecordFor(None).epoch = acct.epoch
        /\ RecordFor(None).code = None /\ RecordFor(None).kind = "full"
    BY <1>1, <2>1, RecordForType, Zenon
  <2> HIDE DEF r
  <2> QED BY <1>2, <2>2, Zenon
<1> HIDE DEF r
<1>4. req' = [req EXCEPT ![p] = r] /\ req'[p] = r
  BY <1>1, Zenon DEF Become, IdentityTypeOK, r
<1>5. ~Changer(req[p])
  BY Zenon DEF IdentityInv, RequestsOK, RequestOK, Changer
<1>6. ~Changer(r) /\ r.pc # "store" /\ ~Carries(p)'
  BY <1>2, <1>3, <1>4, Zenon DEF Changer, Carries
<1>7. RequestOK(p)'
  BY <1>2, <1>3, <1>4, Zenon DEF RequestOK
<1>8. acct.ver \in Nat /\ acct.epoch \in Nat
  BY <1>1 DEF IdentityTypeOK, Account
<1>9. r.rec.ver <= acct.ver /\ UpToDate(r)
  BY <1>3, <1>8 DEF UpToDate
<1>10. ~r.late => Changing = {}
  BY <1>2, Zenon
<1>11. acct' \in Account /\ hash' \in [Sids -> SessionRecord] /\ index' \subseteq Sids
  BY <1>1, Zenon DEF IdentityTypeOK
<1> QED BY <1>1, <1>2, <1>4, <1>5, <1>6, <1>7, <1>9, <1>10, <1>11, QuietMove, Zenon

LEMMA LoginKeeps ==
  ASSUME IdentityInv, NEW p \in Procs, NEW good \in BOOLEAN, Login(p, good)
  PROVE  IdentityInv'
<1>1. /\ req[p].pc = "idle" /\ UNCHANGED <<now, acct, lock, hash, index, minted, cache, used>>
      /\ req' = req \/ Become(p, LoginRequest(None, "cap"))
  BY Zenon DEF Login, Idle
<1>2. HashKeeps /\ AccountKeeps
  BY <1>1, UnchangedKeeps, Zenon DEF AccountKeeps
<1>3. acct' \in Account /\ hash' \in [Sids -> SessionRecord] /\ index' \subseteq Sids
  BY <1>1, Zenon DEF IdentityInv, IdentityTypeOK
<1>4. CASE req' = req
  BY <1>1, <1>2, <1>3, <1>4, IdleMoves, Zenon
<1>5. CASE Become(p, LoginRequest(None, "cap"))
  BY <1>1, <1>5, LoginStarts, Zenon
<1> QED BY <1>1, <1>4, <1>5, Zenon

LEMMA ReadPendingKeeps ==
  ASSUME IdentityInv, NEW p \in Procs, ReadPending(p)
  PROVE  IdentityInv'
<1>1. /\ req[p].pc = "idle" /\ UNCHANGED <<now, acct, lock, hash, index, minted, cache, used>>
      /\ Become(p, LoginRequest(None, "mfa"))
  BY Zenon DEF ReadPending, Idle
<1> QED BY <1>1, LoginStarts, Zenon

(* A step on of a request with nothing of it changed but its pc.            *)
LEMMA GoesOn ==
  ASSUME IdentityInv, NEW p \in Procs, NEW pc \in {"create", "in", "load"}, Goto(p, pc),
         pc = "create" => req[p].pc = "cap",
         pc \in {"in", "load"} => req[p].pc \in {"touch", "in"},
         HashKeeps, UNCHANGED <<now, acct, lock, minted, cache, used>>,
         hash' \in [Sids -> SessionRecord], index' \subseteq Sids
  PROVE  IdentityInv'
<1> DEFINE r == [req[p] EXCEPT !.pc = pc]
<1>1. req[p] \in Request /\ RequestOK(p) /\ IdentityTypeOK
  BY Zenon DEF IdentityInv, IdentityTypeOK, RequestsOK
<1>2. /\ r \in Request /\ r.pc = pc /\ r.kind = req[p].kind /\ r.sid = req[p].sid
      /\ r.rec = req[p].rec /\ r.late = req[p].late /\ r.grant = req[p].grant
  BY <1>1, Zenon DEF Request
<1>3. req' = [req EXCEPT ![p] = r] /\ req'[p] = r
  BY <1>1, Zenon DEF Goto, IdentityTypeOK
<1> HIDE DEF r
<1>4. req[p].kind = IF pc = "create" THEN "login" ELSE "request"
  BY <1>1, Zenon DEF RequestOK, Request
<1>5. ~Changer(req[p]) /\ ~Changer(r) /\ r.pc # "store"
  BY <1>2, <1>4, Zenon DEF Changer
<1>6. RequestOK(p)'
  BY <1>1, <1>2, <1>3, <1>4, Zenon DEF RequestOK
<1>7. Carries(p)' => Carries(p) /\ r.rec.code = req[p].rec.code
  BY <1>2, <1>3, Zenon DEF Carries
<1>8. ~acct.crossed => r.rec.ver <= acct.ver
  BY <1>2, Zenon DEF IdentityInv, GrantOK
<1>9. Minter(r) /\ ~r.late => Changing = {} /\ (HasRead(r) => UpToDate(r))
  <2> SUFFICES ASSUME Minter(r), ~r.late
               PROVE  Changing = {} /\ UpToDate(r)
    BY Zenon
  <2>1. pc = "create"
    BY <1>2, <1>4, Zenon DEF Minter
  <2>2. p \in Minting /\ HasRead(req[p]) /\ ~req[p].late
    BY <1>2, <2>1, Zenon DEF Minting, HasRead
  <2>3. Changing \subseteq {p} /\ UpToDate(req[p])
    BY <2>2, Zenon DEF IdentityInv, OverlapOK, UpToDate
  <2>4. p \notin Changing
    BY <1>4, Zenon DEF Changing
  <2> QED BY <1>2, <2>3, <2>4, Zenon DEF UpToDate
<1>10. AccountKeeps /\ acct' \in Account
  BY <1>1, Zenon DEF AccountKeeps, IdentityTypeOK
<1> QED BY <1>2, <1>3, <1>5, <1>6, <1>7, <1>8, <1>9, <1>10, QuietMove, Zenon

(* destroy takes the hash and the index member away together; pruning the   *)
(* index takes no standing session out.                                     *)
LEMMA DestroyKeeps ==
  ASSUME IdentityTypeOK, NEW gone, hash' = Delete(gone), index' \in {index \ gone, Pruned \ gone}
  PROVE  HashKeeps /\ hash' \in [Sids -> SessionRecord] /\ index' \subseteq Sids
<1>1. \A s \in index \ gone : Stands(s) => s \in index'
  BY Zenon DEF Pruned, Stands
<1>2. index' \subseteq Sids
  BY Zenon DEF IdentityTypeOK, Pruned
<1> QED BY <1>1, <1>2, DeleteKeeps, DeleteType, Zenon

LEMMA PruneKeeps ==
  ASSUME IdentityTypeOK, hash' = hash, index' \in {index, Pruned}
  PROVE  HashKeeps /\ hash' \in [Sids -> SessionRecord] /\ index' \subseteq Sids
  BY Zenon DEF IdentityTypeOK, Pruned, Stands, HashKeeps, Kept

LEMMA EnforceCapKeeps ==
  ASSUME IdentityInv, NEW p \in Procs, EnforceCap(p)
  PROVE  IdentityInv'
<1>1. /\ req[p].pc = "cap" /\ UNCHANGED <<now, acct, lock, minted, cache, used>>
      /\ \/ hash' = hash /\ index' \in {index, Pruned}
         \/ \E gone : hash' = Delete(gone) /\ index' = Pruned \ gone
      /\ Answer(p) \/ Goto(p, "create")
  BY Zenon DEF EnforceCap
<1>2. IdentityTypeOK /\ RequestOK(p)
  BY Zenon DEF IdentityInv, RequestsOK
<1>3. HashKeeps /\ hash' \in [Sids -> SessionRecord] /\ index' \subseteq Sids
  <2>1. CASE hash' = hash /\ index' \in {index, Pruned}
    BY <1>2, <2>1, PruneKeeps, Zenon
  <2>2. ASSUME NEW gone, hash' = Delete(gone), index' = Pruned \ gone
        PROVE  HashKeeps /\ hash' \in [Sids -> SessionRecord] /\ index' \subseteq Sids
    BY <1>2, <2>2, DestroyKeeps, Zenon
  <2> QED BY <1>1, <2>1, <2>2, Zenon
<1>4. AccountKeeps /\ acct' \in Account /\ ~Changer(req[p])
  BY <1>1, <1>2, Zenon DEF AccountKeeps, IdentityTypeOK, RequestOK, Changer
<1>5. CASE Answer(p)
  BY <1>1, <1>3, <1>4, <1>5, Answers, Zenon
<1>6. CASE Goto(p, "create")
  BY <1>1, <1>3, <1>6, GoesOn, Zenon
<1> QED BY <1>1, <1>5, <1>6, Zenon

LEMMA ResolveKeeps ==
  ASSUME IdentityInv, NEW p \in Procs, NEW s \in Sids, Resolve(p, s)
  PROVE  IdentityInv'
<1>1. req[p].pc = "idle" /\ UNCHANGED <<now, acct, lock, minted, cache, used>>
  BY Zenon DEF Resolve, Idle
<1>2. IdentityTypeOK /\ RequestOK(p) /\ AccountKeeps /\ acct' \in Account
  BY <1>1, Zenon DEF IdentityInv, RequestsOK, AccountKeeps, IdentityTypeOK
<1>3. CASE hash' = Delete({s}) /\ index' = index \ {s} /\ req' = req
  <2>1. HashKeeps /\ hash' \in [Sids -> SessionRecord] /\ index' \subseteq Sids
    BY <1>2, <1>3, DestroyKeeps, Zenon
  <2> QED BY <1>1, <1>2, <1>3, <2>1, IdleMoves, Zenon
<1>4. CASE /\ hash' = hash /\ index' = index
           /\ Become(p, [NoRequest EXCEPT !.kind = "request", !.pc = "touch", !.sid = s,
                                          !.rec = hash[s]])
  <2> DEFINE r == [NoRequest EXCEPT !.kind = "request", !.pc = "touch", !.sid = s,
                                    !.rec = hash[s]]
  <2>1. hash[s] \in SessionRecord /\ s \in 0 .. MaxSids
    BY <1>2 DEF IdentityTypeOK, Sids
  <2>2. r \in Request /\ r.kind = "request" /\ r.pc = "touch" /\ r.rec = hash[s]
        /\ r.sid = s
    BY <2>1, NoRequestType, Zenon DEF Request, NoRequest
  <2>3. req' = [req EXCEPT ![p] = r] /\ req'[p] = r
    BY <1>2, <1>4, Zenon DEF Become, IdentityTypeOK
  <2> HIDE DEF r
  <2>4. ~Changer(req[p]) /\ ~Changer(r) /\ ~Minter(r) /\ r.pc # "store" /\ ~Carries(p)'
    BY <1>1, <1>2, <2>2, <2>3, Zenon DEF RequestOK, Changer, Minter, Carries
  <2>5. RequestOK(p)'
    BY <2>2, <2>3, Zenon DEF RequestOK
  <2>6. ~acct.crossed => r.rec.ver <= acct.ver
    BY <2>2, Zenon DEF IdentityInv, GrantOK
  <2>7. HashKeeps /\ hash' \in [Sids -> SessionRecord] /\ index' \subseteq Sids
    BY <1>2, <1>4, UnchangedKeeps, Zenon DEF IdentityTypeOK
  <2> QED BY <1>1, <1>2, <2>2, <2>3, <2>4, <2>5, <2>6, <2>7, QuietMove, Zenon
<1> QED BY <1>3, <1>4, Zenon DEF Resolve

LEMMA TouchedHash ==
  ASSUME IdentityInv, NEW p \in Procs, Touch(p)
  PROVE  HashKeeps /\ hash' \in [Sids -> SessionRecord]
<1>1. req[p].sid \in 0 .. MaxSids /\ req[p].rec \in SessionRecord /\ now \in Nat /\ IdentityTypeOK
  BY DEF IdentityInv, IdentityTypeOK, Request
<1> DEFINE s == req[p].sid
           stored == IF Exists(s) THEN hash[s] ELSE [NoHash EXCEPT !.kind = "partial"]
           n == [stored EXCEPT !.seen = now, !.exp = now + SessionTtl(req[p].rec)]
<1>2. hash' = [hash EXCEPT ![s] = n] /\ index' = index
  BY Zenon DEF Touch
<1>3. now + SessionTtl(req[p].rec) \in Nat
  BY <1>1, TtlType
<1>4. s \in Sids => n \in SessionRecord /\ (Kept(hash[s], n) \/ Over(n))
  <2> SUFFICES ASSUME s \in Sids
               PROVE  n \in SessionRecord /\ (Kept(hash[s], n) \/ Over(n))
    BY Zenon
  <2> DEFINE e == now + SessionTtl(req[p].rec)
  <2>1. CASE Exists(s)
    <3>1. n = [hash[s] EXCEPT !.seen = now, !.exp = e] /\ hash[s] \in SessionRecord
      BY <1>1, <2>1, Zenon DEF IdentityTypeOK
    <3> HIDE DEF n, e
    <3> QED BY <1>1, <1>3, <3>1, SeenType, Zenon DEF e
  <2>2. CASE ~Exists(s)
    <3>1. n = [[NoHash EXCEPT !.kind = "partial"] EXCEPT !.seen = now, !.exp = e]
      BY <2>2, Zenon
    <3> HIDE DEF n, e
    <3> QED BY <1>1, <1>3, <3>1, PartialType, Zenon DEF e
  <2> QED BY <2>1, <2>2, Zenon
<1> HIDE DEF n, s
<1>5. hash' \in [Sids -> SessionRecord]
  BY <1>1, <1>2, <1>4, Zenon DEF IdentityTypeOK
<1>6. \A u \in Sids : hash'[u] = IF u = s THEN n ELSE hash[u]
  BY <1>1, <1>2, Zenon DEF IdentityTypeOK
<1>7. \A u \in Sids : Kept(hash[u], hash[u])
  BY Zenon DEF Kept
<1> QED BY <1>2, <1>4, <1>5, <1>6, <1>7, Zenon DEF HashKeeps

LEMMA TouchKeeps ==
  ASSUME IdentityInv, NEW p \in Procs, Touch(p)
  PROVE  IdentityInv'
<1>1. /\ req[p].pc = "touch" /\ UNCHANGED <<now, acct, lock, index, minted, cache, used>>
      /\ Goto(p, "in")
  BY Zenon DEF Touch
<1>2. index' \subseteq Sids
  BY <1>1, Zenon DEF IdentityInv, IdentityTypeOK
<1> QED BY <1>1, <1>2, TouchedHash, GoesOn, Zenon

LEMMA DestroyAnswers ==
  ASSUME IdentityInv, NEW p \in Procs, req[p].pc = "in", NEW gone, hash' = Delete(gone),
         index' \in {index \ gone, Pruned \ gone}, Answer(p),
         UNCHANGED <<now, acct, lock, minted, cache, used>>
  PROVE  IdentityInv'
<1>1. IdentityTypeOK /\ RequestOK(p) /\ AccountKeeps /\ acct' \in Account
  BY Zenon DEF IdentityInv, RequestsOK, AccountKeeps, IdentityTypeOK
<1>2. HashKeeps /\ hash' \in [Sids -> SessionRecord] /\ index' \subseteq Sids
  BY <1>1, DestroyKeeps, Zenon
<1>3. ~Changer(req[p])
  BY <1>1, Zenon DEF RequestOK, Changer
<1> QED BY <1>1, <1>2, <1>3, Answers, Zenon

LEMMA LogoutKeeps ==
  ASSUME IdentityInv, NEW p \in Procs, Logout(p)
  PROVE  IdentityInv'
<1>1. /\ req[p].pc = "in" /\ hash' = Delete({req[p].sid}) /\ index' = index \ {req[p].sid}
      /\ Answer(p) /\ UNCHANGED <<now, acct, lock, minted, cache, used>>
  BY Zenon DEF Logout
<1> QED BY <1>1, DestroyAnswers, Zenon

LEMMA RevokeMySessionKeeps ==
  ASSUME IdentityInv, NEW p \in Procs, NEW s \in Sids, RevokeMySession(p, s)
  PROVE  IdentityInv'
<1>1. /\ req[p].pc = "in" /\ hash' = Delete({s}) /\ index' = Pruned \ {s}
      /\ Answer(p) /\ UNCHANGED <<now, acct, lock, minted, cache, used>>
  BY Zenon DEF RevokeMySession, Admitted
<1> QED BY <1>1, DestroyAnswers, Zenon

LEMMA MySessionsKeeps ==
  ASSUME IdentityInv, NEW p \in Procs, MySessions(p)
  PROVE  IdentityInv'
<1> DEFINE over == {s \in Pruned : Stands(s) /\ Expired(hash[s])}
<1>1. /\ req[p].pc = "in" /\ hash' = Delete(over) /\ index' = Pruned \ over
      /\ Answer(p) /\ UNCHANGED <<now, acct, lock, minted, cache, used>>
  BY Zenon DEF MySessions, Admitted
<1> HIDE DEF over
<1> QED BY <1>1, DestroyAnswers, Zenon

LEMMA AskPermissionKeeps ==
  ASSUME IdentityInv, NEW p \in Procs, AskPermission(p)
  PROVE  IdentityInv'
<1>1. /\ req[p].pc = "in" /\ UNCHANGED <<now, acct, lock, hash, index, minted, cache, used>>
      /\ Answer(p) \/ Goto(p, "load")
  BY Zenon DEF AskPermission, Admitted
<1>2. /\ RequestOK(p) /\ AccountKeeps /\ acct' \in Account /\ HashKeeps
      /\ hash' \in [Sids -> SessionRecord] /\ index' \subseteq Sids
  BY <1>1, UnchangedKeeps, Zenon DEF IdentityInv, RequestsOK, AccountKeeps, IdentityTypeOK
<1>3. ~Changer(req[p])
  BY <1>1, <1>2, Zenon DEF RequestOK, Changer
<1>4. CASE Answer(p)
  BY <1>1, <1>2, <1>3, <1>4, Answers, Zenon
<1>5. CASE Goto(p, "load")
  BY <1>1, <1>2, <1>5, GoesOn, Zenon
<1> QED BY <1>1, <1>4, <1>5, Zenon

LEMMA MfaEnrollKeeps ==
  ASSUME IdentityInv, NEW p \in Procs, MfaEnroll(p)
  PROVE  IdentityInv'
<1>1. /\ req[p].pc = "in" /\ UNCHANGED <<now, lock, hash, index, minted, cache, used>>
      /\ Answer(p) /\ acct' = [acct EXCEPT !.mfa = "enrolled"]
  BY Zenon DEF MfaEnroll
<1>2. RequestOK(p) /\ HashKeeps /\ hash' \in [Sids -> SessionRecord] /\ index' \subseteq Sids
  BY <1>1, UnchangedKeeps, Zenon DEF IdentityInv, RequestsOK, IdentityTypeOK
<1>3. AccountKeeps /\ acct' \in Account
  BY <1>1, Zenon DEF IdentityInv, IdentityTypeOK, Account, AccountKeeps
<1>4. ~Changer(req[p])
  BY <1>1, <1>2, Zenon DEF RequestOK, Changer
<1> QED BY <1>1, <1>2, <1>3, <1>4, Answers, Zenon

(* mfa_confirm rotates next: what it will mint is late when a change runs.  *)
LEMMA MfaConfirmKeeps ==
  ASSUME IdentityInv, NEW p \in Procs, MfaConfirm(p)
  PROVE  IdentityInv'
<1> DEFINE b == Changing # {}
           r == [req[p] EXCEPT !.pc = "rot", !.late = b]
<1>1. /\ req[p].pc = "in" /\ UNCHANGED <<now, lock, hash, index, minted, cache, used>>
      /\ req' = [req EXCEPT ![p] = r] /\ acct' = [acct EXCEPT !.mfa = "on"]
  BY Zenon DEF MfaConfirm, Become
<1>2. /\ RequestOK(p) /\ HashKeeps /\ hash' \in [Sids -> SessionRecord] /\ index' \subseteq Sids
      /\ IdentityTypeOK
  BY <1>1, UnchangedKeeps, Zenon DEF IdentityInv, RequestsOK, IdentityTypeOK
<1>3. AccountKeeps /\ acct' \in Account
  BY <1>1, <1>2, Zenon DEF IdentityTypeOK, Account, AccountKeeps
<1>4. req[p] \in Request /\ b \in BOOLEAN
  BY <1>2, Zenon DEF IdentityTypeOK
<1>5. (b = FALSE) => Changing = {}
  BY Zenon
<1> HIDE DEF b
<1>6. /\ r \in Request /\ r.pc = "rot" /\ r.kind = req[p].kind /\ r.late = b
      /\ r.rec = req[p].rec /\ r.sid = req[p].sid
  BY <1>4, Zenon DEF Request
<1> HIDE DEF r
<1>7. req'[p] = r
  BY <1>1, <1>2, Zenon DEF IdentityTypeOK
<1>8. req[p].kind = "request"
  BY <1>1, <1>2, <1>4, Zenon DEF RequestOK, Request
<1>9. ~Changer(req[p]) /\ ~Changer(r) /\ r.pc # "store" /\ ~Carries(p)' /\ ~HasRead(r)
  BY <1>6, <1>7, <1>8, Zenon DEF Changer, Carries, HasRead
<1>10. RequestOK(p)'
  BY <1>2, <1>6, <1>7, <1>8, Zenon DEF RequestOK
<1>11. ~acct.crossed => r.rec.ver <= acct.ver
  BY <1>6, Zenon DEF IdentityInv, GrantOK
<1>12. ~r.late => Changing = {}
  BY <1>4, <1>5, <1>6, Zenon
<1> QED BY <1>1, <1>2, <1>3, <1>6, <1>9, <1>10, <1>11, <1>12, QuietMove, Zenon

LEMMA ReactivateUserKeeps ==
  ASSUME IdentityInv, NEW p \in Procs, ReactivateUser(p)
  PROVE  IdentityInv'
<1>1. /\ req[p].pc = "idle" /\ UNCHANGED <<now, lock, hash, index, minted, cache, used, req>>
      /\ acct' = [acct EXCEPT !.active = TRUE]
  BY Zenon DEF ReactivateUser, Idle
<1>2. HashKeeps /\ hash' \in [Sids -> SessionRecord] /\ index' \subseteq Sids
  BY <1>1, UnchangedKeeps, Zenon DEF IdentityInv, IdentityTypeOK
<1>3. AccountKeeps /\ acct' \in Account
  BY <1>1, Zenon DEF IdentityInv, IdentityTypeOK, Account, AccountKeeps
<1> QED BY <1>1, <1>2, <1>3, IdleMoves, Zenon

-----------------------------------------------------------------------------
(* The permission cache *)

(* What is loaded stays in force until the cache forgets it: no window of a *)
(* live grant opens or closes before.                                       *)
LEMMA LoadedHolds ==
  ASSUME IdentityTypeOK
  PROVE  /\ NextBoundary(now) \in Nat
         /\ Holds(EffectivePermissions(now), now + CacheTtl(NextBoundary(now)))
<1> DEFINE edges == {e \in UNION {{GrantOf[g].from, GrantOf[g].to} : g \in acct.grants} : e > now}
           n == NextBoundary(now)
<1>1. now \in Nat /\ acct.grants \subseteq DOMAIN GrantOf /\ Backstop \in Nat
  BY IdentityAssumption DEF IdentityTypeOK, Account
<1>2. \A g \in acct.grants : GrantOf[g].from \in Nat /\ GrantOf[g].to \in Nat
  BY <1>1, IdentityAssumption, Zenon
<1>3. /\ edges \subseteq Nat /\ \A e \in edges : e > now
      /\ \A g \in acct.grants : /\ GrantOf[g].from > now => GrantOf[g].from \in edges
                                /\ GrantOf[g].to > now => GrantOf[g].to \in edges
  BY <1>2
<1>4. n = IF edges = {} THEN now + Backstop ELSE CHOOSE e \in edges : \A f \in edges : e <= f
  BY Zenon DEF NextBoundary
<1> HIDE DEF edges, n
<1>5. n \in Nat /\ (edges # {} => n > now /\ \A e \in edges : n <= e)
  <2>1. CASE edges = {}
    BY <1>1, <1>4, <2>1
  <2>2. CASE edges # {}
    <3>1. \E e \in edges : \A f \in edges : e <= f
      <4>1. edges \in SUBSET UNION {{GrantOf[g].from, GrantOf[g].to} : g \in DOMAIN GrantOf}
        BY <1>1, Zenon DEF edges
      <4> QED BY ONLY <2>2, <4>1, IdentityAssumption, Zenon
    <3>2. n \in edges /\ \A f \in edges : n <= f
      BY <1>4, <2>2, <3>1, Zenon
    <3> QED BY <1>3, <3>2, Zenon
  <2> QED BY <2>1, <2>2, Zenon
<1>6. edges # {} => now + CacheTtl(n) <= n
  BY <1>1, <1>5 DEF CacheTtl, Later, Sooner
<1>7. ASSUME NEW t \in Nat, now <= t, t < now + CacheTtl(n)
      PROVE  InForce(t) = InForce(now)
  <2>1. \A e \in edges : t < e
    <3>1. CacheTtl(n) \in Nat
      BY <1>5, CacheTtlType, Zenon
    <3> QED BY <1>1, <1>3, <1>5, <1>6, <1>7, <3>1
  <2>2. ASSUME NEW g \in acct.grants
        PROVE  (GrantOf[g].from <= t /\ t < GrantOf[g].to)
                 <=> (GrantOf[g].from <= now /\ now < GrantOf[g].to)
    <3>1. /\ GrantOf[g].from > now => t < GrantOf[g].from
          /\ GrantOf[g].to > now => t < GrantOf[g].to
      BY <1>3, <2>1, Zenon
    <3> QED BY <1>1, <1>2, <1>7, <3>1
  <2> QED BY <2>2, Zenon DEF InForce
<1>8. Holds(EffectivePermissions(now), now + CacheTtl(n))
  BY <1>7, Zenon DEF Holds, EffectivePermissions
<1> QED BY <1>5, <1>8, Zenon DEF n

LEMMA LoadPermissionEntryKeeps ==
  ASSUME IdentityInv, NEW p \in Procs, LoadPermissionEntry(p)
  PROVE  IdentityInv'
<1> DEFINE c == EffectivePermissions(now)
           e == NextBoundary(now)
           r == [req[p] EXCEPT !.pc = "store", !.codes = c, !.edge = e]
<1>1. /\ req[p].pc = "load" /\ UNCHANGED <<now, acct, lock, hash, index, minted, cache, used>>
      /\ req' = [req EXCEPT ![p] = r]
  BY Zenon DEF LoadPermissionEntry, Become
<1>2. /\ RequestOK(p) /\ HashKeeps /\ hash' \in [Sids -> SessionRecord] /\ index' \subseteq Sids
      /\ IdentityTypeOK /\ AccountKeeps /\ acct' \in Account /\ req[p] \in Request
  BY <1>1, UnchangedKeeps, Zenon DEF IdentityInv, RequestsOK, IdentityTypeOK, AccountKeeps
<1>3. c \subseteq Codes
  <2>1. acct.grants \subseteq DOMAIN GrantOf
    BY <1>2, Zenon DEF IdentityTypeOK, Account
  <2> QED BY <2>1, Zenon DEF EffectivePermissions, InForce, Codes
<1>4. e \in Nat /\ Holds(c, now + CacheTtl(e))
  BY <1>2, LoadedHolds, Zenon
<1> HIDE DEF c, e
<1>5. /\ r \in Request /\ r.pc = "store" /\ r.kind = req[p].kind /\ r.rec = req[p].rec
      /\ r.codes = c /\ r.edge = e /\ r.sid = req[p].sid
  BY <1>2, <1>3, <1>4, Zenon DEF Request
<1> HIDE DEF r
<1>6. req'[p] = r /\ \A q \in Procs : q # p => req'[q] = req[q]
  BY <1>1, <1>2, Zenon DEF IdentityTypeOK
<1>7. req[p].kind = "request"
  BY <1>1, <1>2, Zenon DEF RequestOK, Request
<1>8. ~Changer(req[p]) /\ ~Changer(r) /\ ~Minter(r) /\ ~Carries(p)'
  BY <1>5, <1>6, <1>7, Zenon DEF Changer, Carries, Minter
<1>9. RequestOK(p)'
  BY <1>2, <1>5, <1>6, <1>7, Zenon DEF RequestOK
<1>10. ~acct.crossed => r.rec.ver <= acct.ver
  BY <1>5, Zenon DEF IdentityInv, GrantOK
<1>11. RequestsOK' /\ StoreOK' /\ CodesOK' /\ OverlapOK' /\ RevokeOK' /\ GrantOK'
  BY <1>1, <1>2, <1>5, <1>8, <1>9, <1>10, RequestMoves, Zenon
<1>12. CacheOK'
  <2>1. \A t : EffectivePermissions(t)' = EffectivePermissions(t)
    BY <1>1, Zenon DEF EffectivePermissions, InForce
  <2>2. \A x : CacheTtl(x)' = CacheTtl(x)
    BY <1>1, Zenon DEF CacheTtl
  <2>3. \A x, u : Holds(x, u)' <=> Holds(x, u)
    BY <1>1, <2>1, Zenon DEF Holds
  <2>4. \A q \in Procs : ~acct.crossed /\ req'[q].pc = "store" /\ req'[q].rec.ver = acct.ver =>
          Holds(req'[q].codes, now + CacheTtl(req'[q].edge))
    BY <1>4, <1>5, <1>6, Zenon DEF IdentityInv, CacheOK
  <2> QED BY <1>1, <2>2, <2>3, <2>4, Zenon DEF IdentityInv, CacheOK
<1>13. IdentityTypeOK'
  BY <1>1, <1>2, <1>5, Zenon DEF IdentityTypeOK
<1> QED BY <1>11, <1>12, <1>13, Zenon DEF IdentityInv

LEMMA StoreEntryKeeps ==
  ASSUME IdentityInv, NEW p \in Procs, StoreEntry(p)
  PROVE  IdentityInv'
<1> DEFINE v == req[p].rec.ver
           x == [codes |-> req[p].codes, exp |-> now + CacheTtl(req[p].edge)]
<1>1. /\ req[p].pc = "store" /\ UNCHANGED <<now, acct, lock, hash, index, minted, used>>
      /\ req' = [req EXCEPT ![p] = NoRequest] /\ cache' = [cache EXCEPT ![v] = x]
  BY Zenon DEF StoreEntry, Answer, Become
<1>2. /\ RequestOK(p) /\ HashKeeps /\ hash' \in [Sids -> SessionRecord] /\ index' \subseteq Sids
      /\ IdentityTypeOK /\ AccountKeeps /\ acct' \in Account /\ req[p] \in Request
  BY <1>1, UnchangedKeeps, Zenon DEF IdentityInv, RequestsOK, IdentityTypeOK, AccountKeeps
<1>3. /\ v \in 0 .. MaxVersion /\ req[p].codes \in SUBSET Codes /\ req[p].edge \in Nat
      /\ now \in Nat /\ acct.ver \in 0 .. MaxVersion
  <2>1. req[p].rec \in SessionRecord /\ req[p].codes \in SUBSET Codes /\ req[p].edge \in Nat
    BY <1>2, Zenon DEF Request
  <2>2. v \in 0 .. MaxVersion
    BY <2>1, Zenon DEF SessionRecord
  <2>3. now \in Nat /\ acct.ver \in 0 .. MaxVersion
    BY <1>2 DEF IdentityTypeOK, Account
  <2> QED BY <2>1, <2>2, <2>3, Zenon
<1>4. CacheTtl(req[p].edge) \in Nat /\ CacheTtl(req[p].edge) >= 1
  BY <1>2, <1>3, CacheTtlType, Zenon
<1>5. /\ NoRequest.kind = "none" /\ NoRequest.pc = "idle" /\ NoRequest.rec = NoHash
      /\ NoHash.ver = 0
  BY Zenon DEF NoRequest, NoHash
<1>6. req'[p] = NoRequest /\ \A q \in Procs : q # p => req'[q] = req[q]
  BY <1>1, <1>2, Zenon DEF IdentityTypeOK
<1>7. RequestOK(p)'
  BY <1>5, <1>6, Zenon DEF RequestOK
<1>8. ~Carries(p)' /\ ~Changer(NoRequest) /\ ~Minter(NoRequest) /\ ~Changer(req[p])
  BY <1>1, <1>2, <1>5, <1>6, Zenon DEF Carries, Changer, Minter, RequestOK
<1>9. NoRequest.rec.ver <= acct.ver
  BY <1>3, <1>5
<1>10. RequestsOK' /\ StoreOK' /\ CodesOK' /\ OverlapOK' /\ RevokeOK' /\ GrantOK'
  BY <1>1, <1>2, <1>7, <1>8, <1>9, NoRequestType, RequestMoves, Zenon
<1> HIDE DEF v
<1>11. CacheOK'
  <2>1. \A t : EffectivePermissions(t)' = EffectivePermissions(t)
    BY <1>1, Zenon DEF EffectivePermissions, InForce
  <2>2. \A y : CacheTtl(y)' = CacheTtl(y)
    BY <1>1, Zenon DEF CacheTtl
  <2>3. \A y, u : Holds(y, u)' <=> Holds(y, u)
    BY <1>1, <2>1, Zenon DEF Holds
  <2> SUFFICES ASSUME ~acct.crossed
               PROVE  /\ \A w \in 0 .. MaxVersion : w > acct.ver => cache'[w].exp = 0
                      /\ cache'[acct.ver].exp > 0 =>
                           /\ cache'[acct.ver].exp > now
                           /\ Holds(cache'[acct.ver].codes, cache'[acct.ver].exp)
                      /\ \A q \in Procs : req'[q].pc = "store" /\ req'[q].rec.ver = acct.ver =>
                           Holds(req'[q].codes, now + CacheTtl(req'[q].edge))
    BY <1>1, <2>2, <2>3, Zenon DEF CacheOK
  <2>4. v <= acct.ver
    BY Zenon DEF IdentityInv, GrantOK, v
  <2>5. \A w \in 0 .. MaxVersion : cache'[w] = IF w = v THEN x ELSE cache[w]
    BY <1>1, <1>2, <1>3, Zenon DEF IdentityTypeOK
  <2>6. \A w \in 0 .. MaxVersion : w > acct.ver => cache'[w].exp = 0
    <3>1. \A w \in 0 .. MaxVersion : w > acct.ver => cache[w].exp = 0 /\ w # v
      <4>1. \A w \in 0 .. MaxVersion : w > acct.ver => cache[w].exp = 0
        BY Zenon DEF IdentityInv, CacheOK
      <4>2. \A w \in 0 .. MaxVersion : w > acct.ver => w # v
        BY ONLY <1>3, <2>4
      <4> QED BY <4>1, <4>2, Zenon
    <3> QED BY <2>5, <3>1, Zenon
  <2>7. CASE v = acct.ver
    <3>1. Holds(req[p].codes, now + CacheTtl(req[p].edge))
      BY <1>1, <2>7, Zenon DEF IdentityInv, CacheOK, v
    <3>2. cache'[acct.ver] = x
      BY <1>3, <2>5, <2>7, Zenon
    <3>3. x.codes = req[p].codes /\ x.exp = now + CacheTtl(req[p].edge) /\ x.exp > now
      BY <1>3, <1>4
    <3> QED BY <1>5, <1>6, <2>6, <3>1, <3>2, <3>3, Zenon DEF IdentityInv, CacheOK
  <2>8. CASE v # acct.ver
    <3>1. cache'[acct.ver] = cache[acct.ver]
      BY <1>3, <2>5, <2>8, Zenon
    <3> QED BY <1>5, <1>6, <2>6, <3>1, Zenon DEF IdentityInv, CacheOK
  <2> QED BY <2>7, <2>8, Zenon
<1>12. IdentityTypeOK'
  <2>1. x \in [codes : SUBSET Codes, exp : Nat]
    BY <1>3, <1>4
  <2>2. cache' \in [0 .. MaxVersion -> [codes : SUBSET Codes, exp : Nat]]
    BY <1>1, <1>2, <2>1, Zenon DEF IdentityTypeOK
  <2> QED BY <1>1, <1>2, <2>2, NoRequestType, Zenon DEF IdentityTypeOK
<1> QED BY <1>10, <1>11, <1>12, Zenon DEF IdentityInv

-----------------------------------------------------------------------------
(* Codes of the second factor *)

(* SET NX lets one request have the code; it was free, so nobody has it.    *)
LEMMA CheckAndConsumeKeeps ==
  ASSUME IdentityInv, NEW p \in Procs, NEW c \in 0 .. MaxNow, CheckAndConsume(p, c)
  PROVE  IdentityInv'
<1>1. /\ req[p].pc = "mfa" /\ c <= now + ValidWindow /\ now <= c + ValidWindow
      /\ UNCHANGED <<now, acct, lock, hash, index, minted, cache>>
  BY Zenon DEF CheckAndConsume
<1>2. /\ RequestOK(p) /\ HashKeeps /\ hash' \in [Sids -> SessionRecord] /\ index' \subseteq Sids
      /\ IdentityTypeOK /\ AccountKeeps /\ acct' \in Account /\ req[p] \in Request
  BY <1>1, UnchangedKeeps, Zenon DEF IdentityInv, RequestsOK, IdentityTypeOK, AccountKeeps
<1>3. req[p].kind = "login" /\ ~Changer(req[p])
  BY <1>1, <1>2, Zenon DEF RequestOK, Request, Changer
<1>4. CASE Answer(p) /\ used' = used
  BY <1>1, <1>2, <1>3, <1>4, Answers, Zenon
<1>5. CASE /\ ~(used[c] > 0) /\ used' = [used EXCEPT ![c] = now + 2 * ValidWindow + 2]
           /\ Become(p, [req[p] EXCEPT !.pc = "cap", !.rec.code = c])
  <2> DEFINE n == [req[p].rec EXCEPT !.code = c]
             r == [req[p] EXCEPT !.pc = "cap", !.rec = n]
             x == now + 2 * ValidWindow + 2
  <2>1. /\ n \in SessionRecord /\ n.code = c /\ n.epoch = req[p].rec.epoch
        /\ n.ver = req[p].rec.ver /\ n.kind = req[p].rec.kind
    BY <1>2, Zenon DEF Request, SessionRecord
  <2>2. [req[p] EXCEPT !.pc = "cap", !.rec.code = c] = r
    BY <1>2, Zenon DEF Request
  <2>3. req' = [req EXCEPT ![p] = r]
    BY <1>5, <2>2, Zenon DEF Become
  <2> HIDE DEF n
  <2>4. /\ r \in Request /\ r.pc = "cap" /\ r.kind = req[p].kind /\ r.rec = n
        /\ r.late = req[p].late
    BY <1>2, <2>1, Zenon DEF Request
  <2> HIDE DEF r
  <2>5. req'[p] = r /\ \A q \in Procs : q # p => req'[q] = req[q]
    BY <1>2, <2>3, Zenon DEF IdentityTypeOK
  <2>6. now \in Nat /\ ValidWindow \in Nat /\ c \in Nat
    BY <1>2, IdentityAssumption DEF IdentityTypeOK
  <2>7. x \in Nat /\ x > c + ValidWindow + 1
    BY <1>1, <2>6
  <2>8. used' = [used EXCEPT ![c] = x]
    BY <1>5, Zenon
  <2> HIDE DEF x
  <2>9. IdentityTypeOK'
    BY <1>1, <1>2, <2>3, <2>4, <2>7, <2>8, Zenon DEF IdentityTypeOK
  <2>10. RequestsOK'
    <3>1. RequestOK(p)'
      BY <1>2, <1>3, <2>1, <2>4, <2>5, Zenon DEF RequestOK
    <3>2. RequestsOK /\ lock' = lock
      BY <1>1, Zenon DEF IdentityInv
    <3> QED BY ONLY p \in Procs, <2>5, <3>1, <3>2, OthersOK, Zenon
  <2>11. CodesOK'
    <3>1. used[c] \in Nat
      BY <1>2, Zenon DEF IdentityTypeOK
    <3>2. ~Spent(c)
      BY <1>1, <1>5, <2>6, <3>1 DEF Spent
    <3>3. \A d \in 0 .. MaxNow : used'[d] = IF d = c THEN x ELSE used[d]
      BY <1>2, <2>8, Zenon DEF IdentityTypeOK
    <3>4. Spent(c)' /\ \A d \in 0 .. MaxNow : Spent(d) => Spent(d)'
      BY <1>1, <2>7, <3>2, <3>3, Zenon DEF Spent
    <3>5. \A s \in Sids : hash[s].code \in (0 .. MaxNow) \cup {None}
      BY <1>2, Zenon DEF IdentityTypeOK, SessionRecord
    <3>6. \A q \in Procs : req[q].rec.code \in (0 .. MaxNow) \cup {None}
      BY <1>2, Zenon DEF IdentityTypeOK, Request, SessionRecord
    <3>7. \A q \in Procs : q # p => (Carries(q)' <=> Carries(q)) /\ req'[q].rec = req[q].rec
      BY <2>5, Zenon DEF Carries
    <3>8. req'[p].rec.code = c
      BY <2>1, <2>4, <2>5, Zenon
    <3>9. \A s \in Sids : hash[s].code # None => hash[s].code # c /\ Spent(hash[s].code)
      BY <3>2, Zenon DEF IdentityInv, CodesOK
    <3>10. \A q \in Procs : Carries(q) => req[q].rec.code # c /\ Spent(req[q].rec.code)
      BY <3>2 DEF IdentityInv, CodesOK
    <3>11. \A s \in Sids : hash'[s].code # None => Spent(hash[s].code)'
      <4>1. ASSUME NEW s \in Sids, hash[s].code # None PROVE Spent(hash[s].code)'
        <5>1. PICK d \in 0 .. MaxNow : d = hash[s].code
          BY <3>5, <4>1, Zenon
        <5>2. Spent(d)'
          BY <3>4, <3>9, <4>1, <5>1, Zenon
        <5>3. hash'[s].code = d
          BY <1>1, <5>1, Zenon
        <5> QED BY <5>2, <5>3, Zenon DEF Spent
      <4> QED BY <1>1, <4>1, Zenon
    <3>12. ASSUME NEW q \in Procs, Carries(q)' PROVE Spent(req[q].rec.code)'
      <4>1. CASE q = p
        BY <3>4, <3>8, <4>1, Zenon DEF Spent
      <4>2. CASE q # p
        <5>1. PICK d \in 0 .. MaxNow : d = req[q].rec.code
          BY <3>6, <3>7, <3>12, <4>2, Zenon DEF Carries
        <5>2. Spent(d)' /\ req'[q].rec.code = d
          BY <3>4, <3>7, <3>10, <3>12, <4>2, <5>1, Zenon
        <5> QED BY <5>2, Zenon DEF Spent
      <4> QED BY <4>1, <4>2, Zenon
    <3>13. \A s, t \in Sids : hash'[s].code # None /\ hash'[s].code = hash'[t].code => s = t
      BY <1>1, Zenon DEF IdentityInv, CodesOK
    <3>14. \A a, b \in Procs :
             Carries(a)' /\ Carries(b)' /\ req'[a].rec.code = req'[b].rec.code => a = b
      BY <3>7, <3>8, <3>10, Zenon DEF IdentityInv, CodesOK
    <3>15. \A q \in Procs, s \in Sids : Carries(q)' => hash'[s].code # req'[q].rec.code
      <4>1. ASSUME NEW q \in Procs, NEW s \in Sids, Carries(q)'
            PROVE  hash[s].code # req'[q].rec.code
        <5>1. CASE q = p
          <6>1. c # None
            BY <3>8, <4>1, <5>1, Zenon DEF Carries
          <6> QED BY <3>8, <3>9, <5>1, <6>1, Zenon
        <5>2. CASE q # p
          BY <3>7, <4>1, <5>2, Zenon DEF IdentityInv, CodesOK
        <5> QED BY <5>1, <5>2, Zenon
      <4> QED BY <1>1, <4>1, Zenon
    <3> QED BY <3>11, <3>12, <3>13, <3>14, <3>15, Zenon DEF CodesOK
  <2>12. OverlapOK'
    <3>1. Changing' = Changing
      BY <1>3, <2>4, <2>5, Zenon DEF Changing
    <3>2. \A q \in Procs : q \in Minting' /\ ~req'[q].late =>
            /\ q \in Minting /\ ~req[q].late
            /\ HasRead(req'[q]) => HasRead(req[q]) /\ req'[q].rec.epoch = req[q].rec.epoch
                                  /\ req'[q].rec.ver = req[q].rec.ver
      BY <1>1, <2>1, <2>4, <2>5, Zenon DEF Minting, HasRead
    <3> QED BY <1>1, <3>1, <3>2, OverlapFrame, Zenon DEF IdentityInv
  <2>13. RevokeOK'
    <3>1. \A q \in Procs : req'[q].kind = "revoke" => req'[q] = req[q]
      BY <1>3, <2>4, <2>5, Zenon
    <3> QED BY <1>1, <1>2, <3>1, RevokeFrame, Zenon DEF IdentityInv
  <2>14. GrantOK'
    <3>1. \A q \in Procs : req'[q].kind = "grant" <=> req[q].kind = "grant"
      BY <2>4, <2>5, Zenon
    <3>2. \A q \in Procs : req[q].kind = "grant" => req'[q] = req[q]
      BY <1>3, <2>5, Zenon
    <3>3. ~acct.crossed => \A q \in Procs : req'[q].rec.ver <= acct.ver
      BY <2>1, <2>4, <2>5, Zenon DEF IdentityInv, GrantOK
    <3>4. acct.ver \in Nat
      BY <1>2 DEF IdentityTypeOK, Account
    <3> QED BY <1>1, <1>2, <3>1, <3>2, <3>3, <3>4, GrantFrame, Zenon DEF IdentityInv
  <2>15. CacheOK'
    <3>1. \A q \in Procs : req'[q].pc = "store" => req'[q] = req[q]
      BY <2>4, <2>5, Zenon
    <3> QED BY <1>1, <3>1, CacheFrame, Zenon DEF IdentityInv
  <2>16. StoreOK'
    BY <1>2, StoreFrame, Zenon DEF IdentityInv
  <2> QED BY <2>9, <2>10, <2>11, <2>12, <2>13, <2>14, <2>15, <2>16, Zenon DEF IdentityInv
<1> QED BY <1>4, <1>5, Zenon DEF CheckAndConsume

-----------------------------------------------------------------------------
(* Sessions are minted by a login and by a rotation *)

(* Session sid is minted as record n by the request of p, which goes on as *)
(* request r; the sessions in gone are deleted with the same writes.         *)
Mints(p, sid, n, gone, r) ==
  /\ HasRead(req[p]) /\ req' = [req EXCEPT ![p] = r]
  /\ hash' = [s \in Sids |-> IF s = sid THEN n ELSE IF s \in gone THEN NoHash ELSE hash[s]]
  /\ index' = (index \ gone) \cup {sid} /\ minted' = sid
  /\ UNCHANGED <<now, acct, lock, cache, used>>
  /\ n.kind = "full" /\ n.created = n.login /\ n.late = req[p].late /\ n.ver = req[p].rec.ver
  /\ n.code = None \/ (Carries(p) /\ n.code = req[p].rec.code)
  /\ r.rec.ver \in {0, req[p].rec.ver}
  /\ \/ r.kind = "none" /\ r.pc = "idle" /\ ~Changer(req[p]) /\ n.epoch = req[p].rec.epoch
     \/ /\ r.kind = "revoke" /\ r.pc = "commit" /\ r.grant = req[p].grant /\ r.sid = req[p].sid
        /\ r.late = req[p].late /\ req[p].kind = "revoke" /\ req[p].pc = "rotated"
        /\ n.epoch = req[p].rec.epoch + 1 /\ req[p].sid \in gone

LEMMA MintKeeps ==
  ASSUME IdentityInv, NEW p \in Procs, NEW sid \in Sids, NEW n \in SessionRecord, NEW gone,
         NEW r \in Request, Mints(p, sid, n, gone, r)
  PROVE  IdentityInv'
<1>a. /\ HasRead(req[p]) /\ req' = [req EXCEPT ![p] = r]
      /\ n.late = req[p].late /\ n.ver = req[p].rec.ver /\ r.rec.ver \in {0, req[p].rec.ver}
  BY Zenon DEF Mints
<1>b. UNCHANGED <<now, acct, lock, cache, used>>
  BY Zenon DEF Mints
<1>c. \/ r.kind = "none" /\ r.pc = "idle" /\ ~Changer(req[p]) /\ n.epoch = req[p].rec.epoch
      \/ /\ r.kind = "revoke" /\ r.pc = "commit" /\ r.grant = req[p].grant /\ r.sid = req[p].sid
         /\ r.late = req[p].late /\ req[p].kind = "revoke" /\ req[p].pc = "rotated"
         /\ n.epoch = req[p].rec.epoch + 1 /\ req[p].sid \in gone
  BY Zenon DEF Mints
<1>d. /\ hash' = [s \in Sids |-> IF s = sid THEN n ELSE IF s \in gone THEN NoHash ELSE hash[s]]
      /\ index' = (index \ gone) \cup {sid} /\ minted' = sid
  BY Zenon DEF Mints
<1>e. /\ n.kind = "full" /\ n.created = n.login
      /\ n.code = None \/ (Carries(p) /\ n.code = req[p].rec.code)
  BY Zenon DEF Mints
<1>1. IdentityTypeOK /\ RequestOK(p) /\ req[p] \in Request /\ p \in Minting
  BY <1>a, Zenon DEF IdentityInv, RequestsOK, IdentityTypeOK, HasRead, Minting
<1>2. req'[p] = r /\ \A q \in Procs : q # p => req'[q] = req[q]
  BY <1>1, <1>a, Zenon DEF IdentityTypeOK
<1>3. \A s \in Sids : hash'[s] = IF s = sid THEN n ELSE IF s \in gone THEN NoHash ELSE hash[s]
  BY <1>d, Zenon
<1>4. NoHash.kind = "none" /\ NoHash.code = None /\ NoHash.ver = 0
  BY Zenon DEF NoHash
<1>5. ~Carries(p)' /\ ~HasRead(r)
  BY <1>2, <1>c, Zenon DEF Carries, HasRead
<1>6. IdentityTypeOK'
  <2>1. hash' \in [Sids -> SessionRecord]
    BY <1>1, <1>3, <1>d, NoHashType, Zenon DEF IdentityTypeOK
  <2>2. sid \in 0 .. MaxSids
    BY DEF Sids
  <2>3. req' \in [Procs -> Request]
    BY <1>1, <1>a, Zenon DEF IdentityTypeOK
  <2> QED BY <1>1, <1>b, <1>d, <2>1, <2>2, <2>3, Zenon DEF IdentityTypeOK
<1>7. RequestsOK'
  <2>1. RequestOK(p)'
    BY <1>1, <1>2, <1>b, <1>c, Zenon DEF RequestOK, Request
  <2>2. RequestsOK /\ lock' = lock
    BY <1>b, Zenon DEF IdentityInv
  <2> QED BY ONLY p \in Procs, <1>2, <2>1, <2>2, OthersOK, Zenon
<1>8. StoreOK'
  BY <1>3, <1>4, <1>b, <1>d, <1>e, Zenon DEF IdentityInv, StoreOK, Stands, Exists
<1>9. CodesOK'
  <2>1. \A c : Spent(c)' <=> Spent(c)
    BY <1>b, Zenon DEF Spent
  <2>2. \A q \in Procs : Carries(q)' => Carries(q) /\ q # p /\ req'[q].rec.code = req[q].rec.code
    BY <1>2, <1>5, Zenon DEF Carries
  <2>3. \A s \in Sids : hash'[s].code # None =>
          \/ s # sid /\ hash'[s].code = hash[s].code
          \/ s = sid /\ Carries(p) /\ hash'[s].code = req[p].rec.code
    BY <1>3, <1>4, <1>e, Zenon
  <2>4. \A s \in Sids : hash'[s].code # None => Spent(hash[s].code)'
    BY <2>1, <2>3, Zenon DEF IdentityInv, CodesOK
  <2>5. \A q \in Procs : Carries(q)' => Spent(req[q].rec.code)'
    BY <2>1, <2>2, Zenon DEF IdentityInv, CodesOK
  <2>6. \A s, t \in Sids : hash'[s].code # None /\ hash'[s].code = hash'[t].code => s = t
    BY <2>3 DEF IdentityInv, CodesOK
  <2>7. \A a, b \in Procs :
          Carries(a)' /\ Carries(b)' /\ req'[a].rec.code = req'[b].rec.code => a = b
    BY <2>2, Zenon DEF IdentityInv, CodesOK
  <2>8. \A q \in Procs, s \in Sids : Carries(q)' => hash'[s].code # req'[q].rec.code
    <3>1. ASSUME NEW q \in Procs, NEW s \in Sids, Carries(q)', hash'[s].code = req'[q].rec.code
          PROVE  FALSE
      <4>1. hash'[s].code # None
        BY <3>1, Zenon DEF Carries
      <4> QED BY <2>2, <2>3, <3>1, <4>1, Zenon DEF IdentityInv, CodesOK
    <3> QED BY <3>1, Zenon
  <2> QED BY <2>4, <2>5, <2>6, <2>7, <2>8, Zenon DEF CodesOK
<1>10. Changing' = Changing
  BY <1>2, <1>c, Zenon DEF Changing, Changer
<1>11. OverlapOK'
  <2>1. \A q \in Procs : q \in Minting' /\ ~req'[q].late =>
          /\ q \in Minting /\ ~req[q].late
          /\ HasRead(req'[q]) => HasRead(req[q]) /\ req'[q].rec.epoch = req[q].rec.epoch
                                /\ req'[q].rec.ver = req[q].rec.ver
    BY <1>1, <1>2, <1>5, <1>c, Zenon DEF Minting
  <2> QED BY <1>10, <1>b, <2>1, OverlapFrame, Zenon DEF IdentityInv
<1>12. ~n.late => /\ Changing \subseteq {p} /\ req[p].rec.epoch >= acct.epoch
                  /\ ~acct.crossed => n.ver = acct.ver
  BY <1>1, <1>a, Zenon DEF IdentityInv, OverlapOK
<1>13. RevokeOK'
  <2> SUFFICES ASSUME NEW s \in Sids, Current(s)'
               PROVE  hash'[s].epoch >= acct'.epoch /\ \A q \in Procs : Facing(s, req[q])'
    BY Zenon DEF RevokeOK
  <2>1. req[p].rec.epoch \in Nat /\ acct.epoch \in Nat
    BY <1>1, Zenon DEF IdentityTypeOK, Request, SessionRecord, Account
  <2>2. CASE s = sid
    <3>1. hash'[s] = n /\ ~n.late
      BY <1>3, <2>2, Zenon DEF Current
    <3>2. \A q \in Procs : q # p => req'[q].kind # "revoke"
      BY <1>2, <1>12, <3>1, Zenon DEF Changing
    <3>3. n.epoch >= acct.epoch
      <4>1. req[p].rec.epoch >= acct.epoch
        BY <1>12, <3>1, Zenon
      <4>2. n.epoch = req[p].rec.epoch \/ n.epoch = req[p].rec.epoch + 1
        BY <1>c, Zenon
      <4> QED BY ONLY <2>1, <4>1, <4>2
    <3>4. Facing(s, req[p])'
      <4>1. CASE r.kind = "none"
        BY <1>2, <4>1, Zenon DEF Facing
      <4>2. CASE r.kind = "revoke"
        <5>1. req[p].grant = "password"
          BY <1>1, <1>c, <4>2, Zenon DEF RequestOK
        <5>2. n.epoch > acct.epoch
          <6>1. req[p].rec.epoch >= acct.epoch
            BY <1>12, <3>1, Zenon
          <6>2. n.epoch = req[p].rec.epoch + 1
            BY ONLY <1>c, <4>2, Zenon
          <6> QED BY ONLY <2>1, <6>1, <6>2
        <5> QED BY <1>2, <1>b, <1>c, <3>1, <4>2, <5>1, <5>2, Zenon DEF Facing
      <4> QED BY <1>c, <4>1, <4>2, Zenon
    <3> QED BY <1>b, <3>1, <3>2, <3>3, <3>4, Zenon DEF Facing
  <2>3. CASE s # sid
    <3>1. hash'[s] = hash[s] /\ Current(s) /\ s \notin gone
      BY <1>3, <1>4, <2>3, Zenon DEF Current, Stands, Exists
    <3>2. hash[s].epoch >= acct.epoch /\ \A q \in Procs : Facing(s, req[q])
      BY <3>1, Zenon DEF IdentityInv, RevokeOK
    <3>3. r.kind # "revoke"
      BY <1>c, <3>1, <3>2, Zenon DEF Facing
    <3>4. \A q \in Procs : Facing(s, req[q])'
      BY <1>2, <1>b, <1>c, <3>1, <3>2, <3>3, Zenon DEF Facing
    <3> QED BY <1>b, <3>1, <3>2, <3>4, Zenon
  <2> QED BY <2>2, <2>3, Zenon
<1>14. GrantOK'
  <2> SUFFICES ASSUME ~acct.crossed
               PROVE  /\ \A a, b \in Granting' : a = b
                      /\ \A q \in Granting' : Bound(req[q])'
                      /\ \A s \in Sids : hash'[s].ver <= acct'.ver
                      /\ \A q \in Procs : req'[q].rec.ver <= acct'.ver
                      /\ \A s \in Sids : Current(s)' => Stamped(s)'
    BY <1>b, Zenon DEF GrantOK
  <2>1. Granting' = Granting /\ \A q \in Granting : req'[q] = req[q]
    BY <1>2, <1>c, Zenon DEF Granting, Changer
  <2>2. \A q \in Granting' : Bound(req[q])'
    BY <1>b, <2>1, Zenon DEF IdentityInv, GrantOK, Bound
  <2>3. acct.ver \in Nat /\ req[p].rec.ver <= acct.ver
    <3>1. acct.ver \in Nat
      BY <1>1 DEF IdentityTypeOK, Account
    <3>2. req[p].rec.ver <= acct.ver
      BY Zenon DEF IdentityInv, GrantOK
    <3> QED BY <3>1, <3>2, Zenon
  <2>4. \A s \in Sids : hash'[s].ver <= acct.ver
    <3>1. \A s \in Sids : hash[s].ver <= acct.ver
      BY Zenon DEF IdentityInv, GrantOK
    <3>2. NoHash.ver <= acct.ver /\ n.ver <= acct.ver
      BY <1>4, <1>a, <2>3
    <3> QED BY <1>3, <3>1, <3>2, Zenon
  <2>5. \A q \in Procs : req'[q].rec.ver <= acct.ver
    <3>1. \A q \in Procs : req[q].rec.ver <= acct.ver
      BY Zenon DEF IdentityInv, GrantOK
    <3>2. r.rec.ver <= acct.ver
      BY ONLY <1>a, <2>3
    <3> QED BY ONLY <1>2, <3>1, <3>2, Zenon
  <2>6. ASSUME NEW s \in Sids, Current(s)' PROVE Stamped(s)'
    <3>1. CASE s = sid
      BY <1>3, <1>12, <1>b, <2>6, <3>1, Zenon DEF Current, Stamped
    <3>2. CASE s # sid
      <4>1. hash'[s] = hash[s] /\ Current(s)
        BY <1>3, <1>4, <2>6, <3>2, Zenon DEF Current, Stands, Exists
      <4>2. Stamped(s)
        BY <4>1, Zenon DEF IdentityInv, GrantOK
      <4> QED BY <1>b, <2>1, <4>1, <4>2, Zenon DEF Stamped
    <3> QED BY <3>1, <3>2, Zenon
  <2> QED BY <1>b, <2>1, <2>2, <2>4, <2>5, <2>6, Zenon DEF IdentityInv, GrantOK
<1>15. CacheOK'
  <2>1. \A q \in Procs : req'[q].pc = "store" => req'[q] = req[q]
    BY <1>2, <1>c, Zenon
  <2> QED BY <1>b, <2>1, CacheFrame, Zenon DEF IdentityInv
<1> QED BY <1>6, <1>7, <1>8, <1>9, <1>11, <1>13, <1>14, <1>15, Zenon DEF IdentityInv

LEMMA CreateSessionKeeps ==
  ASSUME IdentityInv, NEW p \in Procs, CreateSession(p)
  PROVE  IdentityInv'
<1> DEFINE m == [req[p].rec EXCEPT !.created = now, !.seen = now, !.auth = now, !.login = now,
                                   !.late = req[p].late]
           n == [m EXCEPT !.exp = now + SessionTtl(m)]
           sid == minted + 1
<1>1. /\ req[p].pc = "create" /\ minted < MaxSids /\ minted' = sid
      /\ hash' = [hash EXCEPT ![sid] = n] /\ index' = index \cup {sid}
      /\ req' = [req EXCEPT ![p] = NoRequest] /\ UNCHANGED <<now, acct, lock, cache, used>>
  BY Zenon DEF CreateSession, Answer, Become
<1>2. IdentityTypeOK /\ RequestOK(p) /\ req[p] \in Request
  BY Zenon DEF IdentityInv, RequestsOK, IdentityTypeOK
<1>3. req[p].rec \in SessionRecord /\ now \in Nat /\ req[p].late \in BOOLEAN
  BY <1>2 DEF Request, IdentityTypeOK
<1>4. req[p].kind = "login"
  BY <1>1, <1>2, Zenon DEF RequestOK, Request
<1>5. /\ m \in SessionRecord /\ m.kind = req[p].rec.kind /\ m.created = now /\ m.login = now
      /\ m.epoch = req[p].rec.epoch /\ m.late = req[p].late /\ m.code = req[p].rec.code
      /\ m.ver = req[p].rec.ver
  BY <1>3, Zenon DEF SessionRecord
<1> HIDE DEF m
<1>6. now + SessionTtl(m) \in Nat
  BY <1>2, <1>3, <1>5, TtlType
<1>7. /\ n \in SessionRecord /\ n.kind = req[p].rec.kind
      /\ n.created = now /\ n.login = now /\ n.epoch = req[p].rec.epoch /\ n.late = req[p].late
      /\ n.code = req[p].rec.code /\ n.ver = req[p].rec.ver
  <2>1. n \in SessionRecord /\ Kept(m, n)
    BY <1>5, <1>6, ExpiryType, Zenon
  <2> HIDE DEF n
  <2> QED BY <1>5, <2>1, Zenon DEF Kept
<1>8. n.kind = "full"
  BY <1>2, <1>4, <1>7, Zenon DEF RequestOK
<1> HIDE DEF n
<1>9. PICK k \in Sids : k = sid
  <2>1. minted \in Nat /\ MaxSids \in Nat
    BY <1>2, IdentityAssumption DEF IdentityTypeOK
  <2>2. minted < MaxSids
    BY <1>1, Zenon
  <2> QED BY ONLY <2>1, <2>2 DEF Sids
<1>10. PICK new \in SessionRecord : new = n
  BY <1>7, Zenon
<1>11. /\ new.kind = "full" /\ new.created = new.login /\ new.late = req[p].late
       /\ new.ver = req[p].rec.ver /\ new.epoch = req[p].rec.epoch
       /\ new.code = None \/ (Carries(p) /\ new.code = req[p].rec.code)
  BY <1>1, <1>7, <1>8, <1>10, Zenon DEF Carries
<1>12. PICK gone : gone = {}
  BY Zenon
<1>13. /\ hash' = [s \in Sids |-> IF s = k THEN new ELSE IF s \in gone THEN NoHash ELSE hash[s]]
       /\ index' = (index \ gone) \cup {k} /\ minted' = k
  BY <1>1, <1>2, <1>9, <1>10, <1>12, Zenon DEF IdentityTypeOK
<1>14. HasRead(req[p]) /\ ~Changer(req[p])
  BY <1>1, <1>4, Zenon DEF HasRead, Changer
<1>15. NoRequest.kind = "none" /\ NoRequest.pc = "idle" /\ NoRequest.rec.ver = 0
  BY Zenon DEF NoRequest, NoHash
<1>16. req' = [req EXCEPT ![p] = NoRequest] /\ UNCHANGED <<now, acct, lock, cache, used>>
  BY <1>1, Zenon
<1>17. Mints(p, k, new, gone, NoRequest)
  BY ONLY <1>11, <1>13, <1>14, <1>15, <1>16, Zenon DEF Mints
<1> QED BY ONLY IdentityInv, p \in Procs, k \in Sids, new \in SessionRecord, <1>17, NoRequestType,
                MintKeeps, Zenon

(* A revocation moves on without minting: the sessions that stand must face *)
(* its new step.                                                            *)
LEMMA RevocationMoves ==
  ASSUME IdentityInv, NEW p \in Procs, NEW r \in Request, req' = [req EXCEPT ![p] = r],
         req[p].kind = "revoke", r.kind = "revoke", r.grant = req[p].grant,
         HashKeeps, UNCHANGED <<now, acct, lock, minted, cache, used>>,
         hash' \in [Sids -> SessionRecord], index' \subseteq Sids, RequestOK(p)',
         ~r.late => ~req[p].late,
         HasRead(r) /\ ~r.late => UpToDate(r),
         ~acct.crossed => r.rec.ver <= acct.ver,
         \A s \in Sids : Current(s)' => Facing(s, req[p])'
  PROVE  IdentityInv'
<1>1. req'[p] = r /\ \A q \in Procs : q # p => req'[q] = req[q]
  BY Zenon DEF IdentityInv, IdentityTypeOK
<1>2. IdentityTypeOK'
  BY Zenon DEF IdentityInv, IdentityTypeOK
<1>3. RequestsOK'
  <2>1. RequestsOK /\ lock' = lock
    BY Zenon DEF IdentityInv
  <2> QED BY ONLY p \in Procs, RequestOK(p)', <1>1, <2>1, OthersOK, Zenon
<1>4. RequestOK(p) /\ r.pc \in {"list", "destroy", "rot", "rotated", "commit"}
  <2>1. RequestOK(p)
    BY Zenon DEF IdentityInv, RequestsOK
  <2> QED BY ONLY <1>1, <2>1, RequestOK(p)', r.kind = "revoke", Zenon DEF RequestOK
<1>5. StoreOK'
  BY StoreFrame, Zenon DEF IdentityInv
<1>6. CodesOK'
  <2>1. \A q \in Procs : Carries(q)' => Carries(q) /\ req'[q].rec.code = req[q].rec.code
    BY <1>1, <1>4, Zenon DEF Carries
  <2> QED BY <2>1, CodesFrame, Zenon DEF IdentityInv
<1>7. OverlapOK'
  <2> SUFFICES ASSUME NEW q \in Minting', ~req'[q].late
               PROVE  /\ Changing' \subseteq {q}
                      /\ HasRead(req'[q]) => req'[q].rec.epoch >= acct'.epoch
                      /\ HasRead(req'[q]) /\ ~acct'.crossed => req'[q].rec.ver = acct'.ver
    BY Zenon DEF OverlapOK, HasRead
  <2>1. Changing' = Changing /\ q \in Procs
    <3>1. Changing' = Changing
      BY ONLY <1>1, req[p].kind = "revoke", r.kind = "revoke", Zenon DEF Changing
    <3> QED BY <3>1, Zenon DEF Minting
  <2>2. CASE q = p
    <3>1. p \in Minting
      BY <1>1, <1>4, <2>2, ZenonT(40) DEF Minting, RequestOK
    <3> QED BY <1>1, <2>1, <2>2, <3>1, Zenon DEF IdentityInv, OverlapOK, UpToDate
  <2>3. CASE q # p
    <3>1. q \in Minting /\ req'[q] = req[q]
      BY <1>1, <2>1, <2>3, Zenon DEF Minting
    <3> QED BY <2>1, <3>1, Zenon DEF IdentityInv, OverlapOK
  <2> QED BY <2>2, <2>3, Zenon
<1>8. RevokeOK'
  <2> SUFFICES ASSUME NEW s \in Sids, Current(s)'
               PROVE  hash'[s].epoch >= acct'.epoch /\ \A q \in Procs : Facing(s, req[q])'
    BY Zenon DEF RevokeOK
  <2>1. Current(s) /\ hash'[s].epoch = hash[s].epoch
    BY CurrentKept, Zenon
  <2>2. hash[s].epoch >= acct.epoch /\ \A q \in Procs : Facing(s, req[q])
    BY <2>1, Zenon DEF IdentityInv, RevokeOK
  <2>3. ASSUME NEW q \in Procs, q # p PROVE Facing(s, req[q])'
    BY <1>1, <2>1, <2>2, <2>3, ZenonT(60) DEF Facing
  <2> QED BY <2>1, <2>2, <2>3, Zenon
<1>9. GrantOK'
  <2>1. \A q \in Procs : req'[q].kind = "grant" <=> req[q].kind = "grant"
    BY <1>1, Zenon
  <2>2. \A q \in Procs : req[q].kind = "grant" => req'[q] = req[q]
    BY <1>1, Zenon
  <2>3. ~acct.crossed => \A q \in Procs : req'[q].rec.ver <= acct.ver
    BY <1>1, Zenon DEF IdentityInv, GrantOK
  <2>4. acct.ver \in Nat
    BY ONLY IdentityInv DEF IdentityInv, IdentityTypeOK, Account
  <2> QED BY <2>1, <2>2, <2>3, <2>4, GrantFrame, Zenon DEF IdentityInv
<1>10. CacheOK'
  <2>1. \A q \in Procs : req'[q].pc = "store" => req'[q] = req[q]
    BY <1>1, <1>4, Zenon
  <2> QED BY <2>1, CacheFrame, Zenon DEF IdentityInv
<1> QED BY <1>2, <1>3, <1>5, <1>6, <1>7, <1>8, <1>9, <1>10, Zenon DEF IdentityInv

LEMMA ListSessionsKeeps ==
  ASSUME IdentityInv, NEW p \in Procs, ListSessions(p)
  PROVE  IdentityInv'
<1> DEFINE r == [req[p] EXCEPT !.pc = "destroy", !.list = index \ {req[p].sid}]
<1>1. /\ req[p].kind = "revoke" /\ req[p].pc = "list" /\ req' = [req EXCEPT ![p] = r]
      /\ UNCHANGED <<now, acct, lock, hash, index, minted, cache, used>>
  BY Zenon DEF ListSessions, Become
<1>2. /\ IdentityTypeOK /\ RequestOK(p) /\ req[p] \in Request /\ HashKeeps
      /\ hash' \in [Sids -> SessionRecord] /\ index' \subseteq Sids
  BY <1>1, UnchangedKeeps, Zenon DEF IdentityInv, RequestsOK, IdentityTypeOK
<1>3. /\ r \in Request /\ r.kind = req[p].kind /\ r.pc = "destroy" /\ r.sid = req[p].sid
      /\ r.grant = req[p].grant /\ r.late = req[p].late /\ r.rec = req[p].rec
      /\ r.list = index \ {req[p].sid}
  BY <1>2, Zenon DEF Request, IdentityTypeOK
<1> HIDE DEF r
<1>4. req'[p] = r
  BY <1>1, <1>2, Zenon DEF IdentityTypeOK
<1>5. RequestOK(p)'
  BY <1>1, <1>2, <1>3, <1>4, Zenon DEF RequestOK
<1>6. \A s \in Sids : Current(s)' => Facing(s, req[p])'
  BY <1>1, <1>3, <1>4, Zenon DEF IdentityInv, StoreOK, Current, Stands, Exists, Facing
<1>7. ~HasRead(r) /\ (~acct.crossed => r.rec.ver <= acct.ver)
  BY <1>3, Zenon DEF HasRead, IdentityInv, GrantOK
<1> QED BY <1>1, <1>2, <1>3, <1>5, <1>6, <1>7, RevocationMoves, Zenon

LEMMA DestroyListedKeeps ==
  ASSUME IdentityInv, NEW p \in Procs, DestroyListed(p)
  PROVE  IdentityInv'
<1> DEFINE pc == IF req[p].grant = "password" THEN "rot" ELSE "commit"
           r == [req[p] EXCEPT !.pc = pc]
<1>1. /\ req[p].pc = "destroy" /\ req' = [req EXCEPT ![p].pc = pc]
      /\ hash' = Delete(req[p].list) /\ index' = index \ req[p].list
      /\ UNCHANGED <<now, acct, lock, minted, cache, used>>
  BY Zenon DEF DestroyListed, Goto
<1>2. IdentityTypeOK /\ RequestOK(p) /\ req[p] \in Request
  BY Zenon DEF IdentityInv, RequestsOK, IdentityTypeOK
<1>3. HashKeeps /\ hash' \in [Sids -> SessionRecord] /\ index' \subseteq Sids
  BY <1>1, <1>2, DestroyKeeps, Zenon
<1>4. /\ r \in Request /\ r.kind = req[p].kind /\ r.pc = pc /\ r.sid = req[p].sid
      /\ r.grant = req[p].grant /\ r.late = req[p].late /\ r.rec = req[p].rec
  BY <1>2, ZenonT(60) DEF Request
<1>5. req' = [req EXCEPT ![p] = r] /\ req'[p] = r
  BY <1>1, <1>2, Zenon DEF IdentityTypeOK
<1> HIDE DEF r
<1>6. req[p].kind = "revoke"
  BY <1>1, <1>2, Zenon DEF RequestOK, Request
<1>7. RequestOK(p)'
  BY <1>1, <1>2, <1>4, <1>5, <1>6, Zenon DEF RequestOK
<1>8. ASSUME NEW s \in Sids, Current(s)' PROVE Facing(s, req[p])'
  <2>1. Current(s)
    BY <1>3, <1>8, CurrentKept, Zenon
  <2>2. s \in req[p].list \cup {req[p].sid}
    BY <1>1, <1>6, <2>1, Zenon DEF IdentityInv, RevokeOK, Facing
  <2>3. s \notin req[p].list
    BY <1>1, <1>8, Zenon DEF Delete, NoHash, Current, Stands, Exists
  <2>4. s = req[p].sid /\ s # 0
    BY <2>2, <2>3 DEF Sids
  <2>5. req[p].grant = "password"
    BY <1>2, <1>6, <2>4, Zenon DEF RequestOK
  <2> QED BY <1>4, <1>5, <2>4, <2>5, Zenon DEF Facing
<1>9. ~HasRead(r) /\ (~acct.crossed => r.rec.ver <= acct.ver)
  BY <1>4, Zenon DEF HasRead, IdentityInv, GrantOK
<1> QED BY <1>1, <1>3, <1>4, <1>5, <1>6, <1>7, <1>8, <1>9, RevocationMoves, Zenon

(* regenerate_id reads the session: what it read is as current as it is     *)
(* when no change overlaps.                                                 *)
LEMMA RotateReadKeeps ==
  ASSUME IdentityInv, NEW p \in Procs, RotateRead(p)
  PROVE  IdentityInv'
<1>1. req[p].pc = "rot" /\ UNCHANGED <<now, acct, lock, minted, cache, used>>
  BY Zenon DEF RotateRead
<1>2. IdentityTypeOK /\ RequestOK(p) /\ req[p] \in Request
  BY Zenon DEF IdentityInv, RequestsOK, IdentityTypeOK
<1>3. req[p].kind \in {"request", "revoke"} /\ AccountKeeps /\ acct' \in Account
  BY <1>1, <1>2, Zenon DEF RequestOK, Request, AccountKeeps, IdentityTypeOK
<1>4. PICK s \in Sids : s = req[p].sid
  BY <1>1, <1>2, <1>3, Zenon DEF RequestOK
<1>5. CASE /\ Full(s) /\ hash' = hash /\ index' = index
           /\ Become(p, [req[p] EXCEPT !.pc = "rotated", !.rec = hash[s],
                                       !.late = @ \/ hash[s].late])
  <2> DEFINE b == req[p].late \/ hash[s].late
             r == [req[p] EXCEPT !.pc = "rotated", !.rec = hash[s], !.late = b]
  <2>1. req' = [req EXCEPT ![p] = r]
    BY <1>5, Zenon DEF Become
  <2>2. hash[s] \in SessionRecord /\ req[p].late \in BOOLEAN /\ hash[s].late \in BOOLEAN
    BY <1>2, Zenon DEF IdentityTypeOK, SessionRecord, Request
  <2>3. b \in BOOLEAN /\ (b = FALSE => ~req[p].late /\ ~hash[s].late)
    BY <2>2, Zenon
  <2> HIDE DEF b
  <2>4. /\ r \in Request /\ r.kind = req[p].kind /\ r.pc = "rotated" /\ r.sid = req[p].sid
        /\ r.grant = req[p].grant /\ r.rec = hash[s] /\ r.late = b /\ r.list = req[p].list
    BY <1>2, <2>2, <2>3, Zenon DEF Request
  <2> HIDE DEF r
  <2>5. req'[p] = r
    BY <1>2, <2>1, Zenon DEF IdentityTypeOK
  <2>6. Stands(s) /\ hash[s].kind = "full" /\ hash[s].created = hash[s].login
    BY <1>5, Zenon DEF Full, Stands, IdentityInv, StoreOK
  <2>7. RequestOK(p)'
    BY <1>1, <1>2, <1>3, <2>4, <2>5, <2>6, Zenon DEF RequestOK
  <2>8. HashKeeps /\ hash' \in [Sids -> SessionRecord] /\ index' \subseteq Sids
    BY <1>2, <1>5, UnchangedKeeps, Zenon DEF IdentityTypeOK
  <2>9. ~acct.crossed => r.rec.ver <= acct.ver
    BY <2>4, Zenon DEF IdentityInv, GrantOK
  <2>10. ~r.late => ~req[p].late /\ Changing \subseteq {p} /\ UpToDate(r)
    <3> SUFFICES ASSUME ~r.late
                 PROVE  ~req[p].late /\ Changing \subseteq {p} /\ UpToDate(r)
      BY Zenon
    <3>1. ~req[p].late /\ Current(s)
      BY <2>3, <2>4, <2>6, Zenon DEF Current
    <3>2. p \in Minting
      BY <1>1, Zenon DEF Minting
    <3>3. Changing \subseteq {p}
      BY <3>1, <3>2, Zenon DEF IdentityInv, OverlapOK
    <3>4. Granting = {}
      BY <1>3, <3>3, Zenon DEF Granting, Changing
    <3>5. hash[s].epoch >= acct.epoch
      BY <3>1, Zenon DEF IdentityInv, RevokeOK
    <3>6. ~acct.crossed => hash[s].ver = acct.ver
      BY <3>1, <3>4, Zenon DEF IdentityInv, GrantOK, Stamped
    <3> QED BY <2>4, <3>1, <3>3, <3>5, <3>6, Zenon DEF UpToDate
  <2>11. CASE req[p].kind = "request"
    <3>1. p \notin Changing
      BY <2>11, Zenon DEF Changing
    <3>2. ~Changer(req[p]) /\ ~Changer(r) /\ r.pc # "store" /\ ~Carries(p)'
      BY <2>4, <2>5, <2>11, Zenon DEF Changer, Carries
    <3>3. ~r.late => Changing = {} /\ UpToDate(r)
      BY <2>10, <3>1, Zenon
    <3> QED BY <1>1, <1>3, <2>1, <2>4, <2>7, <2>8, <2>9, <3>2, <3>3, QuietMove, Zenon
  <2>12. CASE req[p].kind = "revoke"
    <3>1. ASSUME NEW u \in Sids, Current(u)' PROVE Facing(u, req[p])'
      <4>1. Current(u)
        BY <2>8, <3>1, CurrentKept, Zenon
      <4>2. u = req[p].sid
        BY <1>1, <2>12, <4>1, Zenon DEF IdentityInv, RevokeOK, Facing
      <4> QED BY <2>4, <2>5, <4>2, Zenon DEF Facing
    <3>2. ~r.late => ~req[p].late
      BY <2>10, Zenon
    <3>3. HasRead(r) /\ ~r.late => UpToDate(r)
      BY <2>10, Zenon
    <3> QED BY <1>1, <2>1, <2>4, <2>7, <2>8, <2>9, <2>12, <3>1, <3>2, <3>3, RevocationMoves, Zenon
  <2> QED BY <1>3, <2>11, <2>12, Zenon
<1>6. CASE ~Full(s)
  <2>1. /\ IF req[p].kind = "revoke" THEN Goto(p, "commit") ELSE Answer(p)
        /\ hash' = IF Exists(s) THEN Delete({s}) ELSE hash
        /\ index' = IF Exists(s) THEN index \ {s} ELSE index
    BY <1>4, <1>6, Zenon DEF RotateRead
  <2>2. HashKeeps /\ hash' \in [Sids -> SessionRecord] /\ index' \subseteq Sids
    <3>1. CASE Exists(s)
      BY <1>2, <2>1, <3>1, DestroyKeeps, Zenon
    <3>2. CASE ~Exists(s)
      BY <1>2, <2>1, <3>2, PruneKeeps, Zenon
    <3> QED BY <3>1, <3>2, Zenon
  <2>3. CASE req[p].kind = "request"
    BY <1>1, <1>3, <2>1, <2>2, <2>3, Answers, Zenon DEF Changer
  <2>4. CASE req[p].kind = "revoke"
    <3> DEFINE r == [req[p] EXCEPT !.pc = "commit"]
    <3>1. /\ r \in Request /\ r.kind = req[p].kind /\ r.pc = "commit" /\ r.sid = req[p].sid
          /\ r.grant = req[p].grant /\ r.late = req[p].late /\ r.rec = req[p].rec
      BY <1>2, Zenon DEF Request
    <3>2. req' = [req EXCEPT ![p] = r] /\ req'[p] = r
      BY <1>2, <2>1, <2>4, Zenon DEF Goto, IdentityTypeOK
    <3> HIDE DEF r
    <3>3. RequestOK(p)'
      BY <1>1, <1>2, <2>4, <3>1, <3>2, Zenon DEF RequestOK
    <3>4. \A u \in Sids : ~Current(u)'
      <4>1. ASSUME NEW u \in Sids, Current(u)' PROVE FALSE
        <5>1. Current(u)
          BY <2>2, <4>1, CurrentKept, Zenon
        <5>2. u = s
          BY <1>1, <1>4, <2>4, <5>1, Zenon DEF IdentityInv, RevokeOK, Facing
        <5>3. hash'[s].kind # "full"
          BY <2>1, <5>1, <5>2, Zenon DEF Delete, NoHash, Current, Stands
        <5> QED BY <4>1, <5>2, <5>3, Zenon DEF Current, Stands
      <4> QED BY <4>1, Zenon
    <3>5. ~HasRead(r) /\ (~acct.crossed => r.rec.ver <= acct.ver)
      BY <3>1, Zenon DEF HasRead, IdentityInv, GrantOK
    <3> QED BY <1>1, <2>2, <2>4, <3>1, <3>2, <3>3, <3>4, <3>5, RevocationMoves, Zenon
  <2> QED BY <1>3, <2>3, <2>4, Zenon
<1> QED BY <1>4, <1>5, <1>6, Zenon DEF RotateRead

LEMMA RotateWriteKeeps ==
  ASSUME IdentityInv, NEW p \in Procs, RotateWrite(p)
  PROVE  IdentityInv'
<1> DEFINE r == IF req[p].kind = "revoke" THEN [req[p] EXCEPT !.pc = "commit"] ELSE NoRequest
<1>1. /\ req[p].pc = "rotated" /\ minted < MaxSids /\ minted' = minted + 1
      /\ hash' = [Delete({req[p].sid}) EXCEPT ![minted + 1] = Rotated(p)]
      /\ index' = (index \ {req[p].sid}) \cup {minted + 1}
      /\ IF req[p].kind = "revoke" THEN Goto(p, "commit") ELSE Answer(p)
      /\ UNCHANGED <<now, acct, lock, cache, used>>
  BY Zenon DEF RotateWrite
<1>2. IdentityTypeOK /\ RequestOK(p) /\ req[p] \in Request
  BY Zenon DEF IdentityInv, RequestsOK, IdentityTypeOK
<1>3. req[p].kind \in {"request", "revoke"}
  BY <1>1, <1>2, Zenon DEF RequestOK, Request
<1>4. PICK k \in Sids : k = minted + 1
  <2>1. minted \in Nat /\ MaxSids \in Nat
    BY <1>2, IdentityAssumption DEF IdentityTypeOK
  <2>2. minted < MaxSids
    BY <1>1, Zenon
  <2> QED BY ONLY <2>1, <2>2 DEF Sids
<1>5. PICK new \in SessionRecord : new = Rotated(p)
  BY <1>2, RotatedType, Zenon
<1>6. /\ new.kind = "full" /\ new.created = new.login /\ new.late = req[p].late
      /\ new.ver = req[p].rec.ver /\ new.code = None
      /\ new.epoch = IF req[p].kind = "revoke" THEN req[p].rec.epoch + 1 ELSE req[p].rec.epoch
  BY <1>1, <1>2, <1>5, RotatedType, Zenon DEF RequestOK
<1>7. PICK gone : gone = {req[p].sid}
  BY Zenon
<1>8. /\ hash' = [s \in Sids |-> IF s = k THEN new ELSE IF s \in gone THEN NoHash ELSE hash[s]]
      /\ index' = (index \ gone) \cup {k} /\ minted' = k
  BY <1>1, <1>2, <1>4, <1>5, <1>7, Zenon DEF IdentityTypeOK, Delete
<1>9. /\ r \in Request /\ req' = [req EXCEPT ![p] = r]
      /\ r.rec.ver \in {0, req[p].rec.ver}
      /\ req[p].kind = "request" => r.kind = "none" /\ r.pc = "idle"
      /\ req[p].kind = "revoke" => /\ r.kind = "revoke" /\ r.pc = "commit"
                                   /\ r.grant = req[p].grant /\ r.sid = req[p].sid
                                   /\ r.late = req[p].late
  <2>1. CASE req[p].kind = "request"
    <3>1. NoRequest.kind = "none" /\ NoRequest.pc = "idle" /\ NoRequest.rec.ver = 0
      BY Zenon DEF NoRequest, NoHash
    <3> QED BY <1>1, <2>1, <3>1, NoRequestType, Zenon DEF Answer, Become
  <2>2. CASE req[p].kind = "revoke"
    BY <1>1, <1>2, <2>2, Zenon DEF Request, Goto, IdentityTypeOK
  <2> QED BY <1>3, <2>1, <2>2, Zenon
<1> HIDE DEF r
<1>10. HasRead(req[p]) /\ (req[p].kind = "request" => ~Changer(req[p])) /\ req[p].sid \in gone
  BY <1>1, <1>7, Zenon DEF HasRead, Changer
<1>11. UNCHANGED <<now, acct, lock, cache, used>> /\ req[p].pc = "rotated"
  BY <1>1, Zenon
<1>12. \/ r.kind = "none" /\ r.pc = "idle" /\ ~Changer(req[p]) /\ new.epoch = req[p].rec.epoch
       \/ /\ r.kind = "revoke" /\ r.pc = "commit" /\ r.grant = req[p].grant /\ r.sid = req[p].sid
          /\ r.late = req[p].late /\ req[p].kind = "revoke" /\ req[p].pc = "rotated"
          /\ new.epoch = req[p].rec.epoch + 1 /\ req[p].sid \in gone
  BY <1>3, <1>6, <1>9, <1>10, <1>11, Zenon
<1>13. PICK on \in Request : on = r
  BY <1>9, Zenon
<1>14. Mints(p, k, new, gone, on)
  BY ONLY <1>6, <1>8, <1>9, <1>10, <1>11, <1>12, <1>13, Zenon DEF Mints
<1> QED BY ONLY IdentityInv, p \in Procs, k \in Sids, new \in SessionRecord, on \in Request, <1>14,
                MintKeeps, Zenon

=============================================================================
