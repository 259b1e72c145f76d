--------------------------- MODULE IdentityProofs ---------------------------
(***************************************************************************)
(* Proofs about Identity: what its properties state holds for any number of *)
(* requests at a time, any cap and any lifetimes, and under every mix of    *)
(* logins, rotations, revocations and grants.                               *)
(***************************************************************************)
EXTENDS IdentityLemmas

(* A revocation that is over leaves no session of an earlier epoch: the row *)
(* lock keeps two password changes apart.                                   *)
LEMMA CommitRevocationKeeps ==
  ASSUME IdentityInv, NEW p \in Procs, CommitRevocation(p)
  PROVE  IdentityInv'
<1>1. /\ req[p].kind = "revoke" /\ req[p].pc = "commit" /\ req' = [req EXCEPT ![p] = NoRequest]
      /\ lock' = (IF lock = p THEN None ELSE lock)
      /\ UNCHANGED <<now, hash, index, minted, cache, used>>
  BY Zenon DEF CommitRevocation, Answer, Become
<1>2. IdentityTypeOK /\ RequestOK(p) /\ acct \in Account
  BY Zenon DEF IdentityInv, RequestsOK, IdentityTypeOK
<1>3. /\ acct' \in Account /\ acct'.epoch = acct.epoch + 1 /\ acct'.ver = acct.ver
      /\ acct'.crossed = acct.crossed /\ acct'.grants = acct.grants
  <2> DEFINE a == acct.active /\ req[p].grant # "deactivate"
             m == (acct.mcp /\ req[p].grant # "password") \/ req[p].grant = "reset"
             e == acct.epoch + 1
  <2>1. acct.active \in BOOLEAN /\ acct.mcp \in BOOLEAN /\ acct.epoch \in Nat
    BY <1>2, Zenon DEF Account
  <2>2. a \in BOOLEAN
    BY <2>1, Zenon
  <2>3. m \in BOOLEAN
    BY <2>1, Zenon
  <2>4. e \in Nat
    BY <2>1
  <2>5. acct' = [acct EXCEPT !.epoch = e, !.active = a, !.mcp = m]
    BY Zenon DEF CommitRevocation
  <2> HIDE DEF a, m, e
  <2>6. /\ acct' \in Account /\ acct'.epoch = e /\ acct'.ver = acct.ver
        /\ acct'.crossed = acct.crossed /\ acct'.grants = acct.grants
    BY <1>2, <2>2, <2>3, <2>4, <2>5, Zenon DEF Account
  <2> QED BY <2>6, Zenon DEF e
<1>4. HashKeeps
  BY <1>1, UnchangedKeeps, Zenon
<1>5. NoRequest.kind = "none" /\ NoRequest.pc = "idle" /\ NoRequest.rec.ver = 0
  BY Zenon DEF NoRequest, NoHash
<1>6. req'[p] = NoRequest /\ \A q \in Procs : q # p => req'[q] = req[q]
  BY <1>1, <1>2, Zenon DEF IdentityTypeOK
<1>7. IdentityTypeOK'
  BY <1>1, <1>2, <1>3, NoRequestType, Zenon DEF IdentityTypeOK
<1>8. RequestsOK'
  <2>1. RequestOK(p)'
    BY <1>5, <1>6, Zenon DEF RequestOK
  <2>2. ASSUME NEW q \in Procs, q # p PROVE RequestOK(q)'
    <3>1. RequestOK(q) /\ req'[q] = req[q]
      BY <1>6, <2>2, Zenon DEF IdentityInv, RequestsOK
    <3>2. lock = q => lock' = q
      BY <1>1, <2>2, Zenon
    <3> QED BY <3>1, <3>2, Zenon DEF RequestOK
  <2> QED BY <2>1, <2>2, Zenon DEF RequestsOK
<1>9. StoreOK'
  BY <1>4, StoreFrame, Zenon DEF IdentityInv
<1>10. CodesOK'
  <2>1. \A q \in Procs : Carries(q)' => Carries(q) /\ req'[q].rec.code = req[q].rec.code
    BY <1>5, <1>6, Zenon DEF Carries
  <2> QED BY <1>1, <1>4, <2>1, CodesFrame, Zenon DEF IdentityInv
<1>11. OverlapOK'
  <2>1. ASSUME NEW q \in Minting', ~req'[q].late PROVE FALSE
    <3>1. q \in Procs /\ q # p
      BY <1>5, <1>6, <2>1, Zenon DEF Minting
    <3>2. q \in Minting /\ ~req[q].late
      BY <1>6, <2>1, <3>1, Zenon DEF Minting
    <3>3. p \in Changing
      BY <1>1, Zenon DEF Changing
    <3> QED BY <3>1, <3>2, <3>3, Zenon DEF IdentityInv, OverlapOK
  <2> QED BY <2>1, Zenon DEF OverlapOK
<1>12. RevokeOK'
  <2> SUFFICES ASSUME NEW s \in Sids, Current(s)'
               PROVE  hash'[s].epoch >= acct'.epoch /\ \A q \in Procs : Facing(s, req[q])'
    BY Zenon DEF RevokeOK
  <2>1. Current(s) /\ hash'[s].epoch = hash[s].epoch
    BY <1>4, CurrentKept, Zenon
  <2>2. \A q \in Procs : Facing(s, req[q])
    BY <2>1, Zenon DEF IdentityInv, RevokeOK
  <2>3. req[p].grant = "password" /\ hash[s].epoch > acct.epoch
    BY <1>1, <2>2, Zenon DEF Facing
  <2>4. hash[s].epoch \in Nat /\ acct.epoch \in Nat
    BY <1>2, Zenon DEF IdentityTypeOK, SessionRecord, Account
  <2>5. hash'[s].epoch >= acct'.epoch
    BY <1>3, <2>1, <2>3, <2>4
  <2>6. lock = p
    BY <1>1, <1>2, <2>3, Zenon DEF RequestOK
  <2>7. ASSUME NEW q \in Procs PROVE Facing(s, req[q])'
    <3>1. CASE q = p
      BY <1>5, <1>6, <3>1, Zenon DEF Facing
    <3>2. CASE q # p
      <4>1. ~(req[q].kind = "revoke" /\ req[q].pc = "commit")
        BY <2>2, <2>6, <3>2, Zenon DEF Facing, IdentityInv, RequestsOK, RequestOK
      <4>2. req'[q] = req[q] /\ Facing(s, req[q])
        BY <1>6, <2>2, <3>2, Zenon
      <4> QED BY <4>1, <4>2, Zenon DEF Facing
    <3> QED BY <3>1, <3>2, Zenon
  <2> QED BY <2>5, <2>7, Zenon
<1>13. GrantOK'
  <2>1. \A q \in Procs : req'[q].kind = "grant" <=> req[q].kind = "grant"
    BY <1>1, <1>5, <1>6, Zenon
  <2>2. \A q \in Procs : req[q].kind = "grant" => req'[q] = req[q]
    BY <1>1, <1>6, Zenon
  <2>3. acct.ver \in Nat
    BY <1>2 DEF Account
  <2>4. ~acct.crossed => \A q \in Procs : req'[q].rec.ver <= acct.ver
    BY <1>5, <1>6, <2>3 DEF IdentityInv, GrantOK
  <2> QED BY <1>3, <1>4, <2>1, <2>2, <2>3, <2>4, GrantFrame, Zenon DEF IdentityInv
<1>14. CacheOK'
  <2>1. \A q \in Procs : req'[q].pc = "store" => req'[q] = req[q]
    BY <1>5, <1>6, Zenon
  <2> QED BY <1>1, <1>3, <2>1, CacheFrame, Zenon DEF IdentityInv
<1> QED BY <1>7, <1>8, <1>9, <1>10, <1>11, <1>12, <1>13, <1>14, Zenon DEF IdentityInv

-----------------------------------------------------------------------------
(* A change starts *)

(* Whatever is minting then is marked, and only that.                       *)
LEMMA ChangeStarts ==
  ASSUME IdentityInv, NEW p \in Procs, NEW r \in Request, StartChange(p, r),
         req[p].pc \in {"idle", "in"}, Changer(r), r.rec.ver = 0,
         r.kind = "revoke" => r.pc = "list" /\ (~r.late => Changing = {}),
         r.kind = "grant" => r.pc = "bump",
         UNCHANGED <<now, hash, index, minted, cache, used>>, acct' \in Account,
         acct'.epoch = acct.epoch, acct'.ver = acct.ver, acct'.grants = acct.grants,
         acct.crossed => acct'.crossed, RequestOK(p)',
         lock' = lock \/ (lock = None /\ lock' = p)
  PROVE  /\ IdentityTypeOK' /\ RequestsOK' /\ StoreOK' /\ CodesOK' /\ OverlapOK' /\ RevokeOK'
         /\ CacheOK' /\ HashKeeps /\ req'[p] = r /\ req[p].kind \in {"none", "request"}
         /\ \A q \in Procs : q # p =>
              /\ req'[q].kind = req[q].kind /\ req'[q].pc = req[q].pc
              /\ req'[q].list = req[q].list /\ req'[q].ver = req[q].ver
              /\ req'[q].rec = req[q].rec
<1>1. IdentityTypeOK /\ RequestOK(p) /\ HashKeeps
  BY UnchangedKeeps, Zenon DEF IdentityInv, RequestsOK
<1>2. req[p].kind \in {"none", "request"}
  BY <1>1, Zenon DEF RequestOK, IdentityTypeOK, Request
<1>3. /\ req'[p] = r
      /\ \A q \in Procs : q # p =>
           req'[q] = IF q \in Minting THEN [req[q] EXCEPT !.late = TRUE] ELSE req[q]
  BY Zenon DEF StartChange
<1>4. ASSUME NEW q \in Procs, q # p
      PROVE  /\ req'[q] \in Request
             /\ req'[q].kind = req[q].kind /\ req'[q].pc = req[q].pc /\ req'[q].sid = req[q].sid
             /\ req'[q].rec = req[q].rec /\ req'[q].list = req[q].list
             /\ req'[q].ver = req[q].ver /\ req'[q].grant = req[q].grant
             /\ q \in Minting => req'[q].late
             /\ q \notin Minting => req'[q] = req[q]
  <2>1. req[q] \in Request
    BY <1>1, Zenon DEF IdentityTypeOK
  <2>2. CASE q \in Minting
    <3>1. req'[q] = [req[q] EXCEPT !.late = TRUE]
      BY <1>3, <1>4, <2>2, Zenon
    <3> QED BY <2>1, <2>2, <3>1, ZenonT(60) DEF Request
  <2>3. CASE q \notin Minting
    BY <1>3, <1>4, <2>1, <2>3, Zenon
  <2> QED BY <2>2, <2>3, Zenon
<1>5. IdentityTypeOK'
  <2>1. req' \in [Procs -> Request]
    BY <1>3, <1>4, Zenon DEF StartChange
  <2>2. lock' \in Procs \cup {None}
    BY <1>1, Zenon DEF IdentityTypeOK
  <2> QED BY <1>1, <2>1, <2>2, Zenon DEF IdentityTypeOK
<1>6. RequestsOK'
  <2>1. ASSUME NEW q \in Procs, q # p PROVE RequestOK(q)'
    <3>1. RequestOK(q)
      BY Zenon DEF IdentityInv, RequestsOK
    <3>2. lock = q => lock' = q
      <4>1. CASE q = None
        <5>1. lock = None => lock' = q \/ lock' = p
          BY <4>1, Zenon
        <5> QED BY <4>1, <5>1, IdentityAssumption, Zenon
      <4>2. CASE q # None
        BY <4>2, Zenon
      <4> QED BY <4>1, <4>2, Zenon
    <3> QED BY <1>4, <2>1, <3>1, <3>2, ZenonT(40) DEF RequestOK
  <2> QED BY <2>1, Zenon DEF RequestsOK
<1>7. StoreOK'
  BY <1>1, StoreFrame, Zenon DEF IdentityInv
<1>8. CodesOK'
  <2>1. ~Carries(p)'
    BY <1>3, Zenon DEF Carries, Changer
  <2>2. \A q \in Procs : Carries(q)' => Carries(q) /\ req'[q].rec.code = req[q].rec.code
    BY <1>4, <2>1, Zenon DEF Carries
  <2> QED BY <1>1, <2>2, CodesFrame, Zenon DEF IdentityInv
<1>9. OverlapOK'
  <2> SUFFICES ASSUME NEW q \in Minting', ~req'[q].late
               PROVE  Changing' \subseteq {q} /\ ~HasRead(req'[q])
    BY Zenon DEF OverlapOK, HasRead
  <2>1. q \in Procs
    BY Zenon DEF Minting
  <2>2. q = p
    <3>1. q # p => q \in Minting
      BY <1>4, <2>1, Zenon DEF Minting
    <3> QED BY <1>4, <2>1, <3>1, Zenon
  <2>3. r.kind = "revoke" /\ r.pc = "list"
    BY <1>3, <2>2, Zenon DEF Minting, Changer
  <2>4. Changing = {}
    BY <1>3, <2>2, <2>3, Zenon
  <2>5. Changing' \subseteq {p}
    BY <1>4, <2>4, Zenon DEF Changing
  <2> QED BY <1>3, <2>2, <2>3, <2>5, Zenon DEF HasRead
<1>10. RevokeOK'
  <2>1. \A q \in Procs : req'[q].kind = "revoke" =>
           \/ req'[q].pc = "list"
           \/ /\ req'[q].kind = req[q].kind /\ req'[q].pc = req[q].pc /\ req'[q].sid = req[q].sid
              /\ req'[q].list = req[q].list /\ req'[q].grant = req[q].grant
    BY <1>3, <1>4, Zenon
  <2> QED BY <1>1, <2>1, RevokeFrame, Zenon DEF IdentityInv
<1>11. CacheOK'
  <2>1. \A q \in Procs : req'[q].pc = "store" => req'[q] = req[q]
    <3>1. ASSUME NEW q \in Procs, req'[q].pc = "store" PROVE req'[q] = req[q]
      <4>1. q # p
        BY <1>3, <3>1, Zenon DEF Changer
      <4>2. req[q].pc = "store" /\ RequestOK(q)
        BY <1>4, <3>1, <4>1, Zenon DEF IdentityInv, RequestsOK
      <4>3. q \notin Minting
        BY <4>2, Zenon DEF Minting, RequestOK
      <4> QED BY <1>4, <4>1, <4>3, Zenon
    <3> QED BY <3>1, Zenon
  <2> QED BY <2>1, CacheFrame, Zenon DEF IdentityInv
<1> QED BY <1>1, <1>2, <1>3, <1>4, <1>5, <1>6, <1>7, <1>8, <1>9, <1>10, <1>11, Zenon

LEMMA RevocationType ==
  ASSUME NEW p \in Procs, NEW what \in Revocations, NEW s \in 0 .. MaxSids
  PROVE  LET r == Revocation(p, what, s)
         IN  /\ r \in Request /\ r.kind = "revoke" /\ r.pc = "list" /\ r.grant = what /\ r.sid = s
             /\ r.late = (Changing # {}) /\ r.rec.ver = 0
<1> DEFINE b == Changing # {}
           r == [NoRequest EXCEPT !.kind = "revoke", !.pc = "list", !.grant = what, !.sid = s,
                                  !.late = b]
<1>1. b \in BOOLEAN
  BY Zenon
<1>2. Revocation(p, what, s) = r
  BY Zenon DEF Revocation
<1> HIDE DEF b
<1>3. NoRequest.rec.ver = 0
  BY Zenon DEF NoRequest, NoHash
<1>4. /\ r \in Request /\ r.kind = "revoke" /\ r.pc = "list" /\ r.grant = what /\ r.sid = s
      /\ r.late = b /\ r.rec = NoRequest.rec
  BY <1>1, NoRequestType, Zenon DEF Request
<1> HIDE DEF r
<1> QED BY <1>2, <1>3, <1>4, Zenon DEF b

(* A revocation changes no grant.                                           *)
LEMMA RevocationStarts ==
  ASSUME IdentityInv, NEW p \in Procs, NEW what \in Revocations, NEW s \in 0 .. MaxSids,
         StartChange(p, Revocation(p, what, s)), req[p].pc \in {"idle", "in"},
         UNCHANGED <<now, acct, hash, index, minted, cache, used>>,
         IF what = "sessions" THEN lock' = lock ELSE lock = None /\ lock' = p,
         IF what = "password" THEN s \in Sids ELSE s = 0
  PROVE  IdentityInv'
<1>0. PICK r \in Request : r = Revocation(p, what, s)
  BY RevocationType, Zenon
<1>1. /\ r.kind = "revoke" /\ r.pc = "list" /\ r.grant = what /\ r.sid = s
      /\ r.late = (Changing # {}) /\ r.rec.ver = 0
  BY <1>0, RevocationType
<1>2. StartChange(p, r)
  BY <1>0, Zenon DEF StartChange
<1>3. IdentityTypeOK /\ acct' \in Account
  BY Zenon DEF IdentityInv, IdentityTypeOK
<1>4. req'[p] = r
  BY <1>2, Zenon DEF StartChange
<1>5. RequestOK(p)'
  BY <1>1, <1>4, Zenon DEF RequestOK
<1>6. Changer(r) /\ (~r.late => Changing = {}) /\ (lock' = lock \/ (lock = None /\ lock' = p))
  BY <1>1, Zenon DEF Changer
<1>7. /\ IdentityTypeOK' /\ RequestsOK' /\ StoreOK' /\ CodesOK' /\ OverlapOK' /\ RevokeOK'
      /\ CacheOK' /\ HashKeeps /\ req[p].kind \in {"none", "request"}
      /\ \A q \in Procs : q # p =>
           /\ req'[q].kind = req[q].kind /\ req'[q].pc = req[q].pc
           /\ req'[q].list = req[q].list /\ req'[q].ver = req[q].ver
           /\ req'[q].rec = req[q].rec
  <2>1. UNCHANGED <<now, hash, index, minted, cache, used>>
    BY Zenon
  <2>2. /\ acct'.epoch = acct.epoch /\ acct'.ver = acct.ver /\ acct'.grants = acct.grants
        /\ acct.crossed => acct'.crossed
    BY Zenon
  <2>3. /\ r.kind = "revoke" => r.pc = "list" /\ (~r.late => Changing = {})
        /\ r.kind = "grant" => r.pc = "bump"
        /\ r.rec.ver = 0
    BY <1>1, <1>6, Zenon
  <2> QED BY ONLY IdentityInv, p \in Procs, r \in Request, req[p].pc \in {"idle", "in"},
                  <1>1, <1>2, <1>3, <1>5, <1>6, <2>1, <2>2, <2>3, ChangeStarts, Zenon
<1>8. GrantOK'
  <2>1. \A q \in Procs : req'[q].kind = "grant" <=> req[q].kind = "grant"
    BY <1>1, <1>4, <1>7, Zenon
  <2>2. \A q \in Procs : req[q].kind = "grant" =>
          req'[q].pc = req[q].pc /\ req'[q].list = req[q].list /\ req'[q].ver = req[q].ver
    BY <1>7, Zenon
  <2>3. acct.ver \in Nat
    BY <1>3 DEF IdentityTypeOK, Account
  <2>4. ~acct.crossed => \A q \in Procs : req'[q].rec.ver <= acct.ver
    BY <1>1, <1>4, <1>7, <2>3 DEF IdentityInv, GrantOK
  <2> QED BY <1>7, <2>1, <2>2, <2>3, <2>4, GrantFrame, Zenon DEF IdentityInv
<1> QED BY <1>7, <1>8, Zenon DEF IdentityInv

LEMMA ChangePasswordKeeps ==
  ASSUME IdentityInv, NEW p \in Procs, ChangePassword(p)
  PROVE  IdentityInv'
<1>1. /\ req[p].pc = "in" /\ lock = None /\ lock' = p
      /\ StartChange(p, Revocation(p, "password", req[p].sid))
      /\ UNCHANGED <<now, acct, hash, index, minted, cache, used>>
  BY Zenon DEF ChangePassword
<1>2. RequestOK(p) /\ req[p] \in Request
  BY Zenon DEF IdentityInv, RequestsOK, IdentityTypeOK
<1>3. PICK s \in Sids : s = req[p].sid
  BY <1>1, <1>2, Zenon DEF RequestOK, Request
<1>4. s \in 0 .. MaxSids /\ "password" \in Revocations
  BY <1>2, <1>3, Zenon DEF Request, Revocations
<1> QED BY <1>1, <1>3, <1>4, RevocationStarts, Zenon

LEMMA AdminRevokeKeeps ==
  ASSUME IdentityInv, NEW p \in Procs, NEW what \in {"reset", "deactivate", "sessions"},
         AdminRevoke(p, what)
  PROVE  IdentityInv'
<1>1. /\ req[p].pc = "idle" /\ StartChange(p, Revocation(p, what, 0))
      /\ IF what = "sessions" THEN lock' = lock ELSE lock = None /\ lock' = p
      /\ UNCHANGED <<now, acct, hash, index, minted, cache, used>>
  BY Zenon DEF AdminRevoke, Idle
<1>2. 0 \in 0 .. MaxSids /\ what \in Revocations
  BY IdentityAssumption DEF Revocations
<1> QED BY <1>1, <1>2, RevocationStarts, Zenon

(* A grant change that crosses another marks the account; one that does not *)
(* finds every current session stamped.                                     *)
LEMMA ChangeGrantKeeps ==
  ASSUME IdentityInv, NEW p \in Procs, NEW g \in Grants, ChangeGrant(p, g)
  PROVE  IdentityInv'
<1> DEFINE b == acct.crossed \/ \E q \in Changing : req[q].kind = "grant"
           v == acct.ver + 1
           r == [NoRequest EXCEPT !.kind = "grant", !.pc = "bump", !.grant = g, !.ver = v]
<1>1. /\ req[p].pc = "idle" /\ acct.ver < MaxVersion /\ StartChange(p, r)
      /\ acct' = [acct EXCEPT !.crossed = b]
      /\ UNCHANGED <<now, lock, hash, index, minted, cache, used>>
  BY Zenon DEF ChangeGrant, Idle
<1>2. IdentityTypeOK /\ acct \in Account /\ acct.crossed \in BOOLEAN
  BY Zenon DEF IdentityInv, IdentityTypeOK, Account
<1>3. acct.ver \in 0 .. MaxVersion /\ MaxVersion \in Nat
  BY <1>2, IdentityAssumption, Zenon DEF Account
<1>4. v \in 0 .. MaxVersion
  BY <1>1, <1>3
<1>5. b \in BOOLEAN /\ (acct.crossed => b) /\ (~b => ~acct.crossed /\ Granting = {})
  BY <1>2, Zenon DEF Granting, Changing
<1> HIDE DEF b
<1>6. /\ acct' \in Account /\ acct'.epoch = acct.epoch /\ acct'.ver = acct.ver
      /\ acct'.grants = acct.grants /\ acct'.crossed = b
  BY <1>1, <1>2, <1>5, Zenon DEF Account
<1>7. NoRequest.rec.ver = 0
  BY Zenon DEF NoRequest, NoHash
<1> HIDE DEF v
<1>8. PICK n \in Request : /\ n = r /\ n.kind = "grant" /\ n.pc = "bump" /\ n.grant = g
                           /\ n.ver = v /\ n.rec = NoRequest.rec
  <2>1. /\ r \in Request /\ r.kind = "grant" /\ r.pc = "bump" /\ r.grant = g
        /\ r.ver = v /\ r.rec = NoRequest.rec
    BY <1>4, NoRequestType, Zenon DEF Request
  <2> HIDE DEF r
  <2> QED BY <2>1, Zenon
<1> HIDE DEF r
<1>9. req'[p] = n /\ StartChange(p, n)
  BY <1>1, <1>8, Zenon DEF StartChange
<1>10. RequestOK(p)'
  BY <1>8, <1>9, Zenon DEF RequestOK
<1>11. Changer(n) /\ n.rec.ver = 0
  BY <1>7, <1>8, Zenon DEF Changer
<1>12. /\ IdentityTypeOK' /\ RequestsOK' /\ StoreOK' /\ CodesOK' /\ OverlapOK' /\ RevokeOK'
       /\ CacheOK' /\ HashKeeps /\ req[p].kind \in {"none", "request"}
       /\ \A q \in Procs : q # p =>
            /\ req'[q].kind = req[q].kind /\ req'[q].pc = req[q].pc
            /\ req'[q].list = req[q].list /\ req'[q].ver = req[q].ver
            /\ req'[q].rec = req[q].rec
  <2>1. /\ UNCHANGED <<now, hash, index, minted, cache, used>> /\ lock' = lock
        /\ req[p].pc \in {"idle", "in"}
    BY <1>1, Zenon
  <2>2. /\ acct'.epoch = acct.epoch /\ acct'.ver = acct.ver /\ acct'.grants = acct.grants
        /\ (acct.crossed => acct'.crossed) /\ acct' \in Account
    BY <1>5, <1>6, Zenon
  <2>3. /\ n.kind = "revoke" => n.pc = "list" /\ (~n.late => Changing = {})
        /\ n.kind = "grant" => n.pc = "bump"
    BY <1>8, Zenon
  <2> QED BY ONLY IdentityInv, p \in Procs, n \in Request, <1>9, <1>10, <1>11, <2>1, <2>2, <2>3,
                  ChangeStarts, Zenon
<1>13. GrantOK'
  <2> SUFFICES ASSUME ~acct'.crossed
               PROVE  /\ \A a, q \in Granting' : a = q
                      /\ \A q \in Granting' : Bound(req[q])'
                      /\ \A s \in Sids : hash'[s].ver <= acct'.ver
                      /\ \A q \in Procs : req'[q].rec.ver <= acct'.ver
                      /\ \A s \in Sids : Current(s)' => Stamped(s)'
    BY Zenon DEF GrantOK
  <2>1. ~acct.crossed /\ Granting = {}
    BY <1>5, <1>6, Zenon
  <2>2. Granting' = {p}
    BY <1>8, <1>9, <1>12, <2>1 DEF Granting
  <2>3. Bound(req[p])'
    BY <1>6, <1>8, <1>9, Zenon DEF Bound, v
  <2>4. \A q \in Procs : req'[q].rec.ver <= acct'.ver
    BY <1>3, <1>6, <1>9, <1>11, <1>12, <2>1 DEF IdentityInv, GrantOK
  <2>5. \A s \in Sids : hash'[s].ver <= acct'.ver
    BY <1>1, <1>6, <2>1, Zenon DEF IdentityInv, GrantOK
  <2>6. ASSUME NEW s \in Sids, Current(s)' PROVE Stamped(s)'
    <3>1. Current(s) /\ hash'[s].ver = hash[s].ver
      BY <1>12, <2>6, CurrentKept, Zenon
    <3>2. Stamped(s)
      BY <2>1, <3>1, Zenon DEF IdentityInv, GrantOK
    <3> QED BY <1>6, <2>1, <3>1, <3>2, Zenon DEF Stamped
  <2> QED BY <2>2, <2>3, <2>4, <2>5, <2>6, Zenon
<1> QED BY <1>12, <1>13, Zenon DEF IdentityInv

-----------------------------------------------------------------------------
(* A grant change goes on *)

LEMMA GrantMoves ==
  ASSUME IdentityInv, NEW p \in Procs, NEW r \in Request, req' = [req EXCEPT ![p] = r],
         req[p].kind = "grant", r.kind \in {"grant", "none"}, RequestOK(p)', HashKeeps,
         UNCHANGED <<now, lock, minted, used>>, acct' \in Account, acct'.epoch = acct.epoch,
         acct'.crossed = acct.crossed, hash' \in [Sids -> SessionRecord], index' \subseteq Sids,
         cache' \in [0 .. MaxVersion -> [codes : SUBSET Codes, exp : Nat]]
  PROVE  /\ IdentityTypeOK' /\ RequestsOK' /\ StoreOK' /\ CodesOK' /\ OverlapOK' /\ RevokeOK'
         /\ req'[p] = r /\ \A q \in Procs : q # p => req'[q] = req[q]
<1>1. req'[p] = r /\ \A q \in Procs : q # p => req'[q] = req[q]
  BY Zenon DEF IdentityInv, IdentityTypeOK
<1>2. IdentityTypeOK' /\ RequestOK(p)
  BY Zenon DEF IdentityInv, IdentityTypeOK, RequestsOK
<1>3. RequestsOK'
  <2>1. RequestsOK /\ lock' = lock
    BY Zenon DEF IdentityInv
  <2> QED BY ONLY p \in Procs, RequestOK(p)', <1>1, <2>1, OthersOK, Zenon
<1>4. StoreOK'
  BY StoreFrame, Zenon DEF IdentityInv
<1>5. r.pc \in {"idle", "bump", "stamp", "stamping", "invalidate"} /\ ~Minter(r)
  BY <1>1, Zenon DEF RequestOK, Minter
<1>6. CodesOK'
  <2>1. \A q \in Procs : Carries(q)' => Carries(q) /\ req'[q].rec.code = req[q].rec.code
    BY <1>1, <1>5, Zenon DEF Carries
  <2> QED BY <2>1, CodesFrame, Zenon DEF IdentityInv
<1>7. OverlapOK'
  <2>1. ASSUME NEW q \in Minting', ~req'[q].late PROVE FALSE
    <3>1. q \in Procs /\ q # p
      BY <1>1, <1>5, <2>1, Zenon DEF Minting, Minter
    <3>2. q \in Minting /\ ~req[q].late
      BY <1>1, <2>1, <3>1, Zenon DEF Minting
    <3>3. p \in Changing
      BY Zenon DEF Changing
    <3> QED BY <3>1, <3>2, <3>3, Zenon DEF IdentityInv, OverlapOK
  <2> QED BY <2>1, Zenon DEF OverlapOK
<1>8. RevokeOK'
  <2>1. \A q \in Procs : req'[q].kind = "revoke" => req'[q] = req[q]
    BY <1>1, Zenon
  <2> QED BY <2>1, RevokeFrame, Zenon DEF IdentityInv
<1> QED BY <1>1, <1>2, <1>3, <1>4, <1>6, <1>7, <1>8, Zenon

(* The new version is one nobody has cached anything under.                 *)
LEMMA CommitGrantKeeps ==
  ASSUME IdentityInv, NEW p \in Procs, CommitGrant(p)
  PROVE  IdentityInv'
<1> DEFINE g == req[p].grant
           w == IF g \in acct.grants THEN acct.grants \ {g} ELSE acct.grants \cup {g}
           r == [req[p] EXCEPT !.pc = "stamp"]
<1>1. /\ req[p].pc = "bump" /\ acct' = [acct EXCEPT !.ver = req[p].ver, !.grants = w]
      /\ Goto(p, "stamp") /\ UNCHANGED <<now, lock, hash, index, minted, cache, used>>
  BY Zenon DEF CommitGrant
<1>2. IdentityTypeOK /\ RequestOK(p) /\ req[p] \in Request /\ acct \in Account
  BY Zenon DEF IdentityInv, RequestsOK, IdentityTypeOK
<1>3. req[p].kind = "grant" /\ g \in Grants /\ req[p].ver \in 0 .. MaxVersion
  BY <1>1, <1>2, Zenon DEF RequestOK, Request
<1>4. w \in SUBSET DOMAIN GrantOf
  BY <1>2, <1>3, IdentityAssumption, ZenonT(60) DEF Account
<1> HIDE DEF w, g
<1>5. /\ acct' \in Account /\ acct'.ver = req[p].ver /\ acct'.epoch = acct.epoch
      /\ acct'.crossed = acct.crossed
  BY <1>1, <1>2, <1>3, <1>4, Zenon DEF Account
<1>6. /\ r \in Request /\ r.kind = "grant" /\ r.pc = "stamp" /\ r.ver = req[p].ver
      /\ r.grant = req[p].grant /\ r.rec = req[p].rec /\ r.list = req[p].list
  BY <1>2, <1>3, Zenon DEF Request
<1>7. req' = [req EXCEPT ![p] = r] /\ req'[p] = r
  BY <1>1, <1>2, Zenon DEF Goto, IdentityTypeOK
<1> HIDE DEF r
<1>8. RequestOK(p)'
  BY <1>3, <1>6, <1>7, Zenon DEF RequestOK, g
<1>9. HashKeeps
  BY <1>1, UnchangedKeeps, Zenon
<1>10. /\ IdentityTypeOK' /\ RequestsOK' /\ StoreOK' /\ CodesOK' /\ OverlapOK' /\ RevokeOK'
       /\ \A q \in Procs : q # p => req'[q] = req[q]
  <2>1. /\ hash' \in [Sids -> SessionRecord] /\ index' \subseteq Sids
        /\ cache' \in [0 .. MaxVersion -> [codes : SUBSET Codes, exp : Nat]]
    BY <1>1, <1>2, Zenon DEF IdentityTypeOK
  <2> QED BY <1>1, <1>3, <1>5, <1>6, <1>7, <1>8, <1>9, <2>1, GrantMoves, Zenon
<1>11. acct.ver \in Nat
  BY <1>2 DEF Account
<1>12. ~acct.crossed => Granting = {p} /\ Bound(req[p])
  BY <1>3, Zenon DEF IdentityInv, GrantOK, Granting
<1>13. ~acct.crossed => acct'.ver = acct.ver + 1
  BY <1>1, <1>5, <1>12, Zenon DEF Bound
<1>14. GrantOK'
  <2> SUFFICES ASSUME ~acct.crossed
               PROVE  /\ \A a, q \in Granting' : a = q
                      /\ \A q \in Granting' : Bound(req[q])'
                      /\ \A s \in Sids : hash'[s].ver <= acct'.ver
                      /\ \A q \in Procs : req'[q].rec.ver <= acct'.ver
                      /\ \A s \in Sids : Current(s)' => Stamped(s)'
    BY <1>5, Zenon DEF GrantOK
  <2>1. Granting' = {p}
    BY <1>6, <1>7, <1>10, <1>12, Zenon DEF Granting
  <2>2. Bound(req[p])'
    BY <1>5, <1>6, <1>7, Zenon DEF Bound
  <2>3. \A v \in 0 .. MaxVersion : v <= acct.ver => v <= acct'.ver
    BY <1>11, <1>13
  <2>4. \A s \in Sids : hash'[s].ver <= acct'.ver
    <3>1. \A s \in Sids : hash[s].ver \in 0 .. MaxVersion
      BY <1>2, Zenon DEF IdentityTypeOK, SessionRecord
    <3> QED BY <1>1, <2>3, <3>1, Zenon DEF IdentityInv, GrantOK
  <2>5. \A q \in Procs : req'[q].rec.ver <= acct'.ver
    <3>1. \A q \in Procs : req[q].rec.ver \in 0 .. MaxVersion
      BY <1>2, Zenon DEF IdentityTypeOK, Request, SessionRecord
    <3>2. \A q \in Procs : req'[q].rec = req[q].rec
      BY <1>6, <1>7, <1>10, Zenon
    <3> QED BY <2>3, <3>1, <3>2, Zenon DEF IdentityInv, GrantOK
  <2>6. \A s \in Sids : Stamped(s)'
    BY <1>6, <1>7, <2>1, Zenon DEF Stamped
  <2> QED BY <2>1, <2>2, <2>4, <2>5, <2>6, Zenon
<1>15. CacheOK'
  <2> SUFFICES ASSUME ~acct.crossed
               PROVE  /\ \A v \in 0 .. MaxVersion : v > acct'.ver => cache'[v].exp = 0
                      /\ ~(cache'[acct'.ver].exp > 0)
                      /\ \A q \in Procs : ~(req'[q].pc = "store" /\ req'[q].rec.ver = acct'.ver)
    BY <1>5, Zenon DEF CacheOK
  <2>1. acct'.ver \in 0 .. MaxVersion
    BY <1>5, Zenon DEF Account
  <2>2. \A v \in 0 .. MaxVersion : v > acct.ver => cache[v].exp = 0
    BY Zenon DEF IdentityInv, CacheOK
  <2>3. \A v \in 0 .. MaxVersion : v >= acct'.ver => cache[v].exp = 0
    BY <1>11, <1>13, <2>2
  <2>4. \A q \in Procs : req'[q].rec.ver # acct'.ver
    <3>1. \A q \in Procs : req[q].rec.ver \in 0 .. MaxVersion /\ req[q].rec.ver <= acct.ver
      BY <1>2, Zenon DEF IdentityTypeOK, Request, SessionRecord, IdentityInv, GrantOK
    <3>2. \A q \in Procs : req'[q].rec = req[q].rec
      BY <1>6, <1>7, <1>10, Zenon
    <3> QED BY <1>11, <1>13, <3>1, <3>2
  <2> QED BY <1>1, <2>1, <2>3, <2>4
<1> QED BY <1>10, <1>14, <1>15, Zenon DEF IdentityInv

(* Every standing session is in the index, so it is listed to be stamped.   *)
LEMMA ListForStampKeeps ==
  ASSUME IdentityInv, NEW p \in Procs, ListForStamp(p)
  PROVE  IdentityInv'
<1> DEFINE r == [req[p] EXCEPT !.pc = "stamping", !.list = Pruned]
<1>1. /\ req[p].pc = "stamp" /\ index' = Pruned /\ req' = [req EXCEPT ![p] = r]
      /\ UNCHANGED <<now, acct, lock, hash, minted, cache, used>>
  BY Zenon DEF ListForStamp, Become
<1>2. IdentityTypeOK /\ RequestOK(p) /\ req[p] \in Request /\ acct' \in Account
  BY <1>1, Zenon DEF IdentityInv, RequestsOK, IdentityTypeOK
<1>3. req[p].kind = "grant" /\ req[p].grant \in Grants /\ Pruned \in SUBSET Sids
  BY <1>1, <1>2, Zenon DEF RequestOK, Request, Pruned, IdentityTypeOK
<1>4. /\ r \in Request /\ r.kind = "grant" /\ r.pc = "stamping" /\ r.ver = req[p].ver
      /\ r.grant = req[p].grant /\ r.rec = req[p].rec /\ r.list = Pruned
  BY <1>2, <1>3, Zenon DEF Request
<1> HIDE DEF r
<1>5. req'[p] = r
  BY <1>1, <1>2, Zenon DEF IdentityTypeOK
<1>6. RequestOK(p)'
  BY <1>3, <1>4, <1>5, Zenon DEF RequestOK
<1>7. HashKeeps /\ hash' \in [Sids -> SessionRecord] /\ index' \subseteq Sids
  BY <1>1, <1>2, PruneKeeps, Zenon
<1>8. /\ IdentityTypeOK' /\ RequestsOK' /\ StoreOK' /\ CodesOK' /\ OverlapOK' /\ RevokeOK'
      /\ \A q \in Procs : q # p => req'[q] = req[q]
  <2>1. cache' \in [0 .. MaxVersion -> [codes : SUBSET Codes, exp : Nat]]
    BY <1>1, <1>2, Zenon DEF IdentityTypeOK
  <2> QED BY <1>1, <1>2, <1>3, <1>4, <1>6, <1>7, <2>1, GrantMoves, Zenon
<1>9. GrantOK'
  <2> SUFFICES ASSUME ~acct.crossed
               PROVE  /\ \A a, q \in Granting' : a = q
                      /\ \A q \in Granting' : Bound(req[q])'
                      /\ \A s \in Sids : hash'[s].ver <= acct'.ver
                      /\ \A q \in Procs : req'[q].rec.ver <= acct'.ver
                      /\ \A s \in Sids : Current(s)' => Stamped(s)'
    BY <1>1, Zenon DEF GrantOK
  <2>1. Granting = {p} /\ Bound(req[p])
    BY <1>3, Zenon DEF IdentityInv, GrantOK, Granting
  <2>2. Granting' = {p}
    BY <1>4, <1>5, <1>8, <2>1, Zenon DEF Granting
  <2>3. Bound(req[p])'
    BY <1>1, <1>4, <1>5, <2>1, Zenon DEF Bound
  <2>4. \A s \in Sids : hash'[s].ver <= acct'.ver
    BY <1>1, Zenon DEF IdentityInv, GrantOK
  <2>5. \A q \in Procs : req'[q].rec.ver <= acct'.ver
    BY <1>1, <1>4, <1>5, <1>8, ZenonT(60) DEF IdentityInv, GrantOK
  <2>6. ASSUME NEW s \in Sids, Current(s)' PROVE Stamped(s)'
    <3>1. Current(s) /\ s \in Pruned
      BY <1>7, <2>6, CurrentKept, Zenon DEF Current, Stands, Pruned, IdentityInv, StoreOK
    <3> QED BY <1>4, <1>5, <2>2, <3>1, Zenon DEF Stamped
  <2> QED BY <2>2, <2>3, <2>4, <2>5, <2>6, Zenon
<1>10. CacheOK'
  <2>1. \A q \in Procs : req'[q].pc = "store" => req'[q] = req[q]
    BY <1>4, <1>5, <1>8, Zenon
  <2> QED BY <1>1, <2>1, CacheFrame, Zenon DEF IdentityInv
<1> QED BY <1>8, <1>9, <1>10, Zenon DEF IdentityInv

(* Stamping changes a session's version and nothing else the invariant      *)
(* sees of it.                                                              *)
LEMMA SetPermissionsVersionKeeps ==
  ASSUME IdentityInv, NEW p \in Procs, SetPermissionsVersion(p)
  PROVE  IdentityInv'
<1> DEFINE r == [req[p] EXCEPT !.pc = "invalidate"]
<1>1. /\ req[p].pc = "stamping" /\ Goto(p, "invalidate")
      /\ UNCHANGED <<now, acct, lock, index, minted, cache, used>>
      /\ hash' = [s \in Sids |-> IF s \in req[p].list /\ Exists(s)
                                 THEN [hash[s] EXCEPT !.ver = req[p].ver] ELSE hash[s]]
  BY Zenon DEF SetPermissionsVersion
<1>2. IdentityTypeOK /\ RequestOK(p) /\ req[p] \in Request
  BY Zenon DEF IdentityInv, RequestsOK, IdentityTypeOK
<1>3. req[p].kind = "grant" /\ req[p].grant \in Grants /\ req[p].ver \in 0 .. MaxVersion
  BY <1>1, <1>2, Zenon DEF RequestOK, Request
<1>4. /\ r \in Request /\ r.kind = "grant" /\ r.pc = "invalidate" /\ r.ver = req[p].ver
      /\ r.grant = req[p].grant /\ r.rec = req[p].rec
  BY <1>2, <1>3, Zenon DEF Request
<1>5. /\ req' = [req EXCEPT ![p] = r] /\ req'[p] = r
      /\ \A q \in Procs : q # p => req'[q] = req[q]
  BY <1>1, <1>2, Zenon DEF Goto, IdentityTypeOK
<1> HIDE DEF r
<1>6. ASSUME NEW s \in Sids
      PROVE  /\ hash'[s] \in SessionRecord /\ hash'[s].kind = hash[s].kind
             /\ hash'[s].created = hash[s].created /\ hash'[s].login = hash[s].login
             /\ hash'[s].epoch = hash[s].epoch /\ hash'[s].late = hash[s].late
             /\ hash'[s].code = hash[s].code
             /\ hash'[s].ver = IF s \in req[p].list /\ Exists(s) THEN req[p].ver ELSE hash[s].ver
  <2>1. hash[s] \in SessionRecord
    BY <1>2, Zenon DEF IdentityTypeOK
  <2>2. CASE s \in req[p].list /\ Exists(s)
    <3>1. hash'[s] = [hash[s] EXCEPT !.ver = req[p].ver]
      BY <1>1, <2>2, Zenon
    <3> QED BY <1>3, <2>1, <2>2, <3>1, Zenon DEF SessionRecord
  <2>3. CASE ~(s \in req[p].list /\ Exists(s))
    BY <1>1, <2>1, <2>3, Zenon
  <2> QED BY <2>2, <2>3, Zenon
<1>7. \A s \in Sids : (Stands(s)' <=> Stands(s)) /\ (Current(s)' <=> Current(s))
  BY <1>6, Zenon DEF Stands, Exists, Current
<1>8. IdentityTypeOK'
  <2>1. hash' \in [Sids -> SessionRecord]
    BY <1>1, <1>6, Zenon
  <2> QED BY <1>1, <1>2, <1>4, <1>5, <2>1, Zenon DEF IdentityTypeOK
<1>9. RequestsOK'
  <2>1. RequestOK(p)'
    BY <1>3, <1>4, <1>5, Zenon DEF RequestOK
  <2>2. RequestsOK /\ lock' = lock
    BY <1>1, Zenon DEF IdentityInv
  <2> QED BY ONLY p \in Procs, <1>5, <2>1, <2>2, OthersOK, Zenon
<1>10. StoreOK'
  BY <1>1, <1>6, <1>7, ZenonT(60) DEF IdentityInv, StoreOK
<1>11. CodesOK'
  <2>1. \A q \in Procs : Carries(q)' => Carries(q) /\ req'[q].rec.code = req[q].rec.code
    BY <1>4, <1>5, Zenon DEF Carries
  <2>2. \A c : Spent(c)' <=> Spent(c)
    BY <1>1, Zenon DEF Spent
  <2>3. \A s \in Sids : hash'[s].code # None => Spent(hash[s].code)'
    BY <1>6, <2>2, Zenon DEF IdentityInv, CodesOK
  <2>4. \A q \in Procs : Carries(q)' => Spent(req[q].rec.code)'
    BY <2>1, <2>2, Zenon DEF IdentityInv, CodesOK
  <2>5. CodesOK /\ \A s \in Sids : hash'[s].code = hash[s].code
    BY <1>6, Zenon DEF IdentityInv
  <2>6. \A s, t \in Sids : hash'[s].code # None /\ hash'[s].code = hash'[t].code => s = t
    BY ONLY <2>5, ZenonT(40) DEF CodesOK
  <2>7. \A a, b \in Procs :
          Carries(a)' /\ Carries(b)' /\ req'[a].rec.code = req'[b].rec.code => a = b
    BY ONLY <2>1, <2>5, Zenon DEF CodesOK
  <2>8. \A q \in Procs, s \in Sids : Carries(q)' => hash'[s].code # req'[q].rec.code
    BY ONLY <2>1, <2>5, Zenon DEF CodesOK
  <2> QED BY ONLY <2>3, <2>4, <2>6, <2>7, <2>8, Zenon DEF CodesOK
<1>12. OverlapOK'
  <2>1. Changing' = Changing
    BY <1>3, <1>4, <1>5, Zenon DEF Changing
  <2>2. \A q \in Procs : q \in Minting' /\ ~req'[q].late =>
          /\ q \in Minting /\ ~req[q].late
          /\ HasRead(req'[q]) => HasRead(req[q]) /\ req'[q].rec.epoch = req[q].rec.epoch
                                /\ req'[q].rec.ver = req[q].rec.ver
    BY <1>4, <1>5, Zenon DEF Minting, HasRead
  <2> QED BY <1>1, <2>1, <2>2, OverlapFrame, Zenon DEF IdentityInv
<1>13. RevokeOK'
  <2> SUFFICES ASSUME NEW s \in Sids, Current(s)'
               PROVE  hash'[s].epoch >= acct'.epoch /\ \A q \in Procs : Facing(s, req[q])'
    BY Zenon DEF RevokeOK
  <2>1. hash[s].epoch >= acct.epoch /\ \A q \in Procs : Facing(s, req[q])
    BY <1>7, Zenon DEF IdentityInv, RevokeOK
  <2>2. hash'[s].epoch = hash[s].epoch
    BY <1>6, Zenon
  <2>3. ASSUME NEW q \in Procs PROVE Facing(s, req[q])'
    BY <1>1, <1>4, <1>5, <2>1, <2>2, ZenonT(60) DEF Facing
  <2> QED BY <1>1, <2>1, <2>2, <2>3, Zenon
<1>14. GrantOK'
  <2> SUFFICES ASSUME ~acct.crossed
               PROVE  /\ \A a, q \in Granting' : a = q
                      /\ \A q \in Granting' : Bound(req[q])'
                      /\ \A s \in Sids : hash'[s].ver <= acct'.ver
                      /\ \A q \in Procs : req'[q].rec.ver <= acct'.ver
                      /\ \A s \in Sids : Current(s)' => Stamped(s)'
    BY <1>1, Zenon DEF GrantOK
  <2>1. Granting = {p} /\ Bound(req[p])
    BY <1>3, Zenon DEF IdentityInv, GrantOK, Granting
  <2>2. Granting' = {p}
    BY <1>4, <1>5, <2>1, Zenon DEF Granting
  <2>3. req[p].ver = acct.ver /\ acct.ver \in Nat
    BY <1>1, <1>2, <2>1 DEF Bound, IdentityTypeOK, Account
  <2>4. Bound(req[p])'
    BY <1>1, <1>4, <1>5, <2>3, Zenon DEF Bound
  <2>5. \A s \in Sids : hash'[s].ver <= acct'.ver
    <3>1. \A s \in Sids : hash[s].ver <= acct.ver
      BY Zenon DEF IdentityInv, GrantOK
    <3>2. acct.ver <= acct.ver
      BY <2>3
    <3> QED BY <1>1, <1>6, <2>3, <3>1, <3>2, Zenon
  <2>6. \A q \in Procs : req'[q].rec.ver <= acct'.ver
    BY <1>1, <1>4, <1>5, Zenon DEF IdentityInv, GrantOK
  <2>7. ASSUME NEW s \in Sids, Current(s)' PROVE Stamped(s)'
    <3>1. Current(s) /\ Exists(s)
      BY <1>7, <2>7, Zenon DEF Current, Stands
    <3>2. hash[s].ver = acct.ver \/ s \in req[p].list
      BY <1>1, <2>1, <3>1, Zenon DEF IdentityInv, GrantOK, Stamped
    <3>3. hash'[s].ver = acct.ver
      BY <1>6, <2>3, <3>1, <3>2, Zenon
    <3> QED BY <1>1, <3>3, Zenon DEF Stamped
  <2> QED BY <2>2, <2>4, <2>5, <2>6, <2>7, Zenon
<1>15. CacheOK'
  <2>1. \A q \in Procs : req'[q].pc = "store" => req'[q] = req[q]
    BY <1>4, <1>5, Zenon
  <2> QED BY <1>1, <2>1, CacheFrame, Zenon DEF IdentityInv
<1> QED BY <1>8, <1>9, <1>10, <1>11, <1>12, <1>13, <1>14, <1>15, Zenon DEF IdentityInv

LEMMA InvalidateOldKeeps ==
  ASSUME IdentityInv, NEW p \in Procs, InvalidateOld(p)
  PROVE  IdentityInv'
<1>1. /\ req[p].pc = "invalidate" /\ cache' = [cache EXCEPT ![req[p].ver - 1] = NoEntry]
      /\ req' = [req EXCEPT ![p] = NoRequest]
      /\ UNCHANGED <<now, acct, lock, hash, index, minted, used>>
  BY Zenon DEF InvalidateOld, Answer, Become
<1>2. IdentityTypeOK /\ RequestOK(p) /\ req[p] \in Request /\ acct' \in Account
  BY <1>1, Zenon DEF IdentityInv, RequestsOK, IdentityTypeOK
<1>3. req[p].kind = "grant"
  BY <1>1, <1>2, Zenon DEF RequestOK, Request
<1>4. /\ NoRequest.kind = "none" /\ NoRequest.pc = "idle" /\ NoRequest.rec.ver = 0
      /\ NoEntry.exp = 0 /\ NoEntry \in [codes : SUBSET Codes, exp : Nat]
  BY Zenon DEF NoRequest, NoHash, NoEntry
<1>5. HashKeeps /\ hash' \in [Sids -> SessionRecord] /\ index' \subseteq Sids
  BY <1>1, <1>2, PruneKeeps, Zenon
<1>6. req'[p] = NoRequest
  BY <1>1, <1>2, Zenon DEF IdentityTypeOK
<1>7. RequestOK(p)'
  BY <1>4, <1>6, Zenon DEF RequestOK
<1>8. \A v \in 0 .. MaxVersion : cache'[v] = IF v = req[p].ver - 1 THEN NoEntry ELSE cache[v]
  BY <1>1, <1>2, Zenon DEF IdentityTypeOK
<1>9. cache' \in [0 .. MaxVersion -> [codes : SUBSET Codes, exp : Nat]]
  BY <1>1, <1>2, <1>4, Zenon DEF IdentityTypeOK
<1>10. /\ IdentityTypeOK' /\ RequestsOK' /\ StoreOK' /\ CodesOK' /\ OverlapOK' /\ RevokeOK'
       /\ \A q \in Procs : q # p => req'[q] = req[q]
  BY <1>1, <1>2, <1>3, <1>4, <1>5, <1>7, <1>9, NoRequestType, GrantMoves, Zenon
<1>11. acct.ver \in 0 .. MaxVersion
  BY <1>2, Zenon DEF IdentityTypeOK, Account
<1>12. ~acct.crossed => Granting = {p} /\ req[p].ver = acct.ver
  BY <1>1, <1>3, Zenon DEF IdentityInv, GrantOK, Granting, Bound
<1>13. GrantOK'
  <2> SUFFICES ASSUME ~acct.crossed
               PROVE  /\ Granting' = {}
                      /\ \A s \in Sids : hash'[s].ver <= acct'.ver
                      /\ \A q \in Procs : req'[q].rec.ver <= acct'.ver
                      /\ \A s \in Sids : Current(s)' => Stamped(s)'
    BY <1>1, Zenon DEF GrantOK
  <2>1. Granting' = {}
    BY <1>4, <1>6, <1>10, <1>12 DEF Granting
  <2>2. \A s \in Sids : hash'[s].ver <= acct'.ver
    BY <1>1, Zenon DEF IdentityInv, GrantOK
  <2>3. \A q \in Procs : req'[q].rec.ver <= acct'.ver
    <3>1. acct' = acct /\ \A q \in Procs : req[q].rec.ver <= acct.ver
      BY <1>1, Zenon DEF IdentityInv, GrantOK
    <3> QED BY ONLY <1>4, <1>6, <1>10, <1>11, <3>1
  <2>4. ASSUME NEW s \in Sids, Current(s)' PROVE Stamped(s)'
    <3>1. Current(s) /\ hash'[s].ver = hash[s].ver
      BY <1>5, <2>4, CurrentKept, Zenon
    <3>2. hash[s].ver = acct.ver
      BY <1>1, <1>12, <3>1, Zenon DEF IdentityInv, GrantOK, Stamped
    <3> QED BY <1>1, <3>1, <3>2, Zenon DEF Stamped
  <2> QED BY <2>1, <2>2, <2>3, <2>4, Zenon
<1>14. CacheOK'
  <2>1. \A t : EffectivePermissions(t)' = EffectivePermissions(t)
    BY <1>1, Zenon DEF EffectivePermissions, InForce
  <2>2. \A y : CacheTtl(y)' = CacheTtl(y)
    BY <1>1, Zenon DEF CacheTtl
  <2>3. \A y, u : Holds(y, u)' <=> Holds(y, u)
    BY <1>1, <2>1, Zenon DEF Holds
  <2> SUFFICES ASSUME ~acct.crossed
               PROVE  /\ \A w \in 0 .. MaxVersion : w > acct.ver => cache'[w].exp = 0
                      /\ cache'[acct.ver].exp > 0 =>
                           /\ cache'[acct.ver].exp > now
                           /\ Holds(cache'[acct.ver].codes, cache'[acct.ver].exp)
                      /\ \A q \in Procs : req'[q].pc = "store" /\ req'[q].rec.ver = acct.ver =>
                           Holds(req'[q].codes, now + CacheTtl(req'[q].edge))
    BY <1>1, <2>2, <2>3, Zenon DEF CacheOK
  <2>4. cache'[acct.ver] = cache[acct.ver]
    <3>1. acct.ver # req[p].ver - 1
      BY <1>11, <1>12
    <3> QED BY <1>8, <1>11, <3>1, Zenon
  <2>5. \A w \in 0 .. MaxVersion : w > acct.ver => cache'[w].exp = 0
    BY <1>4, <1>8, Zenon DEF IdentityInv, CacheOK
  <2> QED BY <1>4, <1>6, <1>10, <2>4, <2>5, Zenon DEF IdentityInv, CacheOK
<1> QED BY <1>10, <1>13, <1>14, Zenon DEF IdentityInv

-----------------------------------------------------------------------------
(* The clock *)

(* A consumed code is forgotten only when it is too old to be given again,  *)
(* a cached entry before it stops being in force.                           *)
LEMMA TickKeeps ==
  ASSUME IdentityInv, Tick
  PROVE  IdentityInv'
<1>1. /\ now < MaxNow /\ now' = now + 1 /\ \A p \in Procs : req[p].pc # "store"
      /\ UNCHANGED <<acct, lock, index, minted, req>>
      /\ \A s \in Sids : hash'[s] \in {hash[s], NoHash}
      /\ hash' = [s \in Sids |-> hash'[s]]
      /\ cache' = [v \in DOMAIN cache |-> IF cache[v].exp > now + 1 /\ cache[v].exp > 0
                                          THEN cache[v] ELSE NoEntry]
      /\ used' = [c \in DOMAIN used |-> IF used[c] > now + 1 THEN used[c] ELSE 0]
  <2>1. /\ now < MaxNow /\ now' = now + 1 /\ \A p \in Procs : req[p].pc # "store"
        /\ UNCHANGED <<acct, lock, index, minted, req>>
        /\ used' = [c \in DOMAIN used |-> IF used[c] > now + 1 THEN used[c] ELSE 0]
    BY Zenon DEF Tick
  <2>2. hash' = [s \in Sids |-> IF (IF hash[s].exp > now + 1 THEN hash[s].exp ELSE 0) > 0
                                THEN hash[s] ELSE NoHash]
    BY Zenon DEF Tick
  <2>3. cache' = [v \in DOMAIN cache |->
                    IF (IF cache[v].exp > now + 1 THEN cache[v].exp ELSE 0) > 0
                    THEN cache[v] ELSE NoEntry]
    BY Zenon DEF Tick
  <2>4. \A v : (IF cache[v].exp > now + 1 THEN cache[v].exp ELSE 0) > 0
               <=> cache[v].exp > now + 1 /\ cache[v].exp > 0
    <3>1. ~(0 > 0)
      OBVIOUS
    <3> QED BY <3>1, Zenon
  <2> QED BY <2>1, <2>2, <2>3, <2>4, Zenon
<1>2. IdentityTypeOK /\ now \in Nat /\ MaxNow \in Nat /\ ValidWindow \in Nat
  <2>1. MaxNow \in Nat /\ ValidWindow \in Nat
    BY ONLY IdentityAssumption, Zenon
  <2>2. IdentityTypeOK /\ now \in Nat
    BY ONLY IdentityInv DEF IdentityInv, IdentityTypeOK
  <2> QED BY <2>1, <2>2, Zenon
<1>3. NoEntry.exp = 0 /\ NoEntry \in [codes : SUBSET Codes, exp : Nat]
  BY Zenon DEF NoEntry
<1>4. \A v \in 0 .. MaxVersion :
        cache'[v] = IF cache[v].exp > now + 1 /\ cache[v].exp > 0 THEN cache[v] ELSE NoEntry
  BY <1>1, <1>2, Zenon DEF IdentityTypeOK
<1>5. IdentityTypeOK'
  <2>1. hash' \in [Sids -> SessionRecord]
    BY <1>1, <1>2, NoHashType, Zenon DEF IdentityTypeOK
  <2>2. cache' \in [0 .. MaxVersion -> [codes : SUBSET Codes, exp : Nat]]
    BY <1>1, <1>2, <1>3, Zenon DEF IdentityTypeOK
  <2>3. used' \in [0 .. MaxNow -> Nat]
    BY <1>1, <1>2, Zenon DEF IdentityTypeOK
  <2>4. now' \in 0 .. MaxNow
    BY <1>1, <1>2
  <2> QED BY <1>1, <1>2, <2>1, <2>2, <2>3, <2>4, Zenon DEF IdentityTypeOK
<1>6. HashKeeps
  <2>1. Over(NoHash)
    BY Zenon DEF Over, NoHash
  <2> QED BY <1>1, <2>1, Zenon DEF HashKeeps, Kept
<1>7. RequestsOK'
  BY <1>1, ZenonT(40) DEF IdentityInv, RequestsOK, RequestOK
<1>8. StoreOK'
  BY <1>6, StoreFrame, Zenon DEF IdentityInv
<1>9. CodesOK'
  <2>1. ASSUME NEW c \in 0 .. MaxNow, Spent(c) PROVE Spent(c)'
    <3>1. used[c] \in Nat /\ c \in Nat /\ used'[c] = IF used[c] > now + 1 THEN used[c] ELSE 0
      BY <1>1, <1>2 DEF IdentityTypeOK
    <3>2. CASE used[c] > c + ValidWindow + 1 /\ used[c] > now + 1
      BY <3>1, <3>2, Zenon DEF Spent
    <3>3. CASE used[c] > c + ValidWindow + 1 /\ ~(used[c] > now + 1)
      <4>1. now + 1 > c + ValidWindow
        BY <1>2, <3>1, <3>3
      <4> QED BY <1>1, <4>1, Zenon DEF Spent
    <3>4. CASE now > c + ValidWindow
      <4>1. now + 1 > c + ValidWindow
        BY <1>2, <3>1, <3>4
      <4> QED BY <1>1, <4>1, Zenon DEF Spent
    <3> QED BY <2>1, <3>2, <3>3, <3>4, Zenon DEF Spent
  <2>2. \A q \in Procs : Carries(q)' => Carries(q) /\ req'[q].rec.code = req[q].rec.code
    BY <1>1, Zenon DEF Carries
  <2> QED BY <1>6, <2>1, <2>2, CodesMove, Zenon DEF IdentityInv
<1>10. OverlapOK'
  BY <1>1, Zenon DEF IdentityInv, OverlapOK, Changing, Minting, HasRead
<1>11. RevokeOK'
  <2>1. \A q \in Procs : req'[q] = req[q]
    BY <1>1, Zenon
  <2> QED BY <1>1, <1>6, <2>1, RevokeFrame, Zenon DEF IdentityInv
<1>12. GrantOK'
  <2>1. acct.ver \in Nat
    BY <1>2 DEF IdentityTypeOK, Account
  <2>2. ~acct.crossed => \A q \in Procs : req'[q].rec.ver <= acct.ver
    BY <1>1, Zenon DEF IdentityInv, GrantOK
  <2> QED BY <1>1, <1>6, <2>1, <2>2, GrantFrame, Zenon DEF IdentityInv
<1>13. CacheOK'
  <2> DEFINE v == acct.ver
  <2> SUFFICES ASSUME ~acct.crossed
               PROVE  /\ \A w \in 0 .. MaxVersion : w > v => cache'[w].exp = 0
                      /\ cache'[v].exp > 0 =>
                           cache'[v].exp > now' /\ Holds(cache[v].codes, cache[v].exp)'
    BY <1>1, Zenon DEF CacheOK
  <2>1. v \in 0 .. MaxVersion
    BY <1>2, Zenon DEF IdentityTypeOK, Account
  <2>2. \A w \in 0 .. MaxVersion : w > v => cache'[w].exp = 0
    BY <1>3, <1>4, Zenon DEF IdentityInv, CacheOK
  <2>3. ASSUME cache'[v].exp > 0
        PROVE  cache'[v].exp > now' /\ Holds(cache[v].codes, cache[v].exp)'
    <3>1. cache'[v] = cache[v] /\ cache[v].exp > now + 1 /\ cache[v].exp > 0
      BY <1>3, <1>4, <2>1, <2>3
    <3>2. Holds(cache[v].codes, cache[v].exp)
      BY <3>1, Zenon DEF IdentityInv, CacheOK
    <3>3. \A t : EffectivePermissions(t)' = EffectivePermissions(t)
      BY <1>1, Zenon DEF EffectivePermissions, InForce
    <3>4. \A t \in Nat : now + 1 <= t => now <= t
      BY <1>2
    <3>5. acct'.ver = v
      BY <1>1, Zenon
    <3> QED BY <1>1, <3>1, <3>2, <3>3, <3>4, <3>5, Zenon DEF Holds
  <2> QED BY <2>2, <2>3, Zenon
<1> QED BY <1>5, <1>7, <1>8, <1>9, <1>10, <1>11, <1>12, <1>13, Zenon DEF IdentityInv

-----------------------------------------------------------------------------
(* The invariant, and what it says *)

LEMMA InvNext == IdentityInv /\ [Next]_vars => IdentityInv'
<1> SUFFICES ASSUME IdentityInv, [Next]_vars
             PROVE  IdentityInv'
  BY Zenon
<1>1. CASE Tick
  BY <1>1, TickKeeps, Zenon
<1>2. CASE UNCHANGED vars
  <2>1. /\ UNCHANGED <<now, acct, lock, index, minted, req, hash, cache, used>>
        /\ HashKeeps /\ AccountKeeps /\ IdentityTypeOK
    BY <1>2, UnchangedKeeps, Zenon DEF vars, AccountKeeps, IdentityInv
  <2>2. IdentityTypeOK'
    BY <2>1, Zenon DEF IdentityTypeOK
  <2>3. RequestsOK' /\ StoreOK'
    BY <2>1, ZenonT(60) DEF IdentityInv, RequestsOK, RequestOK, StoreOK, Stands, Exists
  <2>4. CodesOK'
    <3>1. \A q \in Procs : Carries(q)' => Carries(q) /\ req'[q].rec.code = req[q].rec.code
      BY <2>1, Zenon DEF Carries
    <3> QED BY <2>1, <3>1, CodesFrame, Zenon DEF IdentityInv
  <2>5. OverlapOK'
    BY <2>1, Zenon DEF IdentityInv, OverlapOK, Changing, Minting, HasRead
  <2>6. RevokeOK'
    BY <2>1, RevokeFrame, Zenon DEF IdentityInv
  <2>7. GrantOK'
    <3>1. acct.ver \in Nat
      BY <2>1 DEF IdentityTypeOK, Account
    <3>2. ~acct.crossed => \A q \in Procs : req'[q].rec.ver <= acct.ver
      BY <2>1, Zenon DEF IdentityInv, GrantOK
    <3> QED BY <2>1, <3>1, <3>2, GrantFrame, Zenon DEF IdentityInv
  <2>8. CacheOK'
    BY <2>1, CacheFrame, Zenon DEF IdentityInv
  <2> QED BY <2>2, <2>3, <2>4, <2>5, <2>6, <2>7, <2>8, Zenon DEF IdentityInv
<1>3. ASSUME NEW p \in Procs,
             \/ \E good \in BOOLEAN : Login(p, good)
             \/ ReadPending(p) \/ \E c \in 0 .. MaxNow : CheckAndConsume(p, c)
             \/ EnforceCap(p) \/ CreateSession(p)
      PROVE  IdentityInv'
  BY <1>3, LoginKeeps, ReadPendingKeeps, CheckAndConsumeKeeps, EnforceCapKeeps,
     CreateSessionKeeps, Zenon
<1>4. ASSUME NEW p \in Procs,
             \/ \E s \in Sids : Resolve(p, s) \/ RevokeMySession(p, s)
             \/ Touch(p) \/ Logout(p) \/ MySessions(p)
             \/ AskPermission(p) \/ LoadPermissionEntry(p) \/ StoreEntry(p)
      PROVE  IdentityInv'
  BY <1>4, ResolveKeeps, RevokeMySessionKeeps, TouchKeeps, LogoutKeeps, MySessionsKeeps,
     AskPermissionKeeps, LoadPermissionEntryKeeps, StoreEntryKeeps, Zenon
<1>5. ASSUME NEW p \in Procs,
             \/ MfaEnroll(p) \/ MfaConfirm(p) \/ RotateRead(p) \/ RotateWrite(p)
             \/ ChangePassword(p)
             \/ \E what \in {"reset", "deactivate", "sessions"} : AdminRevoke(p, what)
      PROVE  IdentityInv'
  BY <1>5, MfaEnrollKeeps, MfaConfirmKeeps, RotateReadKeeps, RotateWriteKeeps,
     ChangePasswordKeeps, AdminRevokeKeeps, Zenon
<1>6. ASSUME NEW p \in Procs,
             \/ ListSessions(p) \/ DestroyListed(p) \/ CommitRevocation(p) \/ ReactivateUser(p)
             \/ \E g \in Grants : ChangeGrant(p, g)
             \/ CommitGrant(p) \/ ListForStamp(p) \/ SetPermissionsVersion(p) \/ InvalidateOld(p)
      PROVE  IdentityInv'
  BY <1>6, ListSessionsKeeps, DestroyListedKeeps, CommitRevocationKeeps, ReactivateUserKeeps,
     ChangeGrantKeeps, CommitGrantKeeps, ListForStampKeeps, SetPermissionsVersionKeeps,
     InvalidateOldKeeps, Zenon
<1> QED BY <1>1, <1>2, <1>3, <1>4, <1>5, <1>6, Zenon DEF Next

(* The invariant of sessions, revocations and grants, for every mix of      *)
(* requests on the account.                                                 *)
THEOREM IdentityInvariant == Spec => []IdentityInv
<1>1. Init => IdentityInv
  BY InitInv, Zenon
<1>2. IdentityInv /\ [Next]_vars => IdentityInv'
  BY InvNext, Zenon
<1> QED BY <1>1, <1>2, PTL DEF Spec

(* No session outlives the absolute lifetime counted from its login, none   *)
(* is out of the account's index, and a code buys one session.              *)
THEOREM EverySessionIsEarned == Spec => []SessionsAreEarned
<1>1. IdentityInv => SessionsAreEarned
  <2> SUFFICES ASSUME IdentityInv
               PROVE  SessionsAreBounded /\ OneSessionPerCode
    BY Zenon DEF SessionsAreEarned
  <2>1. ASSUME NEW s \in Sids, Full(s) PROVE now < hash[s].login + Absolute /\ s \in index
    <3>1. hash[s] \in SessionRecord /\ now \in Nat /\ Absolute \in Nat
      BY IdentityAssumption DEF IdentityInv, IdentityTypeOK
    <3>2. hash[s].created = hash[s].login /\ s \in index
      BY <2>1, Zenon DEF Full, IdentityInv, StoreOK
    <3>3. ~(now >= hash[s].created + Absolute) /\ hash[s].created \in Nat
      BY <2>1, <3>1, Zenon DEF Full, Expired, SessionRecord
    <3> QED BY <3>1, <3>2, <3>3
  <2>2. \A s \in 1 .. minted : s \in Sids
    BY IdentityAssumption DEF IdentityInv, IdentityTypeOK, Sids
  <2>3. OneSessionPerCode
    BY <2>2, Zenon DEF OneSessionPerCode, IdentityInv, CodesOK
  <2> QED BY <2>1, <2>3, Zenon DEF SessionsAreBounded
<1> QED BY <1>1, IdentityInvariant, PTL

(* After a revocation nothing older stands, unless it overlapped it.        *)
THEOREM EveryRevocationIsComplete == Spec => []RevocationIsComplete
<1>1. IdentityInv => RevocationIsComplete
  <2> SUFFICES ASSUME IdentityInv, NEW s \in Sids, Full(s), hash[s].epoch < acct.epoch,
                      ~hash[s].late
               PROVE  FALSE
    BY Zenon DEF RevocationIsComplete
  <2>1. Current(s)
    BY Zenon DEF Full, Current
  <2>2. hash[s].epoch >= acct.epoch
    BY <2>1, Zenon DEF IdentityInv, RevokeOK
  <2>3. hash[s].epoch \in Nat /\ acct.epoch \in Nat
    BY ONLY IdentityInv, s \in Sids, Zenon DEF IdentityInv, IdentityTypeOK, SessionRecord, Account
  <2> QED BY ONLY <2>2, <2>3, hash[s].epoch < acct.epoch
<1> QED BY <1>1, IdentityInvariant, PTL

(* A grant change that is over is in force for every session and in the     *)
(* cache.                                                                   *)
THEOREM EveryGrantTakesEffect == Spec => []GrantsTakeEffect
<1>1. IdentityInv => GrantsTakeEffect
  <2> SUFFICES ASSUME IdentityInv, ~acct.crossed, \A p \in Changing : req[p].kind # "grant"
               PROVE  /\ \A s \in Sids : Full(s) /\ ~hash[s].late => hash[s].ver = acct.ver
                      /\ cache[acct.ver].exp > 0 =>
                           cache[acct.ver].codes = EffectivePermissions(now)
    BY Zenon DEF GrantsTakeEffect
  <2>1. Granting = {}
    BY Zenon DEF Granting, Changing
  <2>2. \A s \in Sids : Full(s) /\ ~hash[s].late => hash[s].ver = acct.ver
    BY <2>1, Zenon DEF IdentityInv, GrantOK, Stamped, Current, Full
  <2>3. ASSUME cache[acct.ver].exp > 0
        PROVE  cache[acct.ver].codes = EffectivePermissions(now)
    <3>1. now \in Nat /\ now <= now
      BY DEF IdentityInv, IdentityTypeOK
    <3>2. now < cache[acct.ver].exp
      <4>1. cache[acct.ver].exp > now
        BY <2>3, Zenon DEF IdentityInv, CacheOK
      <4>2. cache[acct.ver].exp \in Nat
        BY Zenon DEF IdentityInv, IdentityTypeOK, Account
      <4> QED BY <3>1, <4>1, <4>2, Zenon
    <3> QED BY <2>3, <3>1, <3>2, Zenon DEF IdentityInv, CacheOK, Holds
  <2> QED BY <2>2, <2>3, Zenon
<1> QED BY <1>1, IdentityInvariant, PTL

(* A session id that has ended never lets anyone in again.                  *)
THEOREM EndedSessionsStayEnded == Spec => EndedStaysEnded
<1> DEFINE Ended == \A s \in Sids : s <= minted /\ ~Stands(s) => ~Stands(s)'
<1>1. ASSUME IdentityInv, Next PROVE Ended
  <2> SUFFICES ASSUME NEW s \in Sids, s <= minted, ~Stands(s)
               PROVE  ~Stands(s)'
    BY Zenon
  <2>1. hash \in [Sids -> SessionRecord] /\ NoHash.kind = "none"
        /\ req \in [Procs -> Request] /\ minted \in Nat
    <3>1. NoHash.kind = "none"
      BY ONLY Zenon DEF NoHash
    <3> QED BY ONLY <1>1, <3>1 DEF IdentityInv, IdentityTypeOK
  <2>2. ASSUME NEW gone, hash' = Delete(gone) PROVE ~Stands(s)'
    BY <2>1, <2>2, Zenon DEF Delete, Stands, Exists
  <2>3. ASSUME hash' = hash PROVE ~Stands(s)'
    BY <2>3, Zenon DEF Stands, Exists
  <2>4. CASE Tick
    <3>1. hash'[s] \in {hash[s], NoHash}
      BY <2>4, Zenon DEF Tick
    <3> QED BY <2>1, <3>1, Zenon DEF Stands, Exists
  <2>5. ASSUME NEW p \in Procs, Touch(p) PROVE ~Stands(s)'
    <3> DEFINE stored == IF Exists(req[p].sid) THEN hash[req[p].sid]
                         ELSE [NoHash EXCEPT !.kind = "partial"]
               e == now + SessionTtl(req[p].rec)
    <3>1. hash' = [hash EXCEPT ![req[p].sid] = [stored EXCEPT !.seen = now, !.exp = e]]
      BY <2>5, Zenon DEF Touch
    <3>2. CASE s = req[p].sid
      <4>1. stored.kind # "full" /\ stored \in SessionRecord
        <5>1. [NoHash EXCEPT !.kind = "partial"] \in SessionRecord
              /\ [NoHash EXCEPT !.kind = "partial"].kind = "partial"
          BY NoHashType, Zenon DEF SessionRecord
        <5> QED BY <2>1, <3>2, <5>1, Zenon DEF Stands
      <4> HIDE DEF stored, e
      <4>2. hash'[s] = [stored EXCEPT !.seen = now, !.exp = e]
        BY <2>1, <3>1, <3>2, Zenon
      <4>3. hash'[s].kind = stored.kind
        BY <4>1, <4>2, Zenon DEF SessionRecord
      <4> QED BY <4>1, <4>3, Zenon DEF Stands
    <3>3. CASE s # req[p].sid
      BY <2>1, <3>1, <3>3, Zenon DEF Stands, Exists
    <3> QED BY <3>2, <3>3, Zenon
  <2>6. ASSUME NEW p \in Procs, CreateSession(p) \/ RotateWrite(p) PROVE ~Stands(s)'
    <3>1. s # minted + 1
      BY <2>1 DEF Sids
    <3>2. hash'[s] \in {hash[s], NoHash}
      <4>1. CASE CreateSession(p)
        BY <2>1, <3>1, <4>1, Zenon DEF CreateSession
      <4>2. CASE RotateWrite(p)
        BY <2>1, <3>1, <4>2, Zenon DEF RotateWrite, Delete
      <4> QED BY <2>6, <4>1, <4>2, Zenon
    <3> QED BY <2>1, <3>2, Zenon DEF Stands, Exists
  <2>7. ASSUME NEW p \in Procs, SetPermissionsVersion(p) PROVE ~Stands(s)'
    <3>1. \/ hash'[s] = hash[s]
          \/ hash'[s] = [hash[s] EXCEPT !.ver = req[p].ver]
      BY <2>7, Zenon DEF SetPermissionsVersion
    <3>2. hash'[s].kind = hash[s].kind
      BY <2>1, <3>1, Zenon DEF SessionRecord
    <3> QED BY <3>2, Zenon DEF Stands, Exists
  <2>8. ASSUME NEW p \in Procs,
               \/ EnforceCap(p) \/ \E t \in Sids : Resolve(p, t) \/ RevokeMySession(p, t)
               \/ Logout(p) \/ MySessions(p) \/ RotateRead(p) \/ DestroyListed(p)
        PROVE  ~Stands(s)'
    <3>1. hash' = hash \/ \E gone : hash' = Delete(gone)
      BY <2>8, Zenon DEF EnforceCap, Resolve, RevokeMySession, Logout, MySessions, RotateRead,
                  DestroyListed
    <3> QED BY <2>2, <2>3, <3>1, Zenon
  <2>9. ASSUME NEW p \in Procs,
               \/ \E good \in BOOLEAN : Login(p, good)
               \/ ReadPending(p) \/ \E c \in 0 .. MaxNow : CheckAndConsume(p, c)
               \/ AskPermission(p) \/ LoadPermissionEntry(p) \/ StoreEntry(p)
               \/ MfaEnroll(p) \/ MfaConfirm(p) \/ ChangePassword(p)
               \/ \E what \in {"reset", "deactivate", "sessions"} : AdminRevoke(p, what)
               \/ ListSessions(p) \/ CommitRevocation(p) \/ ReactivateUser(p)
               \/ \E g \in Grants : ChangeGrant(p, g)
               \/ CommitGrant(p) \/ ListForStamp(p) \/ InvalidateOld(p)
        PROVE  ~Stands(s)'
    <3>1. hash' = hash
      BY <2>9, Zenon DEF Login, ReadPending, CheckAndConsume, AskPermission, LoadPermissionEntry,
                  StoreEntry, MfaEnroll, MfaConfirm, ChangePassword, AdminRevoke, ListSessions,
                  CommitRevocation, ReactivateUser, ChangeGrant, CommitGrant, ListForStamp,
                  InvalidateOld
    <3> QED BY <2>3, <3>1, Zenon
  <2> QED BY <1>1, <2>4, <2>5, <2>6, <2>7, <2>8, <2>9, Zenon DEF Next
<1>2. IdentityInv /\ [Next]_vars => [Ended]_vars
  BY <1>1, Zenon
<1> QED BY <1>2, IdentityInvariant, PTL DEF Spec, EndedStaysEnded
=============================================================================
