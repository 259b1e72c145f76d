-------------------------- MODULE AttachmentsProofs --------------------------
(***************************************************************************)
(* Proofs about Attachments, for any number of files, any contents and any  *)
(* overlap of scans, sweeps, uploads, downloads, deletions and a payment.   *)
(***************************************************************************)
EXTENDS Attachments, TLAPS, FiniteSetTheorems, WellFoundedInduction

Keys == {Derived(c) : c \in Contents}
Verdicts == [scan : ScanStatuses, sanitized : Keys \cup {None}]
Updates ==
  [scan : ScanStatuses \cup {None}, sanitized : Keys \cup {None}, starts : Nat \cup {None}]
Writes == UNION {[ids -> Updates] : ids \in SUBSET Ids}

Txn ==
  [st : {"idle", "load", "scan", "flush", "chain", "commit"}, todo : SUBSET Ids,
   seen : Files \cup {None}, set : Verdicts \cup {None},
   wrote : Writes,
   msg : (Ids \X Nat) \cup {None}, last : ScanStatuses \cup {None}, at : Nat \cup {None}]

Request ==
  [st : {"idle", "saved", "committed"}, content : Contents \cup {None},
   via : {"evidence", "generated", "core", None}, id : Nat \cup {None}]

AttachmentsTypeOK ==
  /\ row \in [Ids -> Files \cup {None}] /\ queue \subseteq Ids \X Nat
  /\ request \in Request /\ reader \in Files \cup {None} /\ tx \in [Txns -> Txn]
  /\ chain \in Txns \cup {None} /\ now \in Nat
  /\ claim \in [status : {"open", "paying", "closed"}, at : Nat \cup {None}, tries : Nat]
  /\ played \in Scenarios

(* Rows are filled from the first id on.                                    *)
Filled == {i \in Ids : row[i] # None}
FilledOK == \E n \in Nat : Filled = 1 .. n

(* A file's bytes are stored; what it says of its scan is so.               *)
FileOK(r) ==
  /\ Received(r.content) \in blobs /\ r.media = MediaOf[r.content]
  /\ r.sanitized # None => r.sanitized = Derived(r.content) /\ r.sanitized \in blobs
  /\ r.origin = IF r.via = "generated" THEN "generated" ELSE "uploaded"
  /\ r.class = IF r.via = "core" THEN "default" ELSE "financial_dv_10y"
  /\ r.via = "generated" => r.media = "pdf" /\ r.scan = "clean"
  /\ r.scan = "clean" /\ r.via # "generated" =>
       /\ r.content \in cleared \ Infected
       /\ r.media = "image" => r.sanitized = Derived(r.content)

FilesOK == \A i \in Ids : row[i] # None => FileOK(row[i])
ReaderOK == reader # None => FileOK(reader)

RequestOK ==
  /\ request.st = "saved" =>
       /\ request.content \in Contents /\ Accepted(request.content)
       /\ request.via \in {"evidence", "generated", "core"}
       /\ Received(request.content) \in blobs
       /\ request.via = "generated" => MediaOf[request.content] = "pdf"
       /\ NextId \in Ids
  /\ request.st = "committed" => request.id \in Ids

(* A scan holds what it loaded of its row, and the verdict on those bytes.  *)
Seen(t) ==
  LET i == First(tx[t].todo)
  IN  /\ row[i] # None /\ tx[t].seen \in Files /\ row[i].via # "generated"
      /\ tx[t].seen.content = row[i].content /\ tx[t].seen.media = row[i].media
      /\ tx[t].seen.sanitized # None => row[i].sanitized = tx[t].seen.sanitized

Found(t) ==
  LET c == tx[t].seen.content
      out == tx[t].set
  IN  /\ out \in Verdicts
      /\ out.sanitized # None => out.sanitized = Derived(c) /\ out.sanitized \in blobs
      /\ out.scan = "clean" => /\ c \in cleared \ Infected
                               /\ tx[t].seen.media = "image" => out.sanitized = Derived(c)

ScanOK(t) ==
  t # "payment" =>
    /\ tx[t].st \in {"load", "scan", "flush", "chain"} => tx[t].todo # {}
    /\ tx[t].st \in {"scan", "flush", "chain"} => Seen(t)
    /\ tx[t].st \in {"flush", "chain"} => Found(t)
    /\ t = "task" /\ tx[t].st # "idle" => tx[t].msg \in Ids \X Nat

(* What a transaction will write is true of the row it writes it to.        *)
UpdateOK(r, u) ==
  /\ u.sanitized # None => u.sanitized = Derived(r.content) /\ u.sanitized \in blobs
  /\ u.scan = "clean" => /\ r.content \in cleared \ Infected
                         /\ r.media = "image" =>
                              Derived(r.content) \in {u.sanitized, r.sanitized}

WroteOK(t) ==
  \A i \in DOMAIN tx[t].wrote :
    /\ row[i] # None /\ UpdateOK(row[i], tx[t].wrote[i])
    /\ t # "payment" => row[i].via # "generated" /\ tx[t].wrote[i].starts = None
    /\ t = "payment" => /\ row[i].via # "core" /\ tx[t].wrote[i].starts = tx[t].at
                        /\ tx[t].wrote[i].scan = None /\ tx[t].wrote[i].sanitized = None

TxOK == \A t \in Txns : ScanOK(t) /\ WroteOK(t)

(* The payment holds the chain, so no file comes or goes while it runs.     *)
PaymentOK ==
  LET p == tx["payment"]
  IN  /\ claim.status = "paying" <=> p.st # "idle"
      /\ p.st # "idle" => chain = "payment" /\ p.at \in Nat /\ p.st \in {"load", "flush", "commit"}
      /\ p.st = "flush" => p.todo # {}
      /\ p.st = "commit" => p.todo = {}
      /\ p.st \in {"flush", "commit"} =>
           /\ \A i \in p.todo : row[i] # None /\ row[i].via # "core"
           /\ \A i \in Ids : row[i] # None /\ row[i].via # "core" /\ ~row[i].deleted =>
                i \in p.todo \cup DOMAIN p.wrote

DatedOK ==
  /\ claim.status = "closed" => claim.at \in Nat
  /\ \A i \in Ids : row[i] # None =>
       /\ row[i].starts # None =>
            claim.status = "closed" /\ row[i].via # "core" /\ row[i].starts = claim.at
       /\ claim.status = "closed" /\ row[i].via # "core" /\ ~row[i].deleted =>
            row[i].starts = claim.at

AttachmentsInv ==
  /\ AttachmentsTypeOK /\ FilledOK /\ FilesOK /\ ReaderOK /\ RequestOK /\ TxOK
  /\ PaymentOK /\ DatedOK /\ ServedIsCleared

-----------------------------------------------------------------------------
(* The parts *)

LEMMA LeastNatural ==
  ASSUME NEW S, S \subseteq Nat, S # {}
  PROVE  \E x \in S : \A y \in S : x <= y
<1>1. PICK x \in S : \A y \in S : ~(<<y, x>> \in OpToRel(<, Nat))
  BY NatLessThanWellFounded, WFMin, Zenon
<1>2. \A y \in S : ~(y < x)
  BY <1>1, Zenon DEF OpToRel
<1> QED BY <1>2

LEMMA IdsInOrder == \E n \in Nat : Ids = 1 .. n
<1>1. Cardinality(Ids) \in Nat
  BY AttachmentsAssumption, FS_CardinalityType, Zenon
<1> QED BY <1>1, AttachmentsAssumption, Zenon

LEMMA FirstIsOneOf ==
  ASSUME NEW S, S \subseteq Ids, S # {}
  PROVE  First(S) \in S
<1>1. S \subseteq Nat
  BY IdsInOrder
<1>2. \E x \in S : \A y \in S : x <= y
  BY <1>1, LeastNatural, Zenon
<1> QED BY <1>2, Zenon DEF First

LEMMA IdleType == Idle \in Txn /\ Idle.st = "idle" /\ DOMAIN Idle.wrote = {}
<1>1. Unwritten \in [{} -> Updates] /\ {} \in SUBSET Ids
  BY Zenon DEF Unwritten
<1>2. Unwritten \in Writes
  BY <1>1, Zenon DEF Writes
<1>3. DOMAIN Unwritten = {}
  BY Zenon DEF Unwritten
<1> HIDE DEF Unwritten
<1> QED BY <1>2, <1>3, Zenon DEF Idle, Txn

LEMMA WroteType ==
  ASSUME NEW x \in Txn
  PROVE  /\ DOMAIN x.wrote \subseteq Ids
         /\ \A i \in DOMAIN x.wrote : x.wrote[i] \in Updates
         /\ x.wrote = [i \in DOMAIN x.wrote |-> x.wrote[i]]
<1>1. PICK ids \in SUBSET Ids : x.wrote \in [ids -> Updates]
  BY Zenon DEF Txn, Writes
<1> QED BY <1>1, Zenon

(* A file stays the file it was, and keeps the name of its derivative.      *)
Grown(r, n) ==
  /\ n.content = r.content /\ n.media = r.media /\ n.via = r.via /\ n.origin = r.origin
  /\ n.class = r.class /\ (r.sanitized # None => n.sanitized = r.sanitized)

RowsGrow == \A i \in Ids : row[i] # None => row'[i] # None /\ Grown(row[i], row'[i])
StoreGrows == blobs \subseteq blobs' /\ cleared \subseteq cleared'

LEMMA SameRows ==
  ASSUME row' = row
  PROVE  RowsGrow
  BY Zenon DEF RowsGrow, Grown

LEMMA FileFrame ==
  ASSUME NEW r, FileOK(r), StoreGrows
  PROVE  FileOK(r)'
  BY Zenon DEF FileOK, StoreGrows

LEMMA ScanFrame ==
  ASSUME AttachmentsInv, NEW t \in Txns, tx'[t] = tx[t], RowsGrow, StoreGrows
  PROVE  ScanOK(t)'
<1> SUFFICES ASSUME t # "payment"
             PROVE  ScanOK(t)'
  BY Zenon DEF ScanOK
<1>1. ScanOK(t) /\ tx[t] \in Txn
  BY Zenon DEF AttachmentsInv, TxOK, AttachmentsTypeOK
<1>2. tx[t].st \in {"scan", "flush", "chain"} => Seen(t)'
  <2> SUFFICES ASSUME tx[t].st \in {"scan", "flush", "chain"}
               PROVE  Seen(t)'
    BY Zenon
  <2>1. Seen(t) /\ tx[t].todo # {} /\ tx[t].todo \subseteq Ids
    BY <1>1, Zenon DEF ScanOK, Txn
  <2>2. First(tx[t].todo) \in Ids
    BY <2>1, FirstIsOneOf, Zenon
  <2>3. First(tx'[t].todo) = First(tx[t].todo)
    BY Zenon
  <2> QED BY <2>1, <2>2, <2>3, ZenonT(40) DEF Seen, RowsGrow, Grown
<1>3. tx[t].st \in {"flush", "chain"} => Found(t)'
  BY <1>1, Zenon DEF ScanOK, Found, StoreGrows
<1> QED BY <1>1, <1>2, <1>3, Zenon DEF ScanOK

LEMMA WroteFrame ==
  ASSUME AttachmentsInv, NEW t \in Txns, tx'[t].wrote = tx[t].wrote, tx'[t].at = tx[t].at,
         RowsGrow, StoreGrows
  PROVE  WroteOK(t)'
<1>1. WroteOK(t) /\ tx[t] \in Txn
  BY Zenon DEF AttachmentsInv, TxOK, AttachmentsTypeOK
<1> SUFFICES ASSUME NEW i \in DOMAIN tx[t].wrote
             PROVE  /\ row'[i] # None /\ UpdateOK(row[i], tx[t].wrote[i])'
                    /\ t # "payment" => row'[i].via # "generated" /\ tx[t].wrote[i].starts = None
                    /\ t = "payment" => /\ row'[i].via # "core" /\ tx[t].wrote[i].starts = tx[t].at
                                        /\ tx[t].wrote[i].scan = None
                                        /\ tx[t].wrote[i].sanitized = None
  BY Zenon DEF WroteOK
<1>2. i \in Ids /\ row[i] # None /\ UpdateOK(row[i], tx[t].wrote[i])
  BY <1>1, WroteType, Zenon DEF WroteOK
<1>3. row'[i] # None /\ Grown(row[i], row'[i])
  BY <1>2, Zenon DEF RowsGrow
<1>4. row[i].sanitized # None => row[i].sanitized = Derived(row[i].content)
  BY <1>2, Zenon DEF AttachmentsInv, FilesOK, FileOK
<1>5. row[i].sanitized = Derived(row[i].content) => row'[i].sanitized = row[i].sanitized
  <2>1. row[i] \in Files
    BY <1>2, Zenon DEF AttachmentsInv, AttachmentsTypeOK
  <2>2. Derived(row[i].content) # None
    BY <2>1, AttachmentsAssumption, Zenon DEF Files
  <2> QED BY <1>3, <2>2, Zenon DEF Grown
<1>6. UpdateOK(row[i], tx[t].wrote[i])'
  BY <1>2, <1>3, <1>5, Zenon DEF UpdateOK, Grown, StoreGrows
<1> QED BY <1>1, <1>3, <1>6, Zenon DEF WroteOK, Grown

(* One transaction moves, or none.                                          *)
LEMMA TxnMoves ==
  ASSUME AttachmentsInv, NEW t \in Txns, NEW n \in Txn, tx' = [tx EXCEPT ![t] = n],
         RowsGrow, StoreGrows, ScanOK(t)', WroteOK(t)'
  PROVE  TxOK' /\ tx' \in [Txns -> Txn] /\ tx'[t] = n /\ \A u \in Txns \ {t} : tx'[u] = tx[u]
<1>1. tx' \in [Txns -> Txn] /\ tx'[t] = n /\ \A u \in Txns \ {t} : tx'[u] = tx[u]
  BY Zenon DEF AttachmentsInv, AttachmentsTypeOK
<1>2. \A u \in Txns \ {t} : ScanOK(u)' /\ WroteOK(u)'
  BY <1>1, ScanFrame, WroteFrame, Zenon
<1> QED BY <1>1, <1>2, Zenon DEF TxOK

LEMMA NoTxnMoves ==
  ASSUME AttachmentsInv, tx' = tx, RowsGrow, StoreGrows
  PROVE  TxOK'
<1>1. \A u \in Txns : ScanOK(u)' /\ WroteOK(u)'
  BY ScanFrame, WroteFrame, Zenon
<1> QED BY <1>1, Zenon DEF TxOK

LEMMA FilesFrame ==
  ASSUME AttachmentsInv, row' = row, StoreGrows
  PROVE  FilesOK' /\ FilledOK' /\ Filled' = Filled
<1>1. FilesOK'
  BY FileFrame, Zenon DEF AttachmentsInv, FilesOK
<1>2. Filled' = Filled
  BY Zenon DEF Filled
<1> QED BY <1>1, <1>2, Zenon DEF AttachmentsInv, FilledOK

LEMMA ReaderFrame ==
  ASSUME AttachmentsInv, reader' = reader, StoreGrows
  PROVE  ReaderOK'
<1>1. reader # None => FileOK(reader)'
  BY FileFrame, Zenon DEF AttachmentsInv, ReaderOK
<1> QED BY <1>1, Zenon DEF ReaderOK, FileOK

LEMMA ServedFrame ==
  ASSUME AttachmentsInv, served' = served, StoreGrows
  PROVE  ServedIsCleared'
  BY Zenon DEF AttachmentsInv, ServedIsCleared, StoreGrows

LEMMA RequestFrame ==
  ASSUME AttachmentsInv, request' = request, Filled' = Filled, StoreGrows
  PROVE  RequestOK'
<1>1. NextId' = NextId
  BY Zenon DEF NextId, Filled
<1> QED BY <1>1, Zenon DEF AttachmentsInv, RequestOK, StoreGrows

(* Nothing the payment sees has changed.                                    *)
LEMMA PaymentFrame ==
  ASSUME AttachmentsInv, row' = row, claim' = claim, tx'["payment"] = tx["payment"],
         chain = "payment" => chain' = "payment"
  PROVE  PaymentOK' /\ DatedOK'
<1>1. DatedOK'
  BY Zenon DEF AttachmentsInv, DatedOK
<1>2. PaymentOK'
  BY Zenon DEF AttachmentsInv, PaymentOK
<1> QED BY <1>1, <1>2, Zenon

-----------------------------------------------------------------------------
LEMMA InitInv == Init => AttachmentsInv
<1> SUFFICES ASSUME Init
             PROVE  AttachmentsInv
  BY Zenon
<1>1. Idle \in Txn /\ Idle.st = "idle" /\ DOMAIN Idle.wrote = {}
  BY IdleType, Zenon
<1>2. /\ row = [i \in Ids |-> None] /\ queue = {} /\ request = NoRequest /\ reader = None
      /\ tx = [t \in Txns |-> Idle] /\ chain = None /\ now = 0 /\ played \in Scenarios
      /\ claim = [status |-> "open", at |-> None, tries |-> 0] /\ served = {}
  BY Zenon DEF Init
<1>3. \A t \in Txns : tx[t] = Idle
  BY <1>2, Zenon
<1>4. AttachmentsTypeOK
  BY <1>1, <1>2, Zenon DEF AttachmentsTypeOK, NoRequest, Request
<1>5. FilledOK
  <2>1. Filled = {} /\ 0 \in Nat /\ 1 .. 0 = {}
    BY <1>2 DEF Filled
  <2> QED BY <2>1, Zenon DEF FilledOK
<1>6. FilesOK /\ ReaderOK /\ RequestOK /\ ServedIsCleared /\ DatedOK
  BY <1>2, Zenon DEF FilesOK, ReaderOK, RequestOK, NoRequest, ServedIsCleared, DatedOK
<1>7. TxOK
  BY <1>1, <1>3, Zenon DEF TxOK, ScanOK, WroteOK
<1>8. PaymentOK
  BY <1>1, <1>2, <1>3, Zenon DEF PaymentOK, Txns
<1> QED BY <1>4, <1>5, <1>6, <1>7, <1>8, Zenon DEF AttachmentsInv

-----------------------------------------------------------------------------
(* Uploads *)

LEMMA SaveBytesKeeps ==
  ASSUME AttachmentsInv, NEW c \in Contents, NEW via \in {"evidence", "generated", "core"},
         SaveBytes(c, via)
  PROVE  AttachmentsInv'
<1>1. /\ NextId <= Len(played.files) /\ NextId \in Ids /\ <<c, via>> \in played.files[NextId]
      /\ Accepted(c) /\ blobs' = blobs \cup {Received(c)}
      /\ request' = [st |-> "saved", content |-> c, via |-> via, id |-> None]
      /\ UNCHANGED <<row, queue, reader, tx, chain, claim, now, played, served, cleared>>
  BY Zenon DEF SaveBytes
<1>2. RowsGrow /\ StoreGrows
  BY <1>1, SameRows, Zenon DEF StoreGrows
<1>3. AttachmentsTypeOK'
  BY <1>1, Zenon DEF AttachmentsInv, AttachmentsTypeOK, Request
<1>4. FilesOK' /\ FilledOK'
  BY <1>1, <1>2, FilesFrame, Zenon
<1>5. ReaderOK' /\ ServedIsCleared'
  BY <1>1, <1>2, ReaderFrame, ServedFrame, Zenon
<1>6. TxOK'
  BY <1>1, <1>2, NoTxnMoves, Zenon
<1>7. PaymentOK' /\ DatedOK'
  BY <1>1, PaymentFrame, Zenon
<1>8. RequestOK'
  <2>1. via = "generated" => MediaOf[c] = "pdf"
    <3>1. played \in Scenarios
      BY Zenon DEF AttachmentsInv, AttachmentsTypeOK
    <3>2. Len(played.files) \in Nat
      BY <3>1, AttachmentsAssumption
    <3>3. PICK k \in 1 .. Len(played.files) : k = NextId
      BY <1>1, <3>2, IdsInOrder
    <3>4. <<c, via>> \in played.files[k] /\ <<c, via>>[1] = c /\ <<c, via>>[2] = via
      BY <1>1, <3>3, Zenon
    <3> QED BY <3>1, <3>3, <3>4, AttachmentsAssumption, Zenon
  <2>2. NextId' \in Ids
    BY <1>1, Zenon DEF NextId
  <2> QED BY <1>1, <2>1, <2>2, Zenon DEF RequestOK, Accepted
<1> QED BY <1>3, <1>4, <1>5, <1>6, <1>7, <1>8, Zenon DEF AttachmentsInv

LEMMA NewRowType ==
  ASSUME NEW c \in Contents, NEW via \in {"evidence", "generated", "core"}, Accepted(c)
  PROVE  LET r == NewRow(c, via)
         IN  /\ r \in Files /\ r.content = c /\ r.media = MediaOf[c] /\ r.via = via
             /\ r.origin = (IF via = "generated" THEN "generated" ELSE "uploaded")
             /\ r.class = (IF via = "core" THEN "default" ELSE "financial_dv_10y")
             /\ r.scan = (IF via = "generated" THEN "clean" ELSE "pending")
             /\ r.sanitized = None /\ r.starts = None /\ ~r.deleted
  BY Zenon DEF NewRow, Files, Accepted, ScanStatuses

(* The new row takes an id nothing has, and the claim it belongs to is open.*)
LEMMA CommitUploadKeeps ==
  ASSUME AttachmentsInv, CommitUpload
  PROVE  AttachmentsInv'
<1> DEFINE c == request.content
           via == request.via
           n == NewRow(c, via)
<1>1. /\ request.st = "saved" /\ chain = None /\ (via # "core" => claim.status = "open")
      /\ row' = [row EXCEPT ![NextId] = n]
      /\ request' = IF via = "generated" THEN NoRequest
                    ELSE [request EXCEPT !.st = "committed", !.id = NextId]
      /\ UNCHANGED <<blobs, queue, reader, tx, chain, claim, now, played, served, cleared>>
  BY Zenon DEF CommitUpload, ChainFree
<1>2. /\ c \in Contents /\ Accepted(c) /\ via \in {"evidence", "generated", "core"}
      /\ Received(c) \in blobs /\ (via = "generated" => MediaOf[c] = "pdf")
  BY <1>1, Zenon DEF AttachmentsInv, RequestOK
<1>3. /\ n \in Files /\ n.content = c /\ n.media = MediaOf[c] /\ n.via = via
      /\ n.origin = (IF via = "generated" THEN "generated" ELSE "uploaded")
      /\ n.class = (IF via = "core" THEN "default" ELSE "financial_dv_10y")
      /\ n.scan = (IF via = "generated" THEN "clean" ELSE "pending")
      /\ n.sanitized = None /\ n.starts = None /\ ~n.deleted
  BY <1>2, NewRowType
<1> HIDE DEF n
<1>4. PICK k \in Nat : Filled = 1 .. k
  BY Zenon DEF AttachmentsInv, FilledOK
<1>5. NextId = k + 1 /\ k + 1 \in Ids
  <2>1. Cardinality(Filled) = k
    <3>1. Cardinality(1 .. k) = IF 1 > k THEN 0 ELSE k - 1 + 1
      BY FS_Interval
    <3> QED BY <1>4, <3>1
  <2>2. NextId = k + 1
    BY <2>1, Zenon DEF NextId, Filled
  <2> QED BY <1>1, <2>2, Zenon DEF AttachmentsInv, RequestOK
<1>6. row[k + 1] = None
  BY <1>4, <1>5 DEF Filled
<1>7. \A i \in Ids : row'[i] = IF i = k + 1 THEN n ELSE row[i]
  BY <1>1, <1>5, Zenon DEF AttachmentsInv, AttachmentsTypeOK
<1>8. n # None
  BY <1>3, AttachmentsAssumption, Zenon
<1>9. RowsGrow /\ StoreGrows
  BY <1>1, <1>6, <1>7, Zenon DEF RowsGrow, Grown, StoreGrows
<1>10. FilledOK'
  <2>1. Filled' = Filled \cup {k + 1}
    BY <1>5, <1>7, <1>8, Zenon DEF Filled
  <2>2. (1 .. k) \cup {k + 1} = 1 .. (k + 1) /\ k + 1 \in Nat
    BY <1>4
  <2> QED BY <1>4, <2>1, <2>2, Zenon DEF FilledOK
<1>11. FilesOK'
  <2>1. \A i \in Ids : row[i] # None => FileOK(row[i])
    BY Zenon DEF AttachmentsInv, FilesOK
  <2>2. FileOK(n)
    BY <1>2, <1>3, Zenon DEF FileOK
  <2>3. \A i \in Ids : row'[i] # None => FileOK(row'[i])
    BY <1>7, <2>1, <2>2, Zenon
  <2> QED BY <1>1, <2>3, Zenon DEF FilesOK, FileOK
<1>12. AttachmentsTypeOK'
  <2>1. row' \in [Ids -> Files \cup {None}]
    BY <1>1, <1>3, Zenon DEF AttachmentsInv, AttachmentsTypeOK
  <2>2. request' \in Request
    <3>1. NextId \in Nat
      BY <1>5, <1>4
    <3>2. request \in Request
      BY Zenon DEF AttachmentsInv, AttachmentsTypeOK
    <3> QED BY <1>1, <3>1, <3>2, Zenon DEF NoRequest, Request
  <2> QED BY <1>1, <2>1, <2>2, Zenon DEF AttachmentsInv, AttachmentsTypeOK
<1>13. ReaderOK' /\ ServedIsCleared'
  BY <1>1, <1>9, ReaderFrame, ServedFrame, Zenon
<1>14. TxOK'
  BY <1>1, <1>9, NoTxnMoves, Zenon
<1>15. RequestOK'
  <2>1. request.st \in {"saved"} /\ request \in Request
    BY <1>1, Zenon DEF AttachmentsInv, AttachmentsTypeOK
  <2>2. request'.st # "saved" /\ (request'.st = "committed" => request'.id = NextId)
    BY <1>1, <2>1, Zenon DEF NoRequest, Request
  <2> QED BY <1>5, <2>2, Zenon DEF RequestOK
<1>16. tx["payment"].st = "idle"
  BY <1>1, AttachmentsAssumption, Zenon DEF AttachmentsInv, PaymentOK, Txns
<1>17. PaymentOK'
  BY <1>1, <1>16, Zenon DEF AttachmentsInv, PaymentOK
<1>18. DatedOK'
  BY <1>1, <1>3, <1>7 DEF AttachmentsInv, DatedOK
<1> QED BY <1>10, <1>11, <1>12, <1>13, <1>14, <1>15, <1>17, <1>18, Zenon DEF AttachmentsInv

(* The other steps of a request, of a download and of the clock touch no    *)
(* transaction.                                                             *)
LEMMA DrainScansKeeps ==
  ASSUME AttachmentsInv, DrainScans \/ CrashRequest
  PROVE  AttachmentsInv'
<1>1. /\ request' = NoRequest
      /\ queue' = queue \/ (request.st = "committed" /\ queue' = queue \cup {<<request.id, 0>>})
      /\ UNCHANGED <<row, blobs, reader, tx, chain, claim, now, played, served, cleared>>
  BY Zenon DEF DrainScans, CrashRequest
<1>2. RowsGrow /\ StoreGrows
  BY <1>1, SameRows, Zenon DEF StoreGrows
<1>3. AttachmentsTypeOK'
  <2>1. queue' \subseteq Ids \X Nat
    BY <1>1 DEF AttachmentsInv, AttachmentsTypeOK, RequestOK
  <2>2. NoRequest \in Request
    BY Zenon DEF NoRequest, Request
  <2> QED BY <1>1, <2>1, <2>2, Zenon DEF AttachmentsInv, AttachmentsTypeOK
<1>4. FilesOK' /\ FilledOK'
  BY <1>1, <1>2, FilesFrame, Zenon
<1>5. ReaderOK' /\ ServedIsCleared'
  BY <1>1, <1>2, ReaderFrame, ServedFrame, Zenon
<1>6. TxOK'
  BY <1>1, <1>2, NoTxnMoves, Zenon
<1>7. PaymentOK' /\ DatedOK'
  BY <1>1, PaymentFrame, Zenon
<1>8. RequestOK'
  BY <1>1, Zenon DEF RequestOK, NoRequest
<1> QED BY <1>3, <1>4, <1>5, <1>6, <1>7, <1>8, Zenon DEF AttachmentsInv

LEMMA DownloadKeeps ==
  ASSUME AttachmentsInv, (\E i \in Ids : LoadForDownload(i)) \/ Refuse \/ Serve
  PROVE  AttachmentsInv'
<1>1. UNCHANGED <<row, blobs, queue, request, tx, chain, claim, now, played, cleared>>
  BY Zenon DEF LoadForDownload, Refuse, Serve
<1>2. RowsGrow /\ StoreGrows
  BY <1>1, SameRows, Zenon DEF StoreGrows
<1>3. FilesOK' /\ FilledOK' /\ Filled' = Filled
  BY <1>1, <1>2, FilesFrame, Zenon
<1>4. TxOK'
  BY <1>1, <1>2, NoTxnMoves, Zenon
<1>5. PaymentOK' /\ DatedOK'
  BY <1>1, PaymentFrame, Zenon
<1>6. RequestOK'
  BY <1>1, <1>2, <1>3, RequestFrame, Zenon
<1>7. CASE \E i \in Ids : LoadForDownload(i)
  <2>1. PICK i \in Ids : LoadForDownload(i)
    BY <1>7, Zenon
  <2>2. reader' = row[i] /\ row[i] # None /\ served' = served
    BY <2>1, Zenon DEF LoadForDownload, Visible
  <2>3. reader' \in Files /\ FileOK(row[i])
    BY <2>2, Zenon DEF AttachmentsInv, AttachmentsTypeOK, FilesOK
  <2>4. ReaderOK'
    BY <1>1, <2>2, <2>3, Zenon DEF ReaderOK, FileOK
  <2>5. AttachmentsTypeOK'
    BY <1>1, <2>3, Zenon DEF AttachmentsInv, AttachmentsTypeOK
  <2> QED BY <1>2, <1>3, <1>4, <1>5, <1>6, <2>2, <2>4, <2>5, ServedFrame, Zenon DEF AttachmentsInv
<1>8. CASE Refuse \/ Serve
  <2>1. reader' = None /\ reader # None /\ ReaderOK' /\ reader \in Files /\ FileOK(reader)
    BY <1>8, Zenon DEF Refuse, Serve, ReaderOK, AttachmentsInv, AttachmentsTypeOK
  <2>2. AttachmentsTypeOK'
    BY <1>1, <2>1, Zenon DEF AttachmentsInv, AttachmentsTypeOK
  <2>3. ServedIsCleared'
    <3>1. CASE Refuse
      BY <1>2, <3>1, ServedFrame, Zenon DEF Refuse
    <3>2. CASE Serve
      <4> DEFINE x == <<reader.content, reader.origin, ServedKey(reader)>>
      <4>1. served' = served \cup {x} /\ reader.scan = "clean"
        BY <3>2, Zenon DEF Serve, Ready
      <4>2. /\ reader.origin = "uploaded" => reader.content \in cleared \ Infected
            /\ reader.origin = "uploaded" /\ MediaOf[reader.content] = "image" =>
                 reader.sanitized = Derived(reader.content)
        BY <2>1, <4>1, Zenon DEF FileOK
      <4>3. reader.sanitized = Derived(reader.content) => ServedKey(reader) = Derived(reader.content)
        <5>1. Derived(reader.content) # None
          BY <2>1, AttachmentsAssumption, Zenon DEF Files
        <5> QED BY <5>1, Zenon DEF ServedKey
      <4>4. x[1] = reader.content /\ x[2] = reader.origin /\ x[3] = ServedKey(reader)
        BY Zenon
      <4> HIDE DEF x
      <4> QED BY <1>1, <4>1, <4>2, <4>3, <4>4, Zenon DEF AttachmentsInv, ServedIsCleared
    <3> QED BY <1>8, <3>1, <3>2, Zenon
  <2> QED BY <1>3, <1>4, <1>5, <1>6, <2>1, <2>2, <2>3, Zenon DEF AttachmentsInv
<1> QED BY <1>7, <1>8, Zenon

LEMMA TickKeeps ==
  ASSUME AttachmentsInv, Tick
  PROVE  AttachmentsInv'
<1> DEFINE Later == {y \in Clock : y > now}
<1>1. /\ \E y \in Clock : y > now
      /\ now' = CHOOSE y \in Clock : y > now /\ \A z \in Clock : z > now => z >= y
      /\ UNCHANGED <<row, blobs, queue, request, reader, tx, chain, claim, played, served, cleared>>
  BY Zenon DEF Tick
<1>2. now' \in Nat
  <2>1. Later \subseteq Nat /\ Later # {}
    BY <1>1, AttachmentsAssumption, Zenon
  <2>2. PICK y \in Later : \A z \in Later : y <= z
    BY <2>1, LeastNatural, Zenon
  <2>3. y \in Clock /\ y > now /\ \A z \in Clock : z > now => z >= y
    BY <2>1, <2>2, Zenon
  <2>4. now' \in Clock
    BY <1>1, <2>3, Zenon
  <2> QED BY <2>4, AttachmentsAssumption, Zenon
<1>3. RowsGrow /\ StoreGrows
  BY <1>1, SameRows, Zenon DEF StoreGrows
<1>4. AttachmentsTypeOK'
  BY <1>1, <1>2, Zenon DEF AttachmentsInv, AttachmentsTypeOK
<1>5. FilesOK' /\ FilledOK' /\ Filled' = Filled
  BY <1>1, <1>3, FilesFrame, Zenon
<1>6. RequestOK' /\ ReaderOK' /\ ServedIsCleared'
  BY <1>1, <1>3, <1>5, RequestFrame, ReaderFrame, ServedFrame, Zenon
<1>7. TxOK'
  BY <1>1, <1>3, NoTxnMoves, Zenon
<1>8. PaymentOK' /\ DatedOK'
  BY <1>1, PaymentFrame, Zenon
<1> QED BY <1>4, <1>5, <1>6, <1>7, <1>8, Zenon DEF AttachmentsInv

(* A row is marked as deleted, or as held.                                  *)
LEMMA MarkKeeps ==
  ASSUME AttachmentsInv, NEW i \in Ids, SoftDelete(i) \/ PlaceHold(i)
  PROVE  AttachmentsInv'
<1> DEFINE d == [row[i] EXCEPT !.deleted = TRUE]
           h == [row[i] EXCEPT !.hold = TRUE]
<1>1. /\ row[i] # None
      /\ (row' = [row EXCEPT ![i] = d] /\ chain = None) \/ row' = [row EXCEPT ![i] = h]
      /\ UNCHANGED <<blobs, queue, request, reader, tx, chain, claim, now, played, served, cleared>>
  BY Zenon DEF SoftDelete, PlaceHold, Visible
<1>2. row[i] \in Files
  BY <1>1, Zenon DEF AttachmentsInv, AttachmentsTypeOK
<1>3. PICK n \in Files :
         /\ row' = [row EXCEPT ![i] = n]
         /\ Grown(row[i], n) /\ n.sanitized = row[i].sanitized /\ n.scan = row[i].scan
         /\ n.starts = row[i].starts /\ (chain # None => n.deleted = row[i].deleted)
         /\ row[i].deleted => n.deleted
  <2>1. /\ d \in Files /\ Grown(row[i], d) /\ d.sanitized = row[i].sanitized
        /\ d.scan = row[i].scan /\ d.starts = row[i].starts /\ d.deleted
    BY <1>2, Zenon DEF Files, Grown
  <2>2. /\ h \in Files /\ Grown(row[i], h) /\ h.sanitized = row[i].sanitized
        /\ h.scan = row[i].scan /\ h.starts = row[i].starts /\ h.deleted = row[i].deleted
    BY <1>2, Zenon DEF Files, Grown
  <2> HIDE DEF d, h
  <2> QED BY <1>1, <2>1, <2>2, Zenon
<1>4. \A j \in Ids : row'[j] = IF j = i THEN n ELSE row[j]
  BY <1>3, Zenon DEF AttachmentsInv, AttachmentsTypeOK
<1>5. n # None
  BY AttachmentsAssumption, Zenon
<1>6. RowsGrow /\ StoreGrows
  BY <1>1, <1>3, <1>4, <1>5 DEF RowsGrow, Grown, StoreGrows
<1>7. AttachmentsTypeOK'
  BY <1>1, <1>3, Zenon DEF AttachmentsInv, AttachmentsTypeOK
<1>8. Filled' = Filled /\ FilledOK'
  <2>1. Filled' = Filled
    BY <1>1, <1>4, <1>5, Zenon DEF Filled
  <2> QED BY <2>1, Zenon DEF AttachmentsInv, FilledOK
<1>9. FilesOK'
  <2>1. FileOK(n)
    BY <1>1, <1>3 DEF AttachmentsInv, FilesOK, FileOK, Grown
  <2>2. \A j \in Ids : row'[j] # None => FileOK(row'[j])
    BY <1>4, <2>1, Zenon DEF AttachmentsInv, FilesOK
  <2> QED BY <1>1, <2>2, Zenon DEF FilesOK, FileOK
<1>10. RequestOK' /\ ReaderOK' /\ ServedIsCleared'
  BY <1>1, <1>6, <1>8, RequestFrame, ReaderFrame, ServedFrame, Zenon
<1>11. TxOK'
  BY <1>1, <1>6, NoTxnMoves, Zenon
<1>12. DatedOK'
  <2>1. n.via = row[i].via
    BY <1>3, Zenon DEF Grown
  <2>2. row[i].deleted \in BOOLEAN /\ n.deleted \in BOOLEAN
    BY <1>2, Zenon DEF Files
  <2> QED BY <1>1, <1>3, <1>4, <2>1, <2>2 DEF AttachmentsInv, DatedOK
<1>13. PaymentOK'
  <2>1. n.via = row[i].via
    BY <1>3, Zenon DEF Grown
  <2>2. CASE tx["payment"].st = "idle"
    BY <1>1, <2>2, Zenon DEF AttachmentsInv, PaymentOK
  <2>3. CASE tx["payment"].st # "idle"
    <3>1. tx["payment"] \in Txn
      BY Zenon DEF AttachmentsInv, AttachmentsTypeOK, Txns
    <3>2. tx["payment"].todo \subseteq Ids
      BY <3>1, Zenon DEF Txn
    <3>3. n.deleted = row[i].deleted
      BY <1>3, <2>3, AttachmentsAssumption, Zenon DEF AttachmentsInv, PaymentOK, Txns
    <3> QED BY <1>1, <1>4, <1>5, <2>1, <3>2, <3>3, Zenon DEF AttachmentsInv, PaymentOK
  <2> QED BY <2>2, <2>3, Zenon
<1> QED BY <1>7, <1>8, <1>9, <1>10, <1>11, <1>12, <1>13, Zenon DEF AttachmentsInv

-----------------------------------------------------------------------------
(* Scans *)

(* A scan's transaction moves without touching the rows: what is left to    *)
(* show is about its own state.                                             *)
LEMMA ScanMoves ==
  ASSUME AttachmentsInv, NEW t \in Txns, t # "payment", NEW n \in Txn,
         tx' = [tx EXCEPT ![t] = n], StoreGrows, ScanOK(t)', WroteOK(t)',
         queue' \subseteq Ids \X Nat, chain' \in Txns \cup {None},
         chain = "payment" => chain' = "payment",
         UNCHANGED <<row, request, reader, claim, now, played, served>>
  PROVE  AttachmentsInv'
<1>1. RowsGrow
  BY SameRows, Zenon
<1>2. TxOK' /\ tx' \in [Txns -> Txn] /\ \A u \in Txns \ {t} : tx'[u] = tx[u]
  BY <1>1, TxnMoves, Zenon
<1>3. tx'["payment"] = tx["payment"]
  BY <1>2, Zenon DEF Txns
<1>4. FilesOK' /\ FilledOK' /\ Filled' = Filled
  BY FilesFrame, Zenon
<1>5. RequestOK' /\ ReaderOK' /\ ServedIsCleared'
  BY <1>4, RequestFrame, ReaderFrame, ServedFrame, Zenon
<1>6. PaymentOK' /\ DatedOK'
  BY <1>3, PaymentFrame, Zenon
<1>7. AttachmentsTypeOK'
  BY <1>2, Zenon DEF AttachmentsInv, AttachmentsTypeOK
<1> QED BY <1>2, <1>4, <1>5, <1>6, <1>7, Zenon DEF AttachmentsInv

(* It is between two rows, with nothing more or nothing at all written.     *)
LEMMA ScanRests ==
  ASSUME AttachmentsInv, NEW t \in Txns, t # "payment", NEW n \in Txn,
         tx' = [tx EXCEPT ![t] = n], row' = row, StoreGrows,
         n.st \in {"idle", "load", "commit"}, n.st = "load" => n.todo # {},
         t = "task" /\ n.st # "idle" => n.msg \in Ids \X Nat,
         DOMAIN n.wrote = {} \/ (n.wrote = tx[t].wrote /\ n.at = tx[t].at)
  PROVE  ScanOK(t)' /\ WroteOK(t)'
<1>1. tx'[t] = n
  BY Zenon DEF AttachmentsInv, AttachmentsTypeOK
<1>2. ScanOK(t)'
  BY <1>1, Zenon DEF ScanOK
<1>3. CASE DOMAIN n.wrote = {}
  BY <1>1, <1>2, <1>3, Zenon DEF WroteOK
<1>4. CASE n.wrote = tx[t].wrote /\ n.at = tx[t].at
  BY <1>1, <1>2, <1>4, WroteFrame, SameRows, Zenon
<1> QED BY <1>3, <1>4, Zenon

LEMMA BeginTaskKeeps ==
  ASSUME AttachmentsInv, NEW m \in queue, BeginTask(m)
  PROVE  AttachmentsInv'
<1> DEFINE n == [Idle EXCEPT !.st = "load", !.todo = {m[1]}, !.msg = m]
<1>1. /\ queue' = queue \ {m} /\ tx' = [tx EXCEPT !["task"] = n]
      /\ UNCHANGED <<row, blobs, request, reader, chain, claim, now, played, served, cleared>>
  BY Zenon DEF BeginTask
<1>2. /\ n \in Txn /\ n.st = "load" /\ n.todo # {} /\ DOMAIN n.wrote = {}
      /\ n.msg \in Ids \X Nat
  <2>1. m \in Ids \X Nat
    BY Zenon DEF AttachmentsInv, AttachmentsTypeOK
  <2>2. {m[1]} \subseteq Ids
    BY <2>1, Zenon
  <2> QED BY <2>1, <2>2, IdleType, Zenon DEF Txn
<1> HIDE DEF n
<1>3. StoreGrows /\ "task" \in Txns /\ "task" # "payment"
  BY <1>1, Zenon DEF StoreGrows, Txns
<1>4. ScanOK("task")' /\ WroteOK("task")'
  BY <1>1, <1>2, <1>3, ScanRests, Zenon
<1>5. queue' \subseteq Ids \X Nat /\ chain' \in Txns \cup {None}
  BY <1>1, Zenon DEF AttachmentsInv, AttachmentsTypeOK
<1> QED BY <1>1, <1>2, <1>3, <1>4, <1>5, ScanMoves, Zenon

LEMMA BeginSweepKeeps ==
  ASSUME AttachmentsInv, BeginSweep
  PROVE  AttachmentsInv'
<1> DEFINE n == [Idle EXCEPT !.st = "load", !.todo = SweepPage]
<1>1. /\ tx' = [tx EXCEPT !["sweep"] = n] /\ SweepPage # {}
      /\ UNCHANGED <<row, blobs, queue, request, reader, chain, claim, now, played, served, cleared>>
  BY Zenon DEF BeginSweep
<1>2. n \in Txn /\ n.st = "load" /\ n.todo # {} /\ DOMAIN n.wrote = {}
  <2>1. SweepPage \subseteq Ids
    BY Zenon DEF SweepPage
  <2> QED BY <1>1, <2>1, IdleType, Zenon DEF Txn
<1> HIDE DEF n
<1>3. StoreGrows /\ "sweep" \in Txns /\ "sweep" \notin {"payment", "task"}
  BY <1>1, Zenon DEF StoreGrows, Txns
<1>4. ScanOK("sweep")' /\ WroteOK("sweep")'
  BY <1>1, <1>2, <1>3, ScanRests, Zenon
<1>5. queue' \subseteq Ids \X Nat /\ chain' \in Txns \cup {None}
  BY <1>1, Zenon DEF AttachmentsInv, AttachmentsTypeOK
<1> QED BY <1>1, <1>2, <1>3, <1>4, <1>5, ScanMoves, Zenon

(* What comes after a row.                                                  *)
LEMMA AdvanceType ==
  ASSUME AttachmentsInv, NEW t \in Txns
  PROVE  /\ Advance(t) \in Txn /\ Advance(t).st \in {"load", "commit"}
         /\ Advance(t).st = "load" => Advance(t).todo # {}
         /\ Advance(t).wrote = tx[t].wrote /\ Advance(t).at = tx[t].at
         /\ Advance(t).msg = tx[t].msg
<1> DEFINE rest == tx[t].todo \ {First(tx[t].todo)}
           last == IF tx[t].set = None THEN tx[t].last ELSE tx[t].set.scan
           st == IF rest = {} THEN "commit" ELSE "load"
<1>1. tx[t] \in Txn
  BY Zenon DEF AttachmentsInv, AttachmentsTypeOK
<1>2. rest \subseteq Ids /\ last \in ScanStatuses \cup {None}
  BY <1>1, Zenon DEF Txn, Verdicts
<1>3. st \in {"load", "commit"} /\ (st = "load" => rest # {})
  BY Zenon
<1> DEFINE n == [tx[t] EXCEPT !.todo = rest, !.seen = None, !.set = None,
                              !.last = last, !.st = st]
<1>4. Advance(t) = n
  BY Zenon DEF Advance
<1> HIDE DEF rest, last, st
<1>5. /\ n.todo = rest /\ n.st = st /\ n.wrote = tx[t].wrote /\ n.at = tx[t].at
      /\ n.msg = tx[t].msg
  BY <1>1, Zenon DEF Txn
<1>6. n \in Txn
  BY <1>1, <1>2, <1>3, Zenon DEF Txn
<1> HIDE DEF n
<1> QED BY <1>3, <1>4, <1>5, <1>6, Zenon

LEMMA AdvanceFlushType ==
  ASSUME AttachmentsInv, NEW t \in Txns
  PROVE  /\ AdvanceFlush(t) \in Txn
         /\ AdvanceFlush(t).todo = tx[t].todo \ {First(tx[t].todo)}
         /\ AdvanceFlush(t).st = (IF AdvanceFlush(t).todo = {} THEN "commit" ELSE "flush")
         /\ AdvanceFlush(t).wrote = tx[t].wrote /\ AdvanceFlush(t).at = tx[t].at
<1> DEFINE rest == tx[t].todo \ {First(tx[t].todo)}
           st == IF rest = {} THEN "commit" ELSE "flush"
<1>1. tx[t] \in Txn
  BY Zenon DEF AttachmentsInv, AttachmentsTypeOK
<1>2. rest \subseteq Ids
  BY <1>1, Zenon DEF Txn
<1>3. st \in {"flush", "commit"}
  BY Zenon
<1> DEFINE n == [tx[t] EXCEPT !.todo = rest, !.st = st]
<1>4. AdvanceFlush(t) = n
  BY Zenon DEF AdvanceFlush
<1>5. rest = tx[t].todo \ {First(tx[t].todo)} /\ st = (IF rest = {} THEN "commit" ELSE "flush")
  BY Zenon
<1> HIDE DEF rest, st
<1>6. n.todo = rest /\ n.st = st /\ n.wrote = tx[t].wrote /\ n.at = tx[t].at
  BY <1>1, Zenon DEF Txn
<1>7. n \in Txn
  BY <1>1, <1>2, <1>3, Zenon DEF Txn
<1> HIDE DEF n
<1> QED BY <1>4, <1>5, <1>6, <1>7, Zenon

LEMMA LoadRowKeeps ==
  ASSUME AttachmentsInv, NEW t \in Txns, LoadRow(t)
  PROVE  AttachmentsInv'
<1> DEFINE i == First(tx[t].todo)
           s == [tx[t] EXCEPT !.st = "scan", !.seen = row[i]]
<1>1. /\ t # "payment" /\ tx[t].st = "load"
      /\ UNCHANGED <<row, blobs, queue, request, reader, claim, now, played, served, cleared>>
  BY Zenon DEF LoadRow
<1>2. \/ ~Visible(i) /\ tx' = [tx EXCEPT ![t] = Idle] /\ chain' = IF chain = t THEN None ELSE chain
      \/ Visible(i) /\ NeedsScan(row[i]) /\ tx' = [tx EXCEPT ![t] = s] /\ chain' = chain
      \/ Visible(i) /\ ~NeedsScan(row[i]) /\ tx' = [tx EXCEPT ![t] = Advance(t)] /\ chain' = chain
  BY Zenon DEF LoadRow
<1>3. /\ tx[t] \in Txn /\ tx[t].todo # {} /\ tx[t].todo \subseteq Ids
  BY <1>1, Zenon DEF AttachmentsInv, AttachmentsTypeOK, TxOK, ScanOK, Txn
<1>10. t = "task" => tx[t].msg \in Ids \X Nat
  BY <1>1, Zenon DEF AttachmentsInv, TxOK, ScanOK
<1>4. i \in Ids
  BY <1>3, FirstIsOneOf, Zenon
<1>5. StoreGrows
  BY <1>1, Zenon DEF StoreGrows
<1>6. /\ queue' \subseteq Ids \X Nat /\ chain' \in Txns \cup {None}
      /\ chain = "payment" => chain' = "payment"
  BY <1>1, <1>2, Zenon DEF AttachmentsInv, AttachmentsTypeOK
<1>7. CASE tx' = [tx EXCEPT ![t] = Idle]
  <2>1. ScanOK(t)' /\ WroteOK(t)'
    BY <1>1, <1>5, <1>7, IdleType, ScanRests, Zenon
  <2> QED BY <1>1, <1>5, <1>6, <1>7, <2>1, IdleType, ScanMoves, Zenon
<1>8. CASE Visible(i) /\ NeedsScan(row[i]) /\ tx' = [tx EXCEPT ![t] = s]
  <2>1. row[i] # None /\ row[i] \in Files /\ FileOK(row[i])
    BY <1>4, <1>8, Zenon DEF Visible, AttachmentsInv, AttachmentsTypeOK, FilesOK
  <2>2. /\ s \in Txn /\ s.st = "scan" /\ s.seen = row[i] /\ s.todo = tx[t].todo
        /\ s.wrote = tx[t].wrote /\ s.at = tx[t].at /\ s.msg = tx[t].msg
    BY <1>3, <2>1, Zenon DEF Txn
  <2>3. row[i].via # "generated"
    BY <1>8, <2>1, Zenon DEF NeedsScan, FileOK
  <2>4. i = First(s.todo)
    BY <2>2, Zenon
  <2> HIDE DEF s
  <2>5. tx'[t] = s
    BY <1>8, Zenon DEF AttachmentsInv, AttachmentsTypeOK
  <2>6. ScanOK(t)'
    BY <1>1, <1>3, <1>10, <2>1, <2>2, <2>3, <2>4, <2>5, Zenon DEF ScanOK, Seen
  <2>7. WroteOK(t)'
    BY <1>1, <1>5, <2>2, <2>5, WroteFrame, SameRows, Zenon
  <2> QED BY <1>1, <1>5, <1>6, <1>8, <2>2, <2>6, <2>7, ScanMoves, Zenon
<1>9. CASE tx' = [tx EXCEPT ![t] = Advance(t)]
  <2>1. ScanOK(t)' /\ WroteOK(t)'
    BY <1>1, <1>5, <1>9, <1>10, AdvanceType, ScanRests, Zenon
  <2> QED BY <1>1, <1>5, <1>6, <1>9, <2>1, AdvanceType, ScanMoves, Zenon
<1> QED BY <1>2, <1>7, <1>8, <1>9, Zenon

(* What a scan may say of the bytes it was given.                           *)
LEMMA OutcomeHolds ==
  ASSUME NEW f \in Files, NEW v, v \in {Verdict(f.content), "error"}
  PROVE  LET out == Outcome(f.content, f.media, v)
         IN  /\ out \in Verdicts
             /\ out.sanitized # None => out.sanitized = Derived(f.content)
             /\ out.scan = "clean" => /\ v = "clean" /\ f.content \notin Infected
                                      /\ f.media = "image" => out.sanitized = Derived(f.content)
<1>1. Derived(f.content) \in Keys
  BY Zenon DEF Keys, Files
<1>2. v \in {"clean", "infected", "error"} /\ (v = "clean" => f.content \notin Infected)
  BY Zenon DEF Verdict
<1> QED BY <1>1, <1>2, Zenon DEF Outcome, Verdicts, ScanStatuses

LEMMA ScanBytesKeeps ==
  ASSUME AttachmentsInv, NEW t \in Txns, NEW v \in {"clean", "infected", "error"},
         ScanBytes(t, v)
  PROVE  AttachmentsInv'
<1> DEFINE f == tx[t].seen
           out == Outcome(f.content, f.media, v)
           n == [tx[t] EXCEPT !.st = "flush", !.set = out]
<1>1. /\ tx[t].st = "scan" /\ v \in {Verdict(f.content), "error"}
      /\ blobs' = blobs \cup SavedBy(out)
      /\ cleared' = IF v = "clean" THEN cleared \cup {f.content} ELSE cleared
      /\ UNCHANGED <<row, queue, request, reader, chain, claim, now, played, served>>
  BY Zenon DEF ScanBytes
<1>2. tx' = [tx EXCEPT ![t] = n]
  BY Zenon DEF ScanBytes
<1>3. tx[t] \in Txn /\ t # "payment"
  BY <1>1, Zenon DEF AttachmentsInv, AttachmentsTypeOK, PaymentOK
<1>4. tx[t].todo # {} /\ tx[t].todo \subseteq Ids /\ Seen(t) /\ f \in Files
  BY <1>1, <1>3, Zenon DEF AttachmentsInv, TxOK, ScanOK, Txn, Seen
<1>15. t = "task" => tx[t].msg \in Ids \X Nat
  BY <1>1, <1>3, Zenon DEF AttachmentsInv, TxOK, ScanOK
<1>5. StoreGrows
  BY <1>1, Zenon DEF StoreGrows
<1>6. /\ out \in Verdicts
      /\ out.sanitized # None => out.sanitized = Derived(f.content)
      /\ out.scan = "clean" => /\ v = "clean" /\ f.content \notin Infected
                               /\ f.media = "image" => out.sanitized = Derived(f.content)
  BY <1>1, <1>4, OutcomeHolds, Zenon
<1>7. out.sanitized # None => out.sanitized \in blobs'
  BY <1>1, Zenon DEF SavedBy
<1> HIDE DEF out
<1>8. /\ n \in Txn /\ n.st = "flush" /\ n.set = out /\ n.seen = f /\ n.todo = tx[t].todo
      /\ n.wrote = tx[t].wrote /\ n.at = tx[t].at /\ n.msg = tx[t].msg
  BY <1>3, <1>6, Zenon DEF Txn
<1> HIDE DEF n
<1>9. tx'[t] = n
  BY <1>2, Zenon DEF AttachmentsInv, AttachmentsTypeOK
<1>10. Seen(t)'
  <2>1. First(tx'[t].todo) = First(tx[t].todo)
    BY <1>8, <1>9, Zenon
  <2> QED BY <1>1, <1>4, <1>8, <1>9, <2>1, Zenon DEF Seen
<1>11. Found(t)'
  BY <1>1, <1>6, <1>7, <1>8, <1>9, Zenon DEF Found
<1>12. ScanOK(t)'
  BY <1>4, <1>8, <1>9, <1>10, <1>11, <1>15, Zenon DEF ScanOK
<1>13. WroteOK(t)'
  BY <1>1, <1>5, <1>8, <1>9, WroteFrame, SameRows, Zenon
<1>14. queue' \subseteq Ids \X Nat /\ chain' \in Txns \cup {None}
  BY <1>1, Zenon DEF AttachmentsInv, AttachmentsTypeOK
<1> QED BY <1>1, <1>2, <1>3, <1>5, <1>8, <1>12, <1>13, <1>14, ScanMoves, Zenon

(* A transaction ends without a trace.                                      *)
LEMMA ScanEndsKeeps ==
  ASSUME AttachmentsInv, NEW t \in Txns, t # "payment", AbortDeadlocked(t) \/ CrashWorker(t)
  PROVE  AttachmentsInv'
<1>1. /\ tx' = [tx EXCEPT ![t] = Idle] /\ chain' = (IF chain = t THEN None ELSE chain)
      /\ queue' = queue \/ queue' = queue \cup ({tx[t].msg} \ {None})
      /\ UNCHANGED <<row, blobs, request, reader, claim, now, played, served, cleared>>
  BY Zenon DEF AbortDeadlocked, CrashWorker
<1>2. tx[t].msg \in (Ids \X Nat) \cup {None}
  <2>1. tx[t] \in Txn
    BY Zenon DEF AttachmentsInv, AttachmentsTypeOK
  <2> QED BY <2>1, Zenon DEF Txn
<1>3. queue' \subseteq Ids \X Nat /\ chain' \in Txns \cup {None}
  BY <1>1, <1>2, Zenon DEF AttachmentsInv, AttachmentsTypeOK
<1>4. StoreGrows /\ (chain = "payment" => chain' = "payment")
  BY <1>1, Zenon DEF StoreGrows
<1>5. ScanOK(t)' /\ WroteOK(t)'
  BY <1>1, <1>4, IdleType, ScanRests, Zenon
<1> QED BY <1>1, <1>3, <1>4, <1>5, IdleType, ScanMoves, Zenon

(* What a flush writes is true of its row.                                  *)
LEMMA UpdateHolds ==
  ASSUME AttachmentsInv, NEW t \in Txns, tx[t].st = "flush"
  PROVE  LET i == First(tx[t].todo)
         IN  /\ i \in Ids /\ UpdateOf(t) \in Updates
             /\ row[i] # None /\ UpdateOK(row[i], UpdateOf(t))
             /\ t # "payment" => row[i].via # "generated" /\ UpdateOf(t).starts = None
             /\ t = "payment" => /\ row[i].via # "core" /\ UpdateOf(t).starts = tx[t].at
                                 /\ UpdateOf(t).scan = None /\ UpdateOf(t).sanitized = None
<1> DEFINE i == First(tx[t].todo)
<1>1. tx[t] \in Txn
  BY Zenon DEF AttachmentsInv, AttachmentsTypeOK
<1>2. tx[t].todo # {} /\ tx[t].todo \subseteq Ids
  BY <1>1, Zenon DEF AttachmentsInv, TxOK, ScanOK, PaymentOK, Txn
<1>3. i \in tx[t].todo /\ i \in Ids
  BY <1>2, FirstIsOneOf, Zenon
<1>4. CASE t = "payment"
  <2>1. tx[t].at \in Nat /\ row[i] # None /\ row[i].via # "core"
    BY <1>3, <1>4, Zenon DEF AttachmentsInv, PaymentOK
  <2>2. UpdateOf(t) = [scan |-> None, sanitized |-> None, starts |-> tx[t].at]
    BY <1>4, Zenon DEF UpdateOf
  <2>3. None # "clean"
    BY AttachmentsAssumption, Zenon DEF ScanStatuses
  <2> QED BY <1>3, <1>4, <2>1, <2>2, <2>3 DEF Updates, UpdateOK
<1>5. CASE t # "payment"
  <2> DEFINE x == Changed(tx[t].set.scan, tx[t].seen.scan)
             y == IF tx[t].set.sanitized = None THEN None
                  ELSE Changed(tx[t].set.sanitized, tx[t].seen.sanitized)
             u == [scan |-> x, sanitized |-> y, starts |-> None]
  <2>1. Seen(t) /\ Found(t)
    BY <1>5, Zenon DEF AttachmentsInv, TxOK, ScanOK
  <2>2. UpdateOf(t) = u
    BY <1>5, Zenon DEF UpdateOf
  <2>3. tx[t].set.scan \in ScanStatuses /\ tx[t].set.sanitized \in Keys \cup {None}
    BY <2>1, Zenon DEF Found, Verdicts
  <2>4. x \in {tx[t].set.scan, None} /\ y \in {tx[t].set.sanitized, None}
    BY Zenon DEF Changed
  <2>5. y = None => tx[t].set.sanitized \in {None, tx[t].seen.sanitized}
    BY Zenon DEF Changed
  <2> HIDE DEF x, y
  <2>6. u.scan = x /\ u.sanitized = y /\ u.starts = None /\ u \in Updates
    BY <2>3, <2>4, Zenon DEF Updates
  <2> HIDE DEF u
  <2>7. /\ row[i] # None /\ row[i].via # "generated" /\ tx[t].seen \in Files
        /\ tx[t].seen.content = row[i].content /\ tx[t].seen.media = row[i].media
        /\ tx[t].seen.sanitized # None => row[i].sanitized = tx[t].seen.sanitized
    BY <2>1, Zenon DEF Seen
  <2>8. Derived(row[i].content) # None
    BY <2>7, AttachmentsAssumption, Zenon DEF Files
  <2>9. None # "clean"
    BY AttachmentsAssumption, Zenon DEF ScanStatuses
  <2>10. UpdateOK(row[i], u)
    <3>1. u.sanitized # None => u.sanitized = Derived(row[i].content) /\ u.sanitized \in blobs
      BY <2>1, <2>4, <2>6, <2>7, Zenon DEF Found
    <3>2. ASSUME u.scan = "clean"
          PROVE  /\ row[i].content \in cleared \ Infected
                 /\ row[i].media = "image" => Derived(row[i].content) \in {u.sanitized, row[i].sanitized}
      <4>1. tx[t].set.scan = "clean"
        BY <2>4, <2>6, <2>9, <3>2, Zenon
      <4>2. /\ row[i].content \in cleared \ Infected
            /\ row[i].media = "image" => tx[t].set.sanitized = Derived(row[i].content)
        BY <2>1, <2>7, <4>1, Zenon DEF Found
      <4> QED BY <2>4, <2>5, <2>6, <2>7, <2>8, <4>2, Zenon
    <3> QED BY <3>1, <3>2, Zenon DEF UpdateOK
  <2> QED BY <1>3, <1>5, <2>2, <2>6, <2>7, <2>10, Zenon
<1> QED BY <1>4, <1>5, Zenon

(* The row that is being flushed joins what its transaction has written.    *)
LEMMA FlushWrites ==
  ASSUME AttachmentsInv, NEW t \in Txns, tx[t].st = "flush", NEW w,
         w = [j \in DOMAIN tx[t].wrote \cup {First(tx[t].todo)} |->
                IF j = First(tx[t].todo) THEN UpdateOf(t) ELSE tx[t].wrote[j]]
  PROVE  /\ w \in Writes /\ DOMAIN w = DOMAIN tx[t].wrote \cup {First(tx[t].todo)}
         /\ tx'[t].wrote = w /\ tx'[t].at = tx[t].at /\ UNCHANGED <<row, blobs, cleared>> => WroteOK(t)'
<1> DEFINE i == First(tx[t].todo)
<1>1. PICK u \in Updates :
         /\ u = UpdateOf(t) /\ i \in Ids
         /\ row[i] # None /\ UpdateOK(row[i], u)
         /\ t # "payment" => row[i].via # "generated" /\ u.starts = None
         /\ t = "payment" => /\ row[i].via # "core" /\ u.starts = tx[t].at
                             /\ u.scan = None /\ u.sanitized = None
  BY UpdateHolds, Zenon
<1>2. PICK k \in Ids : k = First(tx[t].todo)
  BY <1>1, Zenon
<1>3. tx[t] \in Txn /\ WroteOK(t)
  BY Zenon DEF AttachmentsInv, AttachmentsTypeOK, TxOK
<1>4. /\ DOMAIN tx[t].wrote \subseteq Ids
      /\ \A j \in DOMAIN tx[t].wrote : tx[t].wrote[j] \in Updates
  BY <1>3, WroteType, Zenon
<1>5. w = [j \in DOMAIN tx[t].wrote \cup {k} |-> IF j = k THEN u ELSE tx[t].wrote[j]]
  BY <1>1, <1>2, Zenon
<1>6. DOMAIN w = DOMAIN tx[t].wrote \cup {k} /\ DOMAIN w \in SUBSET Ids
  BY <1>4, <1>5, Zenon
<1>7. w[k] = u /\ \A j \in DOMAIN tx[t].wrote : j # k => w[j] = tx[t].wrote[j]
  BY <1>5, Zenon
<1>8. w \in [DOMAIN w -> Updates]
  BY <1>4, <1>5, Zenon
<1>9. w \in Writes
  BY <1>6, <1>8, Zenon DEF Writes
<1>10. ASSUME tx'[t].wrote = w, tx'[t].at = tx[t].at, UNCHANGED <<row, blobs, cleared>>
       PROVE  WroteOK(t)'
  <2>1. /\ row'[k] # None /\ UpdateOK(row[k], u)'
        /\ t # "payment" => row'[k].via # "generated" /\ u.starts = None
        /\ t = "payment" => /\ row'[k].via # "core" /\ u.starts = tx'[t].at
                            /\ u.scan = None /\ u.sanitized = None
    BY <1>1, <1>2, <1>10, Zenon DEF UpdateOK
  <2>2. \A j \in DOMAIN tx[t].wrote : j # k =>
          /\ row'[j] # None /\ UpdateOK(row[j], w[j])'
          /\ t # "payment" => row'[j].via # "generated" /\ w[j].starts = None
          /\ t = "payment" => /\ row'[j].via # "core" /\ w[j].starts = tx'[t].at
                              /\ w[j].scan = None /\ w[j].sanitized = None
    <3>1. \A j \in DOMAIN tx[t].wrote : UpdateOK(row[j], w[j]) => UpdateOK(row[j], w[j])'
      BY <1>10, Zenon DEF UpdateOK
    <3> QED BY <1>3, <1>7, <1>10, <3>1, Zenon DEF WroteOK
  <2> SUFFICES ASSUME NEW j \in DOMAIN w
               PROVE  /\ row'[j] # None /\ UpdateOK(row[j], w[j])'
                      /\ t # "payment" => row'[j].via # "generated" /\ w[j].starts = None
                      /\ t = "payment" => /\ row'[j].via # "core" /\ w[j].starts = tx'[t].at
                                          /\ w[j].scan = None /\ w[j].sanitized = None
    BY <1>10, ZenonT(40) DEF WroteOK
  <2> QED BY <1>6, <1>7, <2>1, <2>2, Zenon
<1> QED BY <1>2, <1>6, <1>9, <1>10, Zenon

LEMMA ScanFlushKeeps ==
  ASSUME AttachmentsInv, NEW t \in Txns, t # "payment", FlushRow(t) \/ LockChain(t)
  PROVE  AttachmentsInv'
<1>1. UNCHANGED <<row, blobs, queue, request, reader, claim, now, played, served, cleared>>
  BY Zenon DEF FlushRow, LockChain
<1>2. tx[t] \in Txn /\ tx[t].st \in {"flush", "chain"}
  BY Zenon DEF AttachmentsInv, AttachmentsTypeOK, FlushRow, LockChain
<1>3. PICK w : /\ \/ Flushed(t, w) /\ ChainFree(t)
                  \/ /\ tx' = [tx EXCEPT ![t].st = "chain", ![t].wrote = w]
                     /\ chain' = chain /\ tx[t].st = "flush"
               /\ w \in Writes
               /\ tx'[t].wrote = w /\ tx'[t].at = tx[t].at => WroteOK(t)'
  <2>1. CASE FlushRow(t)
    <3> DEFINE v == [j \in DOMAIN tx[t].wrote \cup {First(tx[t].todo)} |->
                       IF j = First(tx[t].todo) THEN UpdateOf(t) ELSE tx[t].wrote[j]]
    <3>1. tx[t].st = "flush" /\ ((Flushed(t, v) /\ ChainFree(t))
                                 \/ (/\ tx' = [tx EXCEPT ![t].st = "chain", ![t].wrote = v]
                                     /\ chain' = chain))
      BY <2>1, Zenon DEF FlushRow
    <3>2. v \in Writes /\ (tx'[t].wrote = v /\ tx'[t].at = tx[t].at => WroteOK(t)')
      BY <1>1, <3>1, FlushWrites, Zenon
    <3> HIDE DEF v
    <3> QED BY <3>1, <3>2, Zenon
  <2>2. CASE LockChain(t)
    <3>1. Flushed(t, tx[t].wrote) /\ ChainFree(t) /\ tx[t].wrote \in Writes
      BY <1>2, <2>2, Zenon DEF LockChain, Txn
    <3>2. tx'[t].wrote = tx[t].wrote /\ tx'[t].at = tx[t].at => WroteOK(t)'
      BY <1>1, WroteFrame, SameRows, Zenon DEF StoreGrows
    <3> QED BY <3>1, <3>2, Zenon
  <2> QED BY <2>1, <2>2, Zenon
<1>4. StoreGrows /\ queue' \subseteq Ids \X Nat
  BY <1>1, Zenon DEF StoreGrows, AttachmentsInv, AttachmentsTypeOK
<1>5. ScanOK(t) /\ (t = "task" => tx[t].msg \in Ids \X Nat)
  BY <1>2, Zenon DEF AttachmentsInv, TxOK, ScanOK
<1>6. CASE Flushed(t, w) /\ ChainFree(t)
  <2> DEFINE n == [Advance(t) EXCEPT !.wrote = w]
  <2>1. tx' = [tx EXCEPT ![t] = n] /\ chain' = t /\ chain # "payment"
    BY <1>6, AttachmentsAssumption, Zenon DEF Flushed, ChainFree, Txns
  <2>2. /\ n \in Txn /\ n.st \in {"load", "commit"} /\ (n.st = "load" => n.todo # {})
        /\ n.wrote = w /\ n.at = tx[t].at /\ n.msg = tx[t].msg
    <3> DEFINE a == Advance(t)
    <3>1. /\ a \in Txn /\ a.st \in {"load", "commit"} /\ (a.st = "load" => a.todo # {})
          /\ a.at = tx[t].at /\ a.msg = tx[t].msg
      BY AdvanceType, Zenon
    <3> HIDE DEF a
    <3>2. n = [a EXCEPT !.wrote = w]
      BY Zenon DEF a
    <3> HIDE DEF n
    <3> QED BY <1>3, <3>1, <3>2, Zenon DEF Txn
  <2> HIDE DEF n
  <2>3. tx'[t] = n
    BY <2>1, Zenon DEF AttachmentsInv, AttachmentsTypeOK
  <2>4. ScanOK(t)'
    BY <1>5, <2>2, <2>3, Zenon DEF ScanOK
  <2>5. WroteOK(t)'
    BY <1>3, <2>2, <2>3, Zenon
  <2> QED BY <1>1, <1>4, <2>1, <2>2, <2>4, <2>5, ScanMoves, Zenon
<1>7. CASE /\ tx' = [tx EXCEPT ![t].st = "chain", ![t].wrote = w]
           /\ chain' = chain /\ tx[t].st = "flush"
  <2> DEFINE n == [tx[t] EXCEPT !.st = "chain", !.wrote = w]
  <2>1. tx' = [tx EXCEPT ![t] = n] /\ chain' \in Txns \cup {None}
    BY <1>7, Zenon DEF AttachmentsInv, AttachmentsTypeOK
  <2>2. /\ n \in Txn /\ n.st = "chain" /\ n.todo = tx[t].todo /\ n.seen = tx[t].seen
        /\ n.set = tx[t].set /\ n.wrote = w /\ n.at = tx[t].at /\ n.msg = tx[t].msg
    BY <1>2, <1>3, Zenon DEF Txn
  <2> HIDE DEF n
  <2>3. tx'[t] = n
    BY <2>1, Zenon DEF AttachmentsInv, AttachmentsTypeOK
  <2>4. Seen(t)'
    <3>1. First(tx'[t].todo) = First(tx[t].todo) /\ Seen(t)
      BY <1>5, <1>7, <2>2, <2>3, Zenon DEF ScanOK
    <3> QED BY <1>1, <2>2, <2>3, <3>1, Zenon DEF Seen
  <2>5. Found(t)'
    <3>1. Found(t)
      BY <1>5, <1>7, Zenon DEF ScanOK
    <3> QED BY <1>1, <2>2, <2>3, <3>1, Zenon DEF Found
  <2>6. ScanOK(t)'
    BY <1>5, <1>7, <2>2, <2>3, <2>4, <2>5, Zenon DEF ScanOK
  <2>7. WroteOK(t)'
    BY <1>3, <2>2, <2>3, Zenon
  <2> QED BY <1>1, <1>4, <1>7, <2>1, <2>2, <2>6, <2>7, ScanMoves, Zenon
<1> QED BY <1>3, <1>6, <1>7, Zenon

-----------------------------------------------------------------------------
(* Commits *)

(* A committed row is the old one with the columns that were carried.       *)
LEMMA CommittedRow ==
  ASSUME AttachmentsInv, NEW t \in Txns, NEW i \in Ids
  PROVE  LET r == row[i]
             n == Written(t)[i]
         IN  /\ i \notin DOMAIN tx[t].wrote => n = r
             /\ i \in DOMAIN tx[t].wrote =>
                  /\ r # None /\ n \in Files /\ FileOK(n) /\ Grown(r, n) /\ n.deleted = r.deleted
                  /\ t # "payment" => n.starts = r.starts
                  /\ t = "payment" => r.via # "core" /\ n.starts = Carried(tx[t].at, r.starts)
<1> DEFINE r == row[i]
           n == Written(t)[i]
<1>1. i \notin DOMAIN tx[t].wrote => n = r
  BY Zenon DEF Written
<1>2. ASSUME i \in DOMAIN tx[t].wrote
      PROVE  /\ r # None /\ n \in Files /\ FileOK(n) /\ Grown(r, n) /\ n.deleted = r.deleted
             /\ t # "payment" => n.starts = r.starts
             /\ t = "payment" => r.via # "core" /\ n.starts = Carried(tx[t].at, r.starts)
  <2> DEFINE u == tx[t].wrote[i]
             scan == Carried(u.scan, r.scan)
             sanitized == Carried(u.sanitized, r.sanitized)
             starts == Carried(u.starts, r.starts)
  <2>1. tx[t] \in Txn /\ WroteOK(t)
    BY Zenon DEF AttachmentsInv, AttachmentsTypeOK, TxOK
  <2>2. u \in Updates
    BY <1>2, <2>1, WroteType, Zenon
  <2>3. /\ r # None /\ UpdateOK(r, u)
        /\ t # "payment" => r.via # "generated" /\ u.starts = None
        /\ t = "payment" => r.via # "core" /\ u.starts = tx[t].at /\ u.scan = None /\ u.sanitized = None
    BY <1>2, <2>1, Zenon DEF WroteOK
  <2>4. r \in Files /\ FileOK(r)
    BY <2>3, Zenon DEF AttachmentsInv, AttachmentsTypeOK, FilesOK
  <2>5. n = [r EXCEPT !.scan = scan, !.sanitized = sanitized, !.starts = starts]
    BY <1>2, Zenon DEF Written
  <2>6. /\ scan = IF u.scan = None THEN r.scan ELSE u.scan
        /\ sanitized = IF u.sanitized = None THEN r.sanitized ELSE u.sanitized
        /\ starts = IF u.starts = None THEN r.starts ELSE u.starts
    BY Zenon DEF Carried
  <2>7. starts = Carried(u.starts, r.starts)
    BY Zenon
  <2> HIDE DEF scan, sanitized, starts
  <2>8. scan \in ScanStatuses /\ sanitized \in Keys \cup {None} /\ starts \in Nat \cup {None}
    BY <2>2, <2>4, <2>6, Zenon DEF Updates, Files, Keys
  <2>9. /\ n \in Files /\ n.scan = scan /\ n.sanitized = sanitized /\ n.starts = starts
        /\ n.content = r.content /\ n.media = r.media /\ n.via = r.via /\ n.origin = r.origin
        /\ n.class = r.class /\ n.deleted = r.deleted
    BY <2>4, <2>5, <2>8, Zenon DEF Files, Keys
  <2> HIDE DEF n
  <2>10. Derived(r.content) # None
    BY <2>4, AttachmentsAssumption, Zenon DEF Files
  <2>11. r.sanitized # None => sanitized = r.sanitized
    BY <2>3, <2>4, <2>6, Zenon DEF UpdateOK, FileOK
  <2>12. sanitized # None => sanitized = Derived(r.content) /\ sanitized \in blobs
    BY <2>3, <2>4, <2>6, Zenon DEF UpdateOK, FileOK
  <2>13. r.via = "generated" => scan = r.scan
    BY <2>3, <2>6, Zenon
  <2>14. scan = "clean" /\ r.via # "generated" =>
           /\ r.content \in cleared \ Infected
           /\ r.media = "image" => sanitized = Derived(r.content)
    <3>1. CASE u.scan = None
      BY <2>4, <2>6, <2>10, <2>11, <3>1, Zenon DEF FileOK
    <3>2. CASE u.scan # None
      BY <2>3, <2>6, <2>10, <2>11, <2>12, <3>2, Zenon DEF UpdateOK
    <3> QED BY <3>1, <3>2, Zenon
  <2>15. FileOK(n)
    BY <2>4, <2>9, <2>12, <2>13, <2>14, Zenon DEF FileOK
  <2>16. Grown(r, n)
    BY <2>9, <2>11, Zenon DEF Grown
  <2>17. t # "payment" => starts = r.starts
    BY <2>3, <2>6, Zenon
  <2>18. t = "payment" => starts = Carried(tx[t].at, r.starts)
    BY <2>3, <2>7, Zenon
  <2> QED BY <2>3, <2>9, <2>15, <2>16, <2>17, <2>18, Zenon
<1> QED BY <1>1, <1>2, Zenon

LEMMA CommitKeepsFiles ==
  ASSUME AttachmentsInv, NEW t \in Txns, row' = Written(t), blobs' = blobs, cleared' = cleared
  PROVE  /\ row' \in [Ids -> Files \cup {None}] /\ RowsGrow /\ StoreGrows
         /\ Filled' = Filled /\ FilledOK' /\ FilesOK'
         /\ \A i \in Ids : row[i] # None => row'[i].deleted = row[i].deleted
<1>1. \A i \in Ids : row[i] # None => row[i] \in Files /\ FileOK(row[i])
  BY Zenon DEF AttachmentsInv, AttachmentsTypeOK, FilesOK
<1>2. row' = [i \in Ids |-> row'[i]]
  BY Zenon DEF Written
<1>3. \A i \in Ids : row[i] = None => row'[i] = None
  BY CommittedRow, Zenon
<1>4. \A i \in Ids : row[i] # None =>
        /\ row'[i] \in Files /\ FileOK(row'[i]) /\ Grown(row[i], row'[i])
        /\ row'[i].deleted = row[i].deleted
  <2> SUFFICES ASSUME NEW i \in Ids, row[i] # None
               PROVE  /\ row'[i] \in Files /\ FileOK(row'[i]) /\ Grown(row[i], row'[i])
                      /\ row'[i].deleted = row[i].deleted
    BY Zenon
  <2>1. CASE i \in DOMAIN tx[t].wrote
    BY <2>1, CommittedRow, Zenon
  <2>2. CASE i \notin DOMAIN tx[t].wrote
    <3>1. row'[i] = row[i]
      BY <2>2, CommittedRow, Zenon
    <3>2. Grown(row[i], row[i])
      BY Zenon DEF Grown
    <3> QED BY <1>1, <3>1, <3>2, Zenon
  <2> QED BY <2>1, <2>2, Zenon
<1>5. \A i \in Ids : row[i] # None => row'[i] # None
  BY <1>4, AttachmentsAssumption, Zenon
<1>6. row' \in [Ids -> Files \cup {None}]
  BY <1>2, <1>3, <1>4, Zenon
<1>7. RowsGrow /\ StoreGrows
  BY <1>4, <1>5, Zenon DEF RowsGrow, StoreGrows
<1>8. Filled' = Filled
  BY <1>3, <1>5, Zenon DEF Filled
<1>9. FilledOK'
  BY <1>8, Zenon DEF AttachmentsInv, FilledOK
<1>10. FilesOK'
  BY <1>3, <1>4, Zenon DEF FilesOK, FileOK
<1> QED BY <1>4, <1>6, <1>7, <1>8, <1>9, <1>10, Zenon

LEMMA CommitKeeps ==
  ASSUME AttachmentsInv, NEW t \in Txns, CommitTxn(t)
  PROVE  AttachmentsInv'
<1>1. /\ tx[t].st = "commit" /\ row' = Written(t) /\ queue' = queue \cup Retried(t)
      /\ claim' = IF t = "payment" THEN [claim EXCEPT !.status = "closed", !.at = tx[t].at] ELSE claim
      /\ tx' = [tx EXCEPT ![t] = Idle] /\ chain' = (IF chain = t THEN None ELSE chain)
      /\ UNCHANGED <<blobs, request, reader, now, played, served, cleared>>
  BY Zenon DEF CommitTxn
<1>2. /\ row' \in [Ids -> Files \cup {None}] /\ RowsGrow /\ StoreGrows
      /\ Filled' = Filled /\ FilledOK' /\ FilesOK'
      /\ \A i \in Ids : row[i] # None => row'[i].deleted = row[i].deleted
  BY <1>1, CommitKeepsFiles, Zenon
<1>3. tx'[t] = Idle /\ tx[t] \in Txn
  BY <1>1, Zenon DEF AttachmentsInv, AttachmentsTypeOK
<1>4. ScanOK(t)' /\ WroteOK(t)'
  BY <1>3, IdleType, Zenon DEF ScanOK, WroteOK
<1>5. TxOK' /\ tx' \in [Txns -> Txn] /\ \A u \in Txns \ {t} : tx'[u] = tx[u]
  BY <1>1, <1>2, <1>4, IdleType, TxnMoves, Zenon
<1>6. RequestOK' /\ ReaderOK' /\ ServedIsCleared'
  BY <1>1, <1>2, RequestFrame, ReaderFrame, ServedFrame, Zenon
<1>7. queue' \subseteq Ids \X Nat
  <2>1. CASE t = "task"
    <3>1. tx[t].msg \in Ids \X Nat
      BY <1>1, <2>1, Zenon DEF AttachmentsInv, TxOK, ScanOK
    <3>2. <<tx[t].msg[1], tx[t].msg[2] + 1>> \in Ids \X Nat
      BY <3>1
    <3> QED BY <1>1, <3>2, Zenon DEF Retried, AttachmentsInv, AttachmentsTypeOK
  <2>2. CASE t # "task"
    BY <1>1, <2>2, Zenon DEF Retried, AttachmentsInv, AttachmentsTypeOK
  <2> QED BY <2>1, <2>2, Zenon
<1>8. CASE t = "payment"
  <2>1. /\ tx[t].at \in Nat /\ tx[t].todo = {} /\ claim.status = "paying"
        /\ \A i \in Ids : row[i] # None /\ row[i].via # "core" /\ ~row[i].deleted =>
             i \in DOMAIN tx[t].wrote
    BY <1>1, <1>8, Zenon DEF AttachmentsInv, PaymentOK
  <2>2. tx[t].at # None
    BY <2>1, AttachmentsAssumption, Zenon
  <2>3. /\ claim'.status = "closed" /\ claim'.at = tx[t].at
        /\ claim' \in [status : {"open", "paying", "closed"}, at : Nat \cup {None}, tries : Nat]
    BY <1>1, <1>8, <2>1, Zenon DEF AttachmentsInv, AttachmentsTypeOK
  <2>4. AttachmentsTypeOK'
    BY <1>1, <1>2, <1>5, <1>7, <2>3, Zenon DEF AttachmentsInv, AttachmentsTypeOK
  <2>5. PaymentOK'
    BY <1>3, <1>8, <2>3, IdleType, Zenon DEF PaymentOK
  <2>6. DatedOK'
    <3> SUFFICES ASSUME NEW i \in Ids, row'[i] # None
                 PROVE  /\ row'[i].starts # None => row'[i].via # "core" /\ row'[i].starts = tx[t].at
                        /\ row'[i].via # "core" /\ ~row'[i].deleted => row'[i].starts = tx[t].at
      BY <2>1, <2>3, Zenon DEF DatedOK
    <3>1. row[i] # None /\ row[i].starts = None
      <4>1. row[i] # None
        BY <1>2, Zenon DEF Filled
      <4> QED BY <2>1, <4>1, Zenon DEF AttachmentsInv, DatedOK
    <3>2. row'[i].via = row[i].via /\ row'[i].deleted = row[i].deleted
      BY <1>2, <3>1, Zenon DEF RowsGrow, Grown
    <3>3. CASE i \in DOMAIN tx[t].wrote
      <4>1. row'[i].starts = Carried(tx[t].at, row[i].starts) /\ row[i].via # "core"
        BY <1>1, <1>8, <3>3, CommittedRow, Zenon
      <4> QED BY <2>2, <3>2, <4>1, Zenon DEF Carried
    <3>4. CASE i \notin DOMAIN tx[t].wrote
      <4>1. row'[i] = row[i]
        BY <1>1, <3>4, CommittedRow, Zenon
      <4> QED BY <2>1, <3>1, <3>4, <4>1, Zenon
    <3> QED BY <3>3, <3>4, Zenon
  <2> QED BY <1>2, <1>5, <1>6, <2>4, <2>5, <2>6, Zenon DEF AttachmentsInv
<1>9. CASE t # "payment"
  <2>1. claim' = claim /\ tx'["payment"] = tx["payment"] /\ (chain = "payment" => chain' = "payment")
    BY <1>1, <1>5, <1>9, Zenon DEF Txns
  <2>2. AttachmentsTypeOK'
    BY <1>1, <1>2, <1>5, <1>7, <2>1, Zenon DEF AttachmentsInv, AttachmentsTypeOK
  <2>3. \A i \in Ids : (row'[i] # None <=> row[i] # None)
    BY <1>2, Zenon DEF Filled
  <2>4. \A i \in Ids : row[i] # None =>
          /\ row'[i].via = row[i].via /\ row'[i].deleted = row[i].deleted
          /\ row'[i].starts = row[i].starts
    <3> SUFFICES ASSUME NEW i \in Ids, row[i] # None
                 PROVE  /\ row'[i].via = row[i].via /\ row'[i].deleted = row[i].deleted
                        /\ row'[i].starts = row[i].starts
      BY Zenon
    <3>1. row'[i].via = row[i].via /\ row'[i].deleted = row[i].deleted
      BY <1>2, Zenon DEF RowsGrow, Grown
    <3>2. row'[i].starts = row[i].starts
      BY <1>1, <1>9, CommittedRow, Zenon
    <3> QED BY <3>1, <3>2, Zenon
  <2>5. DatedOK'
    BY <2>1, <2>3, <2>4, Zenon DEF AttachmentsInv, DatedOK
  <2>6. PaymentOK'
    <3>1. tx["payment"] \in Txn
      BY Zenon DEF AttachmentsInv, AttachmentsTypeOK, Txns
    <3>2. tx["payment"].todo \subseteq Ids
      BY <3>1, Zenon DEF Txn
    <3> QED BY <2>1, <2>3, <2>4, <3>2, Zenon DEF AttachmentsInv, PaymentOK
  <2> QED BY <1>2, <1>5, <1>6, <2>2, <2>5, <2>6, Zenon DEF AttachmentsInv
<1> QED BY <1>8, <1>9, Zenon

-----------------------------------------------------------------------------
(* The payment *)

LEMMA PaymentMoves ==
  ASSUME AttachmentsInv, NEW n \in Txn, tx' = [tx EXCEPT !["payment"] = n],
         claim' \in [status : {"open", "paying", "closed"}, at : Nat \cup {None}, tries : Nat],
         chain' \in Txns \cup {None}, WroteOK("payment")', PaymentOK', DatedOK',
         UNCHANGED <<row, blobs, queue, request, reader, now, played, served, cleared>>
  PROVE  AttachmentsInv'
<1>1. RowsGrow /\ StoreGrows /\ "payment" \in Txns
  BY SameRows, Zenon DEF StoreGrows, Txns
<1>2. ScanOK("payment")'
  BY Zenon DEF ScanOK
<1>3. TxOK' /\ tx' \in [Txns -> Txn]
  BY <1>1, <1>2, TxnMoves, Zenon
<1>4. FilesOK' /\ FilledOK' /\ Filled' = Filled
  BY <1>1, FilesFrame, Zenon
<1>5. RequestOK' /\ ReaderOK' /\ ServedIsCleared'
  BY <1>1, <1>4, RequestFrame, ReaderFrame, ServedFrame, Zenon
<1>6. AttachmentsTypeOK'
  BY <1>3, Zenon DEF AttachmentsInv, AttachmentsTypeOK
<1> QED BY <1>3, <1>4, <1>5, <1>6, Zenon DEF AttachmentsInv

(* Until the payment commits, no file carries a date.                       *)
LEMMA UnpaidIsUndated ==
  ASSUME AttachmentsInv, row' = row, claim.status # "closed", claim'.status # "closed"
  PROVE  DatedOK'
  BY Zenon DEF AttachmentsInv, DatedOK

LEMMA BeginPaymentKeeps ==
  ASSUME AttachmentsInv, BeginPayment
  PROVE  AttachmentsInv'
<1> DEFINE n == [Idle EXCEPT !.st = "load", !.at = now]
<1>1. /\ claim.status = "open" /\ chain' = "payment" /\ tx' = [tx EXCEPT !["payment"] = n]
      /\ claim' = [claim EXCEPT !.status = "paying", !.tries = claim.tries + 1]
      /\ UNCHANGED <<row, blobs, queue, request, reader, now, played, served, cleared>>
  BY Zenon DEF BeginPayment
<1>2. now \in Nat
  BY Zenon DEF AttachmentsInv, AttachmentsTypeOK
<1>3. n \in Txn /\ n.st = "load" /\ n.at = now /\ DOMAIN n.wrote = {}
  BY <1>2, IdleType, Zenon DEF Txn
<1> HIDE DEF n
<1>4. tx'["payment"] = n /\ "payment" \in Txns
  BY <1>1, Zenon DEF AttachmentsInv, AttachmentsTypeOK, Txns
<1>5. /\ claim' \in [status : {"open", "paying", "closed"}, at : Nat \cup {None}, tries : Nat]
      /\ claim'.status = "paying"
  <2> DEFINE k == claim.tries + 1
  <2>1. /\ claim \in [status : {"open", "paying", "closed"}, at : Nat \cup {None}, tries : Nat]
        /\ k \in Nat
    BY DEF AttachmentsInv, AttachmentsTypeOK
  <2> HIDE DEF k
  <2>2. claim' = [claim EXCEPT !.status = "paying", !.tries = k]
    BY <1>1, Zenon DEF k
  <2> QED BY <2>1, <2>2, Zenon
<1>6. WroteOK("payment")'
  BY <1>3, <1>4, Zenon DEF WroteOK
<1>7. PaymentOK'
  BY <1>1, <1>2, <1>3, <1>4, <1>5, Zenon DEF PaymentOK
<1>8. DatedOK'
  BY <1>1, <1>5, UnpaidIsUndated, Zenon
<1> QED BY <1>1, <1>3, <1>4, <1>5, <1>6, <1>7, <1>8, PaymentMoves, Zenon

LEMMA SelectFilesKeeps ==
  ASSUME AttachmentsInv, SelectFiles
  PROVE  AttachmentsInv'
<1> DEFINE p == tx["payment"]
           files == {i \in Ids : row[i] # None /\ Stamps(row[i])}
           st == IF files = {} THEN "commit" ELSE "flush"
           n == [p EXCEPT !.todo = files, !.st = st]
<1>1. /\ p.st = "load" /\ tx' = [tx EXCEPT !["payment"] = n]
      /\ UNCHANGED <<row, blobs, queue, request, reader, chain, claim, now, played, served, cleared>>
  BY Zenon DEF SelectFiles
<1>2. p \in Txn /\ "payment" \in Txns
  BY Zenon DEF AttachmentsInv, AttachmentsTypeOK, Txns
<1>3. /\ files \subseteq Ids /\ st \in {"commit", "flush"}
      /\ st = "commit" => files = {}
      /\ st = "flush" => files # {}
  BY Zenon
<1>4. /\ claim.status = "paying" /\ chain = "payment" /\ p.at \in Nat
  BY <1>1, Zenon DEF AttachmentsInv, PaymentOK
<1>5. \A i \in Ids : row[i] # None /\ row[i].via # "core" /\ ~row[i].deleted => i \in files
  <2>1. \A i \in Ids : row[i] # None => row[i].starts = None
    BY <1>4, Zenon DEF AttachmentsInv, DatedOK
  <2> QED BY <2>1, Zenon DEF Stamps
<1>6. \A i \in files : row[i] # None /\ row[i].via # "core"
  BY Zenon DEF Stamps
<1> HIDE DEF files, st
<1>7. n \in Txn /\ n.todo = files /\ n.st = st /\ n.wrote = p.wrote /\ n.at = p.at
  BY <1>2, <1>3, Zenon DEF Txn
<1> HIDE DEF n
<1>8. tx'["payment"] = n
  BY <1>1, <1>2, Zenon DEF AttachmentsInv, AttachmentsTypeOK
<1>9. WroteOK("payment")'
  BY <1>1, <1>2, <1>7, <1>8, WroteFrame, SameRows, Zenon DEF StoreGrows
<1>10. PaymentOK'
  BY <1>1, <1>3, <1>4, <1>5, <1>6, <1>7, <1>8, Zenon DEF PaymentOK
<1>11. DatedOK'
  BY <1>1, <1>4, UnpaidIsUndated, Zenon
<1>12. /\ claim' \in [status : {"open", "paying", "closed"}, at : Nat \cup {None}, tries : Nat]
       /\ chain' \in Txns \cup {None}
  BY <1>1, Zenon DEF AttachmentsInv, AttachmentsTypeOK
<1> QED BY <1>1, <1>7, <1>9, <1>10, <1>11, <1>12, PaymentMoves, Zenon

LEMMA PaymentFlushKeeps ==
  ASSUME AttachmentsInv, FlushRow("payment")
  PROVE  AttachmentsInv'
<1> DEFINE p == tx["payment"]
           k == First(p.todo)
           w == [j \in DOMAIN p.wrote \cup {k} |-> IF j = k THEN UpdateOf("payment") ELSE p.wrote[j]]
           n == [AdvanceFlush("payment") EXCEPT !.wrote = w]
<1>1. /\ p.st = "flush"
      /\ UNCHANGED <<row, blobs, queue, request, reader, claim, now, played, served, cleared>>
  BY Zenon DEF FlushRow
<1>2. /\ claim.status = "paying" /\ chain = "payment" /\ p.at \in Nat /\ "payment" \in Txns
      /\ \A i \in p.todo : row[i] # None /\ row[i].via # "core"
      /\ \A i \in Ids : row[i] # None /\ row[i].via # "core" /\ ~row[i].deleted =>
           i \in p.todo \cup DOMAIN p.wrote
  BY <1>1, Zenon DEF AttachmentsInv, PaymentOK, Txns
<1>3. tx' = [tx EXCEPT !["payment"] = n] /\ chain' = "payment"
  BY <1>2, Zenon DEF FlushRow, ChainFree, Flushed
<1>4. /\ w \in Writes /\ DOMAIN w = DOMAIN p.wrote \cup {k}
      /\ tx'["payment"].wrote = w /\ tx'["payment"].at = p.at => WroteOK("payment")'
  BY <1>1, <1>2, FlushWrites, Zenon
<1> HIDE DEF w
<1>5. /\ n \in Txn /\ n.todo = p.todo \ {k} /\ n.wrote = w /\ n.at = p.at
      /\ n.st \in {"commit", "flush"}
      /\ n.st = "commit" => n.todo = {}
      /\ n.st = "flush" => n.todo # {}
  <2> DEFINE a == AdvanceFlush("payment")
  <2>1. /\ a \in Txn /\ a.todo = p.todo \ {k} /\ a.at = p.at
        /\ a.st = (IF a.todo = {} THEN "commit" ELSE "flush")
    BY <1>2, AdvanceFlushType, Zenon
  <2>2. /\ a.st \in {"commit", "flush"}
        /\ a.st = "commit" => a.todo = {}
        /\ a.st = "flush" => a.todo # {}
    BY <2>1, Zenon
  <2> HIDE DEF a
  <2>3. n = [a EXCEPT !.wrote = w]
    BY Zenon DEF a
  <2> HIDE DEF n
  <2>4. n \in Txn /\ n.todo = a.todo /\ n.wrote = w /\ n.at = a.at /\ n.st = a.st
    BY <1>4, <2>1, <2>3, Zenon DEF Txn
  <2> QED BY <2>1, <2>2, <2>4, Zenon
<1> HIDE DEF n
<1>6. tx'["payment"] = n
  BY <1>2, <1>3, Zenon DEF AttachmentsInv, AttachmentsTypeOK
<1>7. WroteOK("payment")'
  BY <1>4, <1>5, <1>6, Zenon
<1>8. PaymentOK'
  BY <1>1, <1>2, <1>3, <1>4, <1>5, <1>6, Zenon DEF PaymentOK
<1>9. DatedOK'
  BY <1>1, <1>2, UnpaidIsUndated, Zenon
<1>10. /\ claim' \in [status : {"open", "paying", "closed"}, at : Nat \cup {None}, tries : Nat]
       /\ chain' \in Txns \cup {None}
  BY <1>1, <1>2, <1>3, Zenon DEF AttachmentsInv, AttachmentsTypeOK
<1> QED BY <1>1, <1>3, <1>5, <1>7, <1>8, <1>9, <1>10, PaymentMoves, Zenon

LEMMA PaymentAbortKeeps ==
  ASSUME AttachmentsInv, AbortDeadlocked("payment")
  PROVE  AttachmentsInv'
<1>1. /\ tx' = [tx EXCEPT !["payment"] = Idle] /\ chain' = (IF chain = "payment" THEN None ELSE chain)
      /\ claim' = [claim EXCEPT !.status = "open"]
      /\ UNCHANGED <<row, blobs, queue, request, reader, now, played, served, cleared>>
  BY Zenon DEF AbortDeadlocked
<1>2. tx["payment"].st # "idle" /\ claim.status = "paying"
  BY Zenon DEF AbortDeadlocked, WaitsFor, AttachmentsInv, PaymentOK
<1>3. /\ claim' \in [status : {"open", "paying", "closed"}, at : Nat \cup {None}, tries : Nat]
      /\ claim'.status = "open" /\ chain' \in Txns \cup {None}
  BY <1>1, Zenon DEF AttachmentsInv, AttachmentsTypeOK
<1>4. tx'["payment"] = Idle
  BY <1>1, Zenon DEF AttachmentsInv, AttachmentsTypeOK, Txns
<1>5. WroteOK("payment")' /\ PaymentOK'
  BY <1>3, <1>4, IdleType, Zenon DEF WroteOK, PaymentOK
<1>6. DatedOK'
  BY <1>1, <1>2, <1>3, UnpaidIsUndated, Zenon
<1> QED BY <1>1, <1>3, <1>5, <1>6, IdleType, PaymentMoves, Zenon

-----------------------------------------------------------------------------
LEMMA InvNext ==
  ASSUME AttachmentsInv, [Next]_vars
  PROVE  AttachmentsInv'
<1>1. CASE Upload
  <2>1. ASSUME NEW c \in Contents, NEW via \in {"evidence", "generated", "core"}, SaveBytes(c, via)
        PROVE  AttachmentsInv'
    BY <2>1, SaveBytesKeeps, Zenon
  <2>2. CASE CommitUpload
    BY <2>2, CommitUploadKeeps, Zenon
  <2>3. CASE DrainScans \/ CrashRequest
    BY <2>3, DrainScansKeeps, Zenon
  <2> QED BY <1>1, <2>1, <2>2, <2>3, Zenon DEF Upload
<1>2. ASSUME NEW m \in queue, BeginTask(m)
      PROVE  AttachmentsInv'
  BY <1>2, BeginTaskKeeps, Zenon
<1>3. CASE BeginSweep
  BY <1>3, BeginSweepKeeps, Zenon
<1>4. ASSUME NEW t \in Txns, Scans(t)
      PROVE  AttachmentsInv'
  <2>1. CASE LoadRow(t)
    BY <2>1, LoadRowKeeps, Zenon
  <2>2. ASSUME NEW v \in {"clean", "infected", "error"}, ScanBytes(t, v)
        PROVE  AttachmentsInv'
    BY <2>2, ScanBytesKeeps, Zenon
  <2> QED BY <1>4, <2>1, <2>2, Zenon DEF Scans
<1>5. ASSUME NEW t \in Txns, Steps(t)
      PROVE  AttachmentsInv'
  <2>1. CASE FlushRow(t) /\ t # "payment"
    BY <2>1, ScanFlushKeeps, Zenon
  <2>2. CASE FlushRow(t) /\ t = "payment"
    BY <2>2, PaymentFlushKeeps, Zenon
  <2>3. CASE LockChain(t)
    <3>1. t # "payment"
      BY <2>3, Zenon DEF LockChain, AttachmentsInv, PaymentOK
    <3> QED BY <2>3, <3>1, ScanFlushKeeps, Zenon
  <2>4. CASE CommitTxn(t)
    BY <2>4, CommitKeeps, Zenon
  <2>5. CASE AbortDeadlocked(t) /\ t # "payment"
    BY <2>5, ScanEndsKeeps, Zenon
  <2>6. CASE AbortDeadlocked(t) /\ t = "payment"
    BY <2>6, PaymentAbortKeeps, Zenon
  <2> QED BY <1>5, <2>1, <2>2, <2>3, <2>4, <2>5, <2>6, Zenon DEF Steps
<1>6. ASSUME NEW t \in Txns, CrashWorker(t)
      PROVE  AttachmentsInv'
  <2>1. t # "payment"
    BY <1>6, Zenon DEF CrashWorker
  <2> QED BY <1>6, <2>1, ScanEndsKeeps, Zenon
<1>7. CASE BeginPayment
  BY <1>7, BeginPaymentKeeps, Zenon
<1>8. CASE SelectFiles
  BY <1>8, SelectFilesKeeps, Zenon
<1>9. ASSUME NEW i \in Ids, SoftDelete(i) \/ PlaceHold(i)
      PROVE  AttachmentsInv'
  BY <1>9, MarkKeeps, Zenon
<1>10. ASSUME (\E i \in Ids : LoadForDownload(i)) \/ Refuse \/ Serve
       PROVE  AttachmentsInv'
  BY <1>10, DownloadKeeps, Zenon
<1>11. CASE Tick
  BY <1>11, TickKeeps, Zenon
<1>12. CASE UNCHANGED vars
  <2>1. UNCHANGED <<row, blobs, queue, request, reader, tx, chain, claim, now, played, served, cleared>>
    BY <1>12, Zenon DEF vars
  <2>2. RowsGrow /\ StoreGrows
    BY <2>1, SameRows, Zenon DEF StoreGrows
  <2>3. AttachmentsTypeOK'
    BY <2>1, Zenon DEF AttachmentsInv, AttachmentsTypeOK
  <2>4. FilesOK' /\ FilledOK' /\ Filled' = Filled
    BY <2>1, <2>2, FilesFrame, Zenon
  <2>5. RequestOK' /\ ReaderOK' /\ ServedIsCleared'
    BY <2>1, <2>2, <2>4, RequestFrame, ReaderFrame, ServedFrame, Zenon
  <2>6. TxOK'
    BY <2>1, <2>2, NoTxnMoves, Zenon
  <2>7. PaymentOK' /\ DatedOK'
    BY <2>1, PaymentFrame, Zenon
  <2> QED BY <2>3, <2>4, <2>5, <2>6, <2>7, Zenon DEF AttachmentsInv
<1> QED BY <1>1, <1>2, <1>3, <1>4, <1>5, <1>6, <1>7, <1>8, <1>9, <1>10, <1>11, <1>12, Zenon DEF Next

(* The inductive invariant: every row says the truth about its bytes, and   *)
(* so does every verdict, unflushed update, loaded row and payment that is  *)
(* on its way to a row.                                                     *)
THEOREM AttachmentsInvariant == Spec => []AttachmentsInv
<1>1. Init => AttachmentsInv
  BY InitInv, Zenon
<1>2. AttachmentsInv /\ [Next]_vars => AttachmentsInv'
  BY InvNext, Zenon
<1> QED BY <1>1, <1>2, PTL DEF Spec

(* download_attachment serves only bytes a scan has called clean, or that   *)
(* the platform produced, and an uploaded image only re-encoded, however    *)
(* scans, sweeps, deletions and downloads overlap.                          *)
THEOREM EveryDownloadIsCleared == Spec => []ServedIsCleared
<1>1. AttachmentsInv => ServedIsCleared
  BY Zenon DEF AttachmentsInv
<1> QED BY <1>1, AttachmentsInvariant, PTL

(* A row process_attachment has left clean can be served: what serve_key    *)
(* names is in the store, whichever transaction's columns came last.        *)
THEOREM EveryReadyFileIsServable == Spec => []ReadyIsServable
<1>1. AttachmentsInv => ReadyIsServable
  <2> SUFFICES ASSUME AttachmentsInv, NEW i \in Ids, row[i] # None, row[i].scan = "clean"
               PROVE  /\ ServedKey(row[i]) \in blobs
                      /\ MediaOf[row[i].content] \in {"image", "pdf"}
                      /\ row[i].media = "image" => row[i].sanitized = Derived(row[i].content)
    BY Zenon DEF ReadyIsServable, Ready
  <2>1. row[i] \in Files /\ FileOK(row[i])
    BY Zenon DEF AttachmentsInv, AttachmentsTypeOK, FilesOK
  <2>2. row[i].media \in {"image", "pdf"}
    BY <2>1, Zenon DEF Files
  <2> QED BY <2>1, <2>2, Zenon DEF FileOK, ServedKey
<1> QED BY <1>1, AttachmentsInvariant, PTL

(* start_retention dates the claim's whole live file in the transaction of  *)
(* the payment, and disposal_eligibility_report names no file before its    *)
(* claim has been paid for ten years.                                       *)
THEOREM EveryFileIsDated == Spec => []FilesAreDated
<1>1. AttachmentsInv => FilesAreDated
  <2> SUFFICES ASSUME AttachmentsInv, NEW i \in Ids, row[i] # None
               PROVE  /\ claim.status = "closed" /\ row[i].via # "core" /\ ~row[i].deleted
                           => row[i].starts = claim.at
                      /\ i \in DisposalReport =>
                           claim.status = "closed" /\ row[i].via # "core" /\ ~row[i].hold
                           /\ claim.at + 10 <= now
    BY Zenon DEF FilesAreDated
  <2>1. claim.status = "closed" /\ row[i].via # "core" /\ ~row[i].deleted => row[i].starts = claim.at
    BY Zenon DEF AttachmentsInv, DatedOK
  <2>2. ASSUME i \in DisposalReport
        PROVE  claim.status = "closed" /\ row[i].via # "core" /\ ~row[i].hold /\ claim.at + 10 <= now
    <3>1. /\ ~row[i].hold /\ RetainUntil(row[i].class, row[i].starts) # None
          /\ RetainUntil(row[i].class, row[i].starts) <= now
      BY <2>2, Zenon DEF DisposalReport, Eligible
    <3>2. row[i].starts # None
      BY <3>1, Zenon DEF RetainUntil
    <3>3. /\ claim.status = "closed" /\ row[i].via # "core" /\ row[i].starts = claim.at
          /\ row[i].class = "financial_dv_10y"
      BY <3>2, Zenon DEF AttachmentsInv, DatedOK, FilesOK, FileOK
    <3>4. RetentionYears["financial_dv_10y"] = 10 /\ 10 # None
      <4>1. None \notin Nat
        BY ONLY AttachmentsAssumption, Zenon
      <4>2. RetentionYears["financial_dv_10y"] = 10
        BY ONLY Zenon DEF RetentionYears
      <4> QED BY ONLY <4>1, <4>2
    <3>5. RetainUntil(row[i].class, row[i].starts) = claim.at + 10
      BY <3>2, <3>3, <3>4, Zenon DEF RetainUntil
    <3> QED BY <3>1, <3>3, <3>5, Zenon
  <2> QED BY <2>1, <2>2, Zenon
<1> QED BY <1>1, AttachmentsInvariant, PTL
=============================================================================
