---------------------------- MODULE AtLeastOnce ----------------------------
(***************************************************************************)
(* What the notification outbox promises, without its transactions, queue  *)
(* and workers.  A notification is posted under a deduplication key, handed *)
(* to the mail transport zero or more times, and then either confirmed or   *)
(* given up.  Delivery is at least once: the promise bounds what may be     *)
(* claimed (nothing is confirmed that was never handed over, nothing is     *)
(* handed over that its recipient muted, no two standing notifications      *)
(* share a key), and leaves the number of copies open.                      *)
(***************************************************************************)
EXTENDS Naturals

CONSTANTS Ids, DedupKeys, NoKey

VARIABLES note,    \* per notification: its key, channel and standing
          copies   \* per notification: copies handed to the mail transport

vars == <<note, copies>>

Standings == {"unposted", "muted", "waiting", "confirmed", "given_up"}
Notes == [key: DedupKeys \cup {NoKey}, chan: {"email", "in_app"}, standing: Standings]

(* A standing notification holds its key: no second one may be posted.     *)
Holds(i, k) == k # NoKey /\ note[i].key = k /\ note[i].standing \notin {"unposted", "given_up"}
Free(k, i)  == \A j \in Ids \ {i} : ~Holds(j, k)

(* One transaction may post several notifications, all under free keys.    *)
Post ==
  /\ note' \in [Ids -> Notes]
  /\ \A i \in Ids : note'[i] # note[i] =>
       /\ note[i].standing = "unposted" /\ note'[i].standing \in {"waiting", "muted"}
       /\ \A j \in Ids \ {i} :
            note'[i].key = NoKey \/ note'[j].key # note'[i].key
              \/ note'[j].standing \in {"unposted", "given_up"}
  /\ copies' = copies

HandOver(i) ==
  /\ note[i].chan = "email" /\ note[i].standing \notin {"unposted", "muted"}
  /\ copies' = [copies EXCEPT ![i] = @ + 1]
  /\ note' = note

Confirm(i) ==
  /\ note[i].standing \notin {"unposted", "muted"}
  /\ note[i].chan = "email" => copies[i] > 0
  /\ Free(note[i].key, i)
  /\ note' = [note EXCEPT ![i].standing = "confirmed"]
  /\ copies' = copies

(* A failed attempt leaves the notification waiting; a late one may put a  *)
(* given-up notification back in line, if nobody took its key meanwhile.   *)
Wait(i) ==
  /\ note[i].standing \notin {"unposted", "muted", "confirmed"}
  /\ Free(note[i].key, i)
  /\ note' = [note EXCEPT ![i].standing = "waiting"]
  /\ copies' = copies

GiveUp(i) ==
  /\ note[i].standing \notin {"unposted", "muted"}
  /\ note' = [note EXCEPT ![i].standing = "given_up"]
  /\ copies' = copies

Init ==
  /\ note \in [Ids -> Notes] /\ \A i \in Ids : note[i].standing = "unposted"
  /\ copies = [i \in Ids |-> 0]

Next ==
  \/ Post
  \/ \E i \in Ids : HandOver(i) \/ Confirm(i) \/ Wait(i) \/ GiveUp(i)

Spec == Init /\ [][Next]_vars
=============================================================================
