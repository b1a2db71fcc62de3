------------------------------- MODULE Spool -------------------------------
(***************************************************************************)
(* What the store promises its callers: a table of deliveries on which     *)
(* every operation takes effect at once and for good, whatever happens to  *)
(* the process, the journal and its directory.  Store implements it.       *)
(***************************************************************************)
EXTENDS Delivery

VARIABLE table    \* the deliveries whose creation was acknowledged

Init == table = EmptyTable

Put(id, d) == table' = [table EXCEPT ![id] = d]

(* A key names at most one delivery at a time: a second request under it   *)
(* is answered from the first one, or refused, and changes nothing.        *)
Create(id, key, content, now) ==
  /\ table[id] = Absent
  /\ key # NoKey => \A other \in Live(table) : table[other].key # key
  /\ Put(id, New(key, content, now))

Claim(id, now) ==
  /\ id \in Live(table)
  /\ Due(table[id], now)
  /\ Put(id, Claimed(table[id], now))

Succeed(id, now) ==
  /\ id \in Live(table)
  /\ table[id].status = "in_flight"
  /\ Put(id, Succeeded(table[id], now))

Fail(id, next, now) ==
  /\ id \in Live(table)
  /\ table[id].status = "in_flight"
  /\ \/ Put(id, FailedForGood(table[id], now))
     \/ Put(id, Rescheduled(table[id], next, now))

Cancel(id, now) ==
  /\ id \in Live(table)
  /\ Cancelable(table[id])
  /\ Put(id, Canceled(table[id], now))

Retry(id, now) ==
  /\ id \in Live(table)
  /\ Retryable(table[id])
  /\ Put(id, Retried(table[id], now))

(* Retention forgets terminal deliveries only.                             *)
Prune(gone) ==
  /\ gone # {}
  /\ \A id \in gone : id \in Live(table) /\ Terminal(table[id])
  /\ table' = [id \in Ids |-> IF id \in gone THEN Absent ELSE table[id]]

Next ==
  \/ \E id \in Ids, now \in Times :
       \/ \E key \in Keys \union {NoKey}, content \in Contents :
            Create(id, key, content, now)
       \/ Claim(id, now)
       \/ Succeed(id, now)
       \/ \E next \in Times : Fail(id, next, now)
       \/ Cancel(id, now)
       \/ Retry(id, now)
  \/ \E gone \in SUBSET Ids : Prune(gone)

Spec == Init /\ [][Next]_table
============================================================================
