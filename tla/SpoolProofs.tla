----------------------------- MODULE SpoolProofs -----------------------------
(***************************************************************************)
(* Store implements Spool: whatever fails short of the machine, its        *)
(* acknowledged table changes by one operation at a time, claims in the    *)
(* order of their due dates; and, under every fault, a key is answered     *)
(* from the one live delivery that carries it.                             *)
(*                                                                         *)
(* The invariant says that what is in doubt is an operation the caller may *)
(* have asked for, and that along the records of any file a key passes to  *)
(* another delivery only after its holder was deleted.                     *)
(***************************************************************************)
EXTENDS StoreProofs

(* The one record of a creation, or of another operation on one delivery.  *)
Created(tbl, id, d, now) ==
  /\ id \notin Live(tbl)
  /\ \E key \in Keys \union {NoKey}, content \in Contents :
       /\ d = New(key, content, now)
       /\ key # NoKey => \A other \in Live(tbl) : tbl[other].key # key

FirstDue(tbl, id, now) ==
  \A other \in Live(tbl) :
    tbl[other].content = tbl[id].content /\ Due(tbl[other], now)
    => tbl[id].nextAttemptAt <= tbl[other].nextAttemptAt

Continued(tbl, id, d, now) ==
  /\ id \in Live(tbl)
  /\ \/ d = Claimed(tbl[id], now) /\ Due(tbl[id], now) /\ FirstDue(tbl, id, now)
     \/ d = Succeeded(tbl[id], now) /\ tbl[id].status = "in_flight"
     \/ d = FailedForGood(tbl[id], now) /\ tbl[id].status = "in_flight"
     \/ /\ \E next \in Times : d = Rescheduled(tbl[id], next, now)
        /\ tbl[id].status = "in_flight"
     \/ d = Canceled(tbl[id], now) /\ Cancelable(tbl[id])
     \/ d = Retried(tbl[id], now) /\ Retryable(tbl[id])

OfOne(tbl, es) ==
  /\ Len(es) = 1
  /\ \E now \in Times : \/ Created(tbl, es[1].id, es[1].item, now)
                        \/ Continued(tbl, es[1].id, es[1].item, now)

(* The records of one pass of retention, or none.                          *)
OfMany(tbl, es) ==
  \A i \in DOMAIN es :
    es[i].item = Absent /\ es[i].id \in Live(tbl) /\ Terminal(tbl[es[i].id])

Operation(tbl, es) == OfOne(tbl, es) \/ OfMany(tbl, es)

(* The chunks that replay applies of the file, however it is cut.          *)
Reached(es) ==
  {j \in DOMAIN es : es[j].part # "torn" /\ \A i \in 1 .. j - 1 : es[i].part = "line"}

(* Along them a delivery keeps its key, and a key passes to another only   *)
(* after its holder was deleted.                                           *)
KeysApart(es) ==
  \A j \in Reached(es), i \in DOMAIN es, key \in Keys :
    i < j /\ Sets(es, i, key) /\ es[j].item # Absent =>
      /\ es[j].id = es[i].id => es[j].item.key = key
      /\ es[j].item.key = key /\ es[j].id # es[i].id =>
           \E k \in i .. j : es[k].id = es[i].id /\ es[k].item = Absent

KeysInv ==
  /\ KeyIndexAgrees
  /\ Operation(promised, unacked)
  /\ \A f \in ({journal} \union shadows) \ {NoFile} : KeysApart(f.chunks)

(* Without power losses the journal's name never goes back, and the journal*)
(* is whole: it holds what was promised and a part of what is in doubt.    *)
Lossless ==
  /\ journal # NoFile =>
       /\ AllLines(journal.chunks)
       /\ \E n \in 0 .. Len(unacked) :
            Replay(journal.chunks) = Overlay(promised, Prefix(unacked, n))
  /\ journal = NoFile \/ proc = "creating" => promised = EmptyTable /\ unacked = <<>>

-----------------------------------------------------------------------------
(* Records and keys.                                                       *)

(* Two live deliveries have different keys when the index agrees.          *)
OneHolder(tbl) ==
  \A i, j \in Live(tbl) : tbl[i].key = tbl[j].key /\ tbl[i].key \in Keys => i = j

(* An index that agrees with the table gives each key one holder.          *)
LEMMA AgreeingIndex == ASSUME KeyIndexAgrees PROVE OneHolder(items)
<1> SUFFICES ASSUME NEW i \in Live(items), NEW j \in Live(items),
                    items[i].key = items[j].key, items[i].key \in Keys
             PROVE  i = j
  BY DEF OneHolder
<1>1. i \in Ids /\ j \in Ids /\ items[i] # Absent /\ items[j] # Absent
  BY DEF Live
<1>2. keyToID[items[i].key] = i /\ keyToID[items[i].key] = j
  BY <1>1 DEF KeyIndexAgrees
<1> QED BY <1>2

(* What an operation on one delivery does to keys: the delivery is new, and*)
(* its key free, or it keeps its key.                                      *)
LEMMA OneRecord ==
  ASSUME NEW tbl \in Tables, NEW es \in Seq(Chunks), OfOne(tbl, es)
  PROVE  /\ es[1].id \in Ids /\ es[1].item \in Deliveries /\ es[1].item # Absent
         /\ \/ /\ tbl[es[1].id] = Absent
               /\ es[1].item.key \in Keys =>
                    \A other \in Live(tbl) : tbl[other].key # es[1].item.key
            \/ tbl[es[1].id] # Absent /\ es[1].item.key = tbl[es[1].id].key
<1>1. PICK now \in Times : \/ Created(tbl, es[1].id, es[1].item, now)
                           \/ Continued(tbl, es[1].id, es[1].item, now)
  BY DEF OfOne
<1>2. es[1] \in Chunks
  <2>1. 1 \in 1 .. Len(es)
    BY DEF OfOne
  <2> QED BY <2>1, ElementOfSeq
<1>3. es[1].id \in Ids
  BY <1>2 DEF Chunks
<1>4. CASE Created(tbl, es[1].id, es[1].item, now)
  <2>1. PICK key \in Keys \union {NoKey}, content \in Contents :
          /\ es[1].item = New(key, content, now)
          /\ key # NoKey => \A other \in Live(tbl) : tbl[other].key # key
    BY <1>4 DEF Created
  <2>2. es[1].item \in Deliveries /\ es[1].item.key = key
    BY <2>1, TransitionsTyped DEF New
  <2>3. tbl[es[1].id] = Absent
    BY <1>3, <1>4 DEF Created, Live
  <2> QED BY <1>3, <2>1, <2>2, <2>3, KeysAssumption, AbsentAssumption
<1>5. CASE Continued(tbl, es[1].id, es[1].item, now)
  <2> DEFINE d == tbl[es[1].id]
  <2>1. d # Absent /\ d \in Deliveries
    BY <1>5 DEF Continued, Live, Tables
  <2> HIDE DEF d
  <2>2. /\ \/ es[1].item = Claimed(d, now) /\ Due(d, now)
           \/ es[1].item = Succeeded(d, now) /\ d.status = "in_flight"
           \/ es[1].item = FailedForGood(d, now) /\ d.status = "in_flight"
           \/ /\ \E next \in Times : es[1].item = Rescheduled(d, next, now)
              /\ d.status = "in_flight"
           \/ es[1].item = Canceled(d, now)
           \/ es[1].item = Retried(d, now) /\ Retryable(d)
    BY <1>5 DEF Continued, d
  <2>3. es[1].item \in Deliveries
    BY <2>1, <2>2, TransitionsTyped
  <2>4. es[1].item.key = d.key
    <3>1. d \in [key : Keys \union {NoKey}, content : Contents, status : Statuses,
                 attempts : Nat, nextAttemptAt : Nat, leaseUntil : Nat,
                 createdAt : Times, updatedAt : Times]
      BY <2>1 DEF Deliveries
    <3> QED BY <2>2, <3>1 DEF Claimed, Succeeded, FailedForGood, Rescheduled, Canceled, Retried
  <2> QED BY <1>3, <2>1, <2>3, <2>4, AbsentAssumption DEF d
<1> QED BY <1>1, <1>4, <1>5

(* A file that is a file of the other with its last chunk cut, or only the *)
(* first part of it, keeps keys apart.                                     *)
LEMMA ApartShortened ==
  ASSUME NEW es \in Seq(Chunks), NEW fs \in Seq(Chunks), KeysApart(es),
         Len(fs) <= Len(es),
         \A i \in 1 .. Len(fs) : fs[i].id = es[i].id /\ fs[i].item = es[i].item,
         \A i \in 1 .. Len(fs) : fs[i].part = "line" => es[i].part = "line",
         \A i \in 1 .. Len(fs) : fs[i].part # "torn" => es[i].part # "torn"
  PROVE  KeysApart(fs)
<1>1. /\ DOMAIN es = 1 .. Len(es) /\ DOMAIN fs = 1 .. Len(fs)
      /\ Len(es) \in Nat /\ Len(fs) \in Nat
  BY LenProperties
<1>2. ASSUME NEW j \in Reached(fs)
      PROVE  j \in Reached(es)
  <2>1. j \in 1 .. Len(fs) /\ j \in 1 .. Len(es)
    BY <1>1 DEF Reached
  <2>2. \A i \in 1 .. j - 1 : i \in 1 .. Len(fs)
    BY <1>1, <2>1
  <2> QED BY <1>1, <2>1, <2>2 DEF Reached
<1> SUFFICES ASSUME NEW j \in Reached(fs), NEW i \in DOMAIN fs, NEW key \in Keys,
                    i < j, Sets(fs, i, key), fs[j].item # Absent
             PROVE  /\ fs[j].id = fs[i].id => fs[j].item.key = key
                    /\ fs[j].item.key = key /\ fs[j].id # fs[i].id =>
                         \E k \in i .. j : fs[k].id = fs[i].id /\ fs[k].item = Absent
  BY DEF KeysApart
<1>3. j \in 1 .. Len(fs) /\ i \in 1 .. Len(fs) /\ i \in 1 .. Len(es) /\ j \in Reached(es)
  BY <1>1, <1>2 DEF Reached
<1>4. Sets(es, i, key) /\ es[j].item # Absent
  BY <1>3 DEF Sets
<1>5. /\ es[j].id = es[i].id => es[j].item.key = key
      /\ es[j].item.key = key /\ es[j].id # es[i].id =>
           \E k \in i .. j : es[k].id = es[i].id /\ es[k].item = Absent
  BY <1>1, <1>3, <1>4 DEF KeysApart
<1>6. \A k \in i .. j : k \in 1 .. Len(fs)
  BY <1>1, <1>3
<1> QED BY <1>3, <1>5, <1>6

(* What the machine failing leaves of a file is such a part.               *)
LEMMA ApartSurvives ==
  ASSUME NEW f \in Files \union {NoFile}, f # NoFile => KeysApart(f.chunks),
         NEW g \in Survivors(f)
  PROVE  g # NoFile => KeysApart(g.chunks)
<1> SUFFICES ASSUME g # NoFile PROVE KeysApart(g.chunks)
  OBVIOUS
<1>1. f # NoFile /\ f \in Files /\ KeysApart(f.chunks)
  BY DEF Survivors
<1>2. PICK cut \in Cuts(f.chunks, f.synced) : g = [chunks |-> cut, synced |-> Len(cut)]
  BY <1>1 DEF Survivors
<1> DEFINE es == f.chunks
<1>3. es \in Seq(Chunks) /\ Len(es) \in Nat /\ f.synced \in 0 .. Len(es)
  BY <1>1, LenProperties DEF Files
<1>4. cut \in WholeCuts(es, f.synced) \union TornCuts(es, f.synced)
  BY <1>2 DEF Cuts
<1> HIDE DEF es
<1>5. \A m \in 0 .. Len(es) :
        /\ Prefix(es, m) \in Seq(Chunks) /\ Len(Prefix(es, m)) = m
        /\ \A i \in 1 .. m : Prefix(es, m)[i] = es[i]
  <2>1. \A i \in 1 .. Len(es) : es[i] \in Chunks
    BY <1>3, ElementOfSeq
  <2> QED BY <1>3, <2>1, SubSeqProperties DEF Prefix
<1>6. KeysApart(es)
  BY <1>1 DEF es
<1>7. CASE cut \in WholeCuts(es, f.synced)
  <2>1. PICK m \in 0 .. Len(es) : cut = Prefix(es, m)
    BY <1>3, <1>7 DEF WholeCuts
  <2>2. /\ cut \in Seq(Chunks) /\ Len(cut) = m /\ m <= Len(es)
        /\ \A i \in 1 .. Len(cut) : cut[i] = es[i]
    BY <1>3, <1>5, <2>1
  <2>3. KeysApart(cut)
    BY <1>3, <1>6, <2>2, ApartShortened
  <2> QED BY <1>2, <2>3
<1>8. CASE cut \in TornCuts(es, f.synced)
  <2>1. PICK m \in 0 .. Len(es) - 1, part \in {"bare", "torn"} :
          /\ cut = Cut(es, m, part)
          /\ part = "bare" => es[m + 1].part = "line"
    BY <1>3, <1>8 DEF TornCuts, Shorter
  <2> DEFINE c == [es[m + 1] EXCEPT !.part = part]
  <2>2. m \in 0 .. Len(es) /\ m + 1 \in 1 .. Len(es)
    BY <1>3, <2>1
  <2>3. es[m + 1] \in Chunks
    BY <1>3, <2>2, ElementOfSeq
  <2>4. c \in Chunks /\ c.id = es[m + 1].id /\ c.item = es[m + 1].item /\ c.part = part
    BY <2>1, <2>3 DEF Chunks
  <2> HIDE DEF c
  <2>5. /\ cut \in Seq(Chunks) /\ Len(cut) = m + 1 /\ cut[m + 1] = c
        /\ \A i \in 1 .. m : cut[i] = es[i]
    BY <1>5, <2>1, <2>2, <2>4, AppendProperties DEF Cut, c
  <2>6. \A i \in 1 .. Len(cut) : i \in 1 .. m \/ i = m + 1
    BY <1>3, <2>2, <2>5
  <2>7. Len(cut) <= Len(es)
    BY <1>3, <2>2, <2>5
  <2>8. \A i \in 1 .. Len(cut) : cut[i].id = es[i].id /\ cut[i].item = es[i].item
    BY <2>4, <2>5, <2>6
  <2>9. \A i \in 1 .. Len(cut) : cut[i].part = "line" => es[i].part = "line"
    BY <2>1, <2>4, <2>5, <2>6
  <2>10. \A i \in 1 .. Len(cut) : cut[i].part # "torn" => es[i].part # "torn"
    BY <2>1, <2>4, <2>5, <2>6
  <2>11. KeysApart(cut)
    BY <1>3, <1>6, <2>5, <2>7, <2>8, <2>9, <2>10, ApartShortened
  <2> QED BY <1>2, <2>11
<1> QED BY <1>4, <1>7, <1>8

(* A snapshot of a table with one holder per key keeps keys apart.         *)
LEMMA ApartSnapshot ==
  ASSUME NEW tbl \in Tables, OneHolder(tbl), NEW es \in Seq(Chunks),
         \A i \in 1 .. Len(es) : es[i].item = tbl[es[i].id]
  PROVE  KeysApart(es)
<1> SUFFICES ASSUME NEW j \in DOMAIN es, NEW i \in DOMAIN es, NEW key \in Keys,
                    Sets(es, i, key), es[j].item # Absent
             PROVE  /\ es[j].id = es[i].id => es[j].item.key = key
                    /\ es[j].item.key = key => es[j].id = es[i].id
  BY DEF KeysApart, Reached
<1>1. i \in 1 .. Len(es) /\ j \in 1 .. Len(es)
  BY LenProperties
<1>2. es[i] \in Chunks /\ es[j] \in Chunks
  BY <1>1, ElementOfSeq
<1>3. /\ es[i].item = tbl[es[i].id] /\ es[j].item = tbl[es[j].id]
      /\ es[i].id \in Live(tbl) /\ es[j].id \in Live(tbl)
  BY <1>1, <1>2 DEF Sets, Live, Chunks
<1> QED BY <1>3 DEF OneHolder, Sets

(* Every position a readable journal applies is reached.                   *)
LEMMA AppliedReached ==
  ASSUME NEW es \in Seq(Chunks), Readable(es)
  PROVE  /\ Applied(es) \subseteq Reached(es)
         /\ \A i \in Applied(es), k \in 1 .. Len(es) : k <= i => k \in Applied(es)
<1>1. DOMAIN es = 1 .. Len(es) /\ Len(es) \in Nat
  BY LenProperties
<1>2. ASSUME NEW n \in 1 .. Len(es), es[n].part = "line",
             NEW k \in 1 .. n
      PROVE  es[k].part = "line"
  <2> DEFINE T == {i \in 1 .. n : es[i].part # "line"}
  <2>1. CASE T = {}
    BY <2>1
  <2>2. CASE T # {}
    <3>1. n \in Nat /\ T \in SUBSET (1 .. n)
      BY <1>1
    <3>2. PICK i \in T : \A j \in T : j <= i
      BY <2>2, <3>1, LastPosition
    <3>3. i # n /\ i + 1 \in 1 .. n /\ i + 1 \in 2 .. Len(es)
      BY <1>1, <1>2, <3>2
    <3>4. es[i + 1].part = "line"
      BY <1>1, <3>2, <3>3
    <3>5. es[(i + 1) - 1].part = "line"
      BY <3>3, <3>4 DEF Readable
    <3> QED BY <3>2, <3>3, <3>5
  <2> QED BY <2>1, <2>2
<1>3. ASSUME NEW i \in Applied(es), NEW k \in 1 .. i - 1
      PROVE  es[k].part = "line"
  <2>1. /\ i \in 1 .. Len(es) /\ i > 1 /\ i - 1 \in 1 .. Len(es) /\ k \in 1 .. (i - 1)
    BY <1>1 DEF Applied
  <2>2. es[i - 1].part = "line"
    BY <2>1 DEF Applied
  <2> QED BY <1>2, <2>1, <2>2
<1>4. ASSUME NEW i \in Applied(es)
      PROVE  i \in Reached(es)
  <2>1. i \in DOMAIN es /\ es[i].part # "torn"
    BY DEF Applied
  <2> QED BY <1>3, <2>1 DEF Reached
<1>5. ASSUME NEW i \in Applied(es), NEW k \in 1 .. Len(es), k <= i
      PROVE  k \in Applied(es)
  <2>1. CASE k = i
    BY <2>1
  <2>2. CASE k # i
    <3>1. i \in 1 .. Len(es)
      BY <1>1 DEF Applied
    <3>2. k \in 1 .. i - 1 /\ (k > 1 => k - 1 \in 1 .. i - 1)
      BY <1>1, <1>5, <2>2, <3>1
    <3>3. es[k].part = "line" /\ (k > 1 => es[k - 1].part = "line")
      BY <1>3, <3>2
    <3> QED BY <1>1, <3>3 DEF Applied
  <2> QED BY <2>1, <2>2
<1> QED BY <1>4, <1>5

(* A journal that holds the table keeps keys apart when an operation on the*)
(* table is appended, wherever the write stopped: a new delivery is one    *)
(* the journal never mentioned, with a key no delivery holds.              *)
LEMMA ApartExtended ==
  ASSUME NEW tbl \in Tables, OneHolder(tbl),
         NEW a \in Seq(Chunks), KeysApart(a), AllLines(a) => tbl = Replay(a),
         NEW es \in Seq(Chunks), Operation(tbl, es),
         \A i \in DOMAIN es : tbl[es[i].id] = Absent => \A n \in DOMAIN a : a[n].id # es[i].id,
         NEW part \in Seq(Chunks), Continues(part, 0, es)
  PROVE  KeysApart(a \o part)
<1> DEFINE c == a \o part
<1>1. /\ c \in Seq(Chunks) /\ Len(c) = Len(a) + Len(part)
      /\ Len(a) \in Nat /\ Len(part) \in Nat /\ Len(es) \in Nat
      /\ DOMAIN a = 1 .. Len(a) /\ DOMAIN c = 1 .. Len(c) /\ DOMAIN es = 1 .. Len(es)
  BY ConcatProperties, LenProperties
<1>2. \A i \in 1 .. Len(a) : c[i] = a[i]
  BY <1>1, ConcatProperties
<1>3. \A i \in Len(a) + 1 .. Len(c) : i - Len(a) \in 1 .. Len(part) /\ c[i] = part[i - Len(a)]
  BY <1>1, ConcatProperties
<1>4. /\ Len(part) <= Len(es)
      /\ \A i \in 1 .. Len(part) : part[i].id = es[i].id /\ part[i].item = es[i].item
  BY <1>1 DEF Continues
<1> HIDE DEF c
<1> SUFFICES ASSUME NEW j \in Reached(c), NEW i \in DOMAIN c, NEW key \in Keys,
                    i < j, Sets(c, i, key), c[j].item # Absent
             PROVE  /\ c[j].id = c[i].id => c[j].item.key = key
                    /\ c[j].item.key = key /\ c[j].id # c[i].id =>
                         \E k \in i .. j : c[k].id = c[i].id /\ c[k].item = Absent
  BY DEF KeysApart, c
<1>5. /\ j \in 1 .. Len(c) /\ i \in 1 .. Len(c) /\ c[j].part # "torn"
      /\ \A k \in 1 .. j - 1 : c[k].part = "line"
  BY <1>1 DEF Reached
<1>6. CASE j <= Len(a)
  <2>1. i \in 1 .. Len(a) /\ j \in 1 .. Len(a) /\ \A k \in i .. j : k \in 1 .. Len(a)
    BY <1>1, <1>5, <1>6
  <2>2. j \in Reached(a)
    <3>1. \A k \in 1 .. j - 1 : k \in 1 .. Len(a)
      BY <1>1, <2>1
    <3> QED BY <1>1, <1>2, <1>5, <2>1, <3>1 DEF Reached
  <2>3. Sets(a, i, key) /\ a[j].item # Absent
    BY <1>2, <2>1 DEF Sets
  <2>4. /\ a[j].id = a[i].id => a[j].item.key = key
        /\ a[j].item.key = key /\ a[j].id # a[i].id =>
             \E k \in i .. j : a[k].id = a[i].id /\ a[k].item = Absent
    BY <1>1, <2>1, <2>2, <2>3 DEF KeysApart
  <2> QED BY <1>2, <2>1, <2>4
<1>7. CASE ~ (j <= Len(a))
  <2>1. j - Len(a) \in 1 .. Len(part) /\ j - Len(a) \in 1 .. Len(es)
    <3>1. j \in Len(a) + 1 .. Len(c)
      BY <1>1, <1>5, <1>7
    <3>2. j - Len(a) \in 1 .. Len(part)
      BY <1>3, <3>1
    <3> QED BY <1>1, <1>4, <3>2
  <2>2. c[j].id = es[j - Len(a)].id /\ c[j].item = es[j - Len(a)].item
    <3>1. j \in Len(a) + 1 .. Len(c)
      BY <1>1, <1>5, <1>7
    <3>2. c[j] = part[j - Len(a)]
      BY <1>3, <3>1
    <3> QED BY <1>4, <2>1, <3>2
  <2>3. OfOne(tbl, es)
    BY <1>1, <2>1, <2>2 DEF Operation, OfMany
  <2>4. j = Len(a) + 1 /\ j - Len(a) = 1
    <3>1. Len(es) = 1
      BY <2>3 DEF OfOne
    <3>2. j \in Nat
      BY <1>1, <1>5
    <3>3. Len(a) \in Nat
      BY <1>1
    <3>4. j - Len(a) = 1
      <4>1. j - Len(a) \in 1 .. 1
        BY <2>1, <3>1
      <4>2. j - Len(a) >= 1 /\ j - Len(a) <= 1
        BY <4>1
      <4> QED BY <3>2, <3>3, <4>2
    <3> QED BY <3>2, <3>3, <3>4
  <2>5. AllLines(a)
    <3>1. \A k \in 1 .. Len(a) : k \in 1 .. j - 1
      BY <1>1, <2>4
    <3> QED BY <1>1, <1>2, <1>5, <3>1 DEF AllLines
  <2>6. tbl = Replay(a) /\ Applied(a) = 1 .. Len(a) /\ Readable(a)
    BY <2>5, AllApplied
  <2>7. i \in 1 .. Len(a) /\ c[i] = a[i] /\ Sets(a, i, key) /\ a[i] \in Chunks
    <3>1. i \in 1 .. Len(a)
      BY <1>1, <1>5, <2>4
    <3> QED BY <1>2, <3>1, ElementOfSeq DEF Sets
  <2> DEFINE holder == a[i].id
  <2>8. holder \in Ids
    BY <2>7 DEF Chunks
  <2>9. PICK n \in Last(a, holder) : TRUE
    BY <2>6, <2>7, LastExists
  <2>10. /\ n \in 1 .. Len(a) /\ a[n].id = holder /\ i <= n
         /\ tbl[holder] = a[n].item
    <3>1. tbl[holder] = a[n].item
      BY <2>6, <2>8, <2>9, OverlayOfLast DEF Replay
    <3> QED BY <2>6, <2>7, <2>9, <3>1 DEF Last
  <2>11. a[n].item # Absent => a[n].item.key = key
    <3>1. CASE n = i
      BY <2>7, <3>1 DEF Sets
    <3>2. CASE n # i
      <4>1. i < n /\ n \in Reached(a)
        BY <1>1, <2>6, <2>7, <2>10, <3>2, AppliedReached
      <4>2. i \in DOMAIN a /\ Sets(a, i, key) /\ a[n].id = a[i].id
        BY <1>1, <2>7, <2>10
      <4>3. ASSUME a[n].item # Absent
            PROVE  a[n].item.key = key
        BY <4>1, <4>2, <4>3 DEF KeysApart
      <4> QED BY <4>3
    <3> QED BY <3>1, <3>2
  <2> DEFINE r == es[1]
  <2>12. /\ r.id \in Ids /\ r.item # Absent
         /\ \/ /\ tbl[r.id] = Absent
               /\ r.item.key \in Keys => \A other \in Live(tbl) : tbl[other].key # r.item.key
            \/ tbl[r.id] # Absent /\ r.item.key = tbl[r.id].key
    BY <2>3, OneRecord
  <2>13. c[j].id = r.id /\ c[j].item = r.item
    BY <2>2, <2>4
  <2>14. ASSUME tbl[r.id] = Absent
         PROVE  holder # r.id
    BY <1>1, <2>1, <2>4, <2>7, <2>14
  <2>15. ASSUME c[j].id = c[i].id
         PROVE  c[j].item.key = key
    <3>1. holder = r.id
      BY <2>7, <2>13, <2>15
    <3> QED BY <2>10, <2>11, <2>12, <2>13, <2>14, <3>1
  <2>16. ASSUME c[j].item.key = key, c[j].id # c[i].id
         PROVE  \E k \in i .. j : c[k].id = c[i].id /\ c[k].item = Absent
    <3>1. holder # r.id /\ r.item.key = key
      BY <2>7, <2>13, <2>16
    <3>2. a[n].item = Absent
      <4>1. SUFFICES ASSUME a[n].item # Absent PROVE FALSE
        OBVIOUS
      <4>2. holder \in Live(tbl) /\ tbl[holder].key = key
        BY <2>8, <2>10, <2>11, <4>1 DEF Live
      <4>3. tbl[r.id] # Absent /\ tbl[r.id].key = key
        BY <2>12, <3>1, <4>2
      <4>4. r.id \in Live(tbl)
        BY <2>12, <4>3 DEF Live
      <4> QED BY <3>1, <4>2, <4>3, <4>4 DEF OneHolder
    <3>3. n \in i .. j /\ c[n] = a[n]
      BY <1>1, <1>2, <2>4, <2>7, <2>10
    <3> QED BY <2>7, <2>10, <3>2, <3>3
  <2> QED BY <2>15, <2>16
<1> QED BY <1>1, <1>5, <1>6, <1>7

-----------------------------------------------------------------------------
(* The index.                                                              *)

(* replay: the index agrees with the table whose records keep keys apart.  *)
LEMMA IndexReplayed ==
  ASSUME NEW es \in Seq(Chunks), Readable(es), KeysApart(es),
         NEW key \in Keys, NEW id \in Ids
  PROVE  KeyOverlay(EmptyIndex, es)[key] = id
           <=> (Replay(es)[id] # Absent /\ Replay(es)[id].key = key)
<1> DEFINE S == {i \in Applied(es) : Sets(es, i, key)}
<1>1. DOMAIN es = 1 .. Len(es) /\ Len(es) \in Nat /\ Applied(es) \subseteq 1 .. Len(es)
  BY LenProperties DEF Applied
<1>2. /\ Applied(es) \subseteq Reached(es)
      /\ \A i \in Applied(es), k \in 1 .. Len(es) : k <= i => k \in Applied(es)
  BY AppliedReached
<1>3. NoId \notin Ids
  BY IdsAssumption DEF NoId
<1>4. LastSetting(es, key) = {i \in S : \A j \in S : j <= i}
  BY DEF LastSetting
<1>5. CASE S = {}
  <2>1. LastSetting(es, key) = {}
    BY <1>4, <1>5
  <2>2. KeyOverlay(EmptyIndex, es)[key] = NoId
    BY <2>1 DEF KeyOverlay, EmptyIndex
  <2>3. ASSUME Replay(es)[id] # Absent, Replay(es)[id].key = key
        PROVE  FALSE
    <3>1. Last(es, id) # {}
      BY <2>3 DEF Replay, Overlay, EmptyTable
    <3>2. PICK n \in Last(es, id) : TRUE
      BY <3>1
    <3>3. Replay(es)[id] = es[n].item /\ n \in Applied(es)
      BY <3>2, OverlayOfLast DEF Replay, Last
    <3> QED BY <1>5, <2>3, <3>3 DEF Sets
  <2> QED BY <1>3, <2>2, <2>3
<1>6. CASE S # {}
  <2>1. PICK i \in S : \A j \in S : j <= i
    BY <1>1, <1>6, LastPosition
  <2>2. i \in LastSetting(es, key) /\ i \in Applied(es) /\ Sets(es, i, key) /\ i \in 1 .. Len(es)
    BY <1>1, <1>4, <2>1
  <2>3. \A k \in LastSetting(es, key) : k = i
    BY <1>1, <1>4, <2>1, <2>2
  <2>4. (CHOOSE k \in LastSetting(es, key) : TRUE) = i
    BY <2>2, <2>3
  <2>5. KeyOverlay(EmptyIndex, es)[key]
          = IF DeletedAfter(es, es[i].id, i) THEN NoId ELSE es[i].id
    BY <2>2, <2>4, Zenon DEF KeyOverlay
  <2>6. ASSUME KeyOverlay(EmptyIndex, es)[key] = id
        PROVE  Replay(es)[id] # Absent /\ Replay(es)[id].key = key
    <3>1. es[i].id = id /\ ~DeletedAfter(es, id, i)
      BY <1>3, <2>5, <2>6
    <3>2. PICK n \in Last(es, id) : TRUE
      BY <2>2, <3>1, LastExists
    <3>3. /\ Replay(es)[id] = es[n].item /\ n \in Applied(es) /\ es[n].id = id
          /\ i <= n /\ n \in 1 .. Len(es)
      BY <1>1, <2>2, <3>1, <3>2, OverlayOfLast DEF Replay, Last
    <3>4. CASE n = i
      BY <2>2, <3>3, <3>4 DEF Sets
    <3>5. CASE n # i
      <4>1. i < n
        BY <1>1, <2>2, <3>3, <3>5
      <4>2. es[n].item # Absent
        BY <3>1, <3>3, <4>1 DEF DeletedAfter
      <4>3. es[n].item.key = key
        BY <1>1, <1>2, <2>2, <3>1, <3>3, <4>1, <4>2 DEF KeysApart
      <4> QED BY <3>3, <4>2, <4>3
    <3> QED BY <3>4, <3>5
  <2>7. ASSUME Replay(es)[id] # Absent, Replay(es)[id].key = key
        PROVE  KeyOverlay(EmptyIndex, es)[key] = id
    <3>1. Last(es, id) # {}
      BY <2>7 DEF Replay, Overlay, EmptyTable
    <3>2. PICK n \in Last(es, id) : TRUE
      BY <3>1
    <3>3. /\ Replay(es)[id] = es[n].item /\ n \in Applied(es) /\ es[n].id = id
          /\ n \in 1 .. Len(es)
      BY <1>1, <3>2, OverlayOfLast DEF Replay, Last
    <3>4. n \in S /\ n <= i
      BY <2>1, <2>7, <3>3 DEF Sets
    <3>5. \A k \in Applied(es) : es[k].id = id => k <= n
      BY <3>2 DEF Last
    <3>6. es[i].id = id
      <4>1. SUFFICES ASSUME es[i].id # id PROVE FALSE
        OBVIOUS
      <4>2. n < i
        BY <1>1, <2>2, <3>3, <3>4, <4>1
      <4>3. PICK k \in n .. i : es[k].id = id /\ es[k].item = Absent
        BY <1>1, <1>2, <2>2, <3>3, <3>4, <4>1, <4>2 DEF KeysApart, Sets
      <4>4. k \in Applied(es) /\ k # n
        <5>1. k \in 1 .. Len(es) /\ k <= i
          BY <1>1, <2>2, <3>3
        <5> QED BY <1>2, <2>2, <2>7, <3>3, <4>3, <5>1
      <4> QED BY <1>1, <3>3, <3>5, <4>3, <4>4
    <3>7. ~DeletedAfter(es, id, i)
      BY <1>1, <2>2, <3>3, <3>4, <3>5 DEF DeletedAfter
    <3> QED BY <2>5, <3>6, <3>7
  <2> QED BY <2>6, <2>7
<1> QED BY <1>5, <1>6
(* setLocked and deleteLocked for one operation: the index follows.        *)
LEMMA IndexSynced ==
  ASSUME NEW tbl \in Tables, NEW index \in [Keys -> Ids \union {NoId}],
         \A k \in Keys, i \in Ids : (index[k] = i) <=> (tbl[i] # Absent /\ tbl[i].key = k),
         NEW es \in Seq(Chunks), AllLines(es), Operation(tbl, es),
         NEW key \in Keys, NEW id \in Ids
  PROVE  KeyOverlay(index, es)[key] = id
           <=> (Overlay(tbl, es)[id] # Absent /\ Overlay(tbl, es)[id].key = key)
<1>1. DOMAIN es = 1 .. Len(es) /\ Len(es) \in Nat /\ Applied(es) = 1 .. Len(es)
  BY LenProperties, AllApplied
<1>2. NoId \notin Ids
  BY IdsAssumption DEF NoId
<1>3. CASE OfOne(tbl, es)
  <2> DEFINE r == es[1]
  <2>1. Len(es) = 1 /\ Applied(es) = {1}
    <3>1. Len(es) = 1
      BY <1>3 DEF OfOne
    <3> QED BY <1>1, <3>1
  <2>2. /\ r.id \in Ids /\ r.item # Absent
        /\ \/ /\ tbl[r.id] = Absent
              /\ r.item.key \in Keys => \A other \in Live(tbl) : tbl[other].key # r.item.key
           \/ tbl[r.id] # Absent /\ r.item.key = tbl[r.id].key
    BY <1>3, OneRecord
  <2>3. Overlay(tbl, es)[id] = IF id = r.id THEN r.item ELSE tbl[id]
    <3>1. CASE id = r.id
      <4>1. 1 \in Last(es, id)
        BY <2>1, <3>1 DEF Last
      <4> QED BY <3>1, <4>1, OverlayOfLast
    <3>2. CASE id # r.id
      BY <2>1, <3>2, OverlayWithout
    <3> QED BY <3>1, <3>2
  <2>4. \A x : ~DeletedAfter(es, x, 1) /\ ~DeletedAfter(es, x, 0)
    BY <2>1, <2>2 DEF DeletedAfter
  <2>5. CASE r.item.key = key
    <3>1. LastSetting(es, key) = {1}
      BY <2>1, <2>2, <2>5 DEF LastSetting, Sets
    <3>2. KeyOverlay(index, es)[key] = r.id
      <4>1. (CHOOSE i \in LastSetting(es, key) : TRUE) = 1
        BY <3>1
      <4>2. KeyOverlay(index, es)[key] = IF DeletedAfter(es, r.id, 1) THEN NoId ELSE r.id
        BY <3>1, <4>1, Zenon DEF KeyOverlay
      <4> QED BY <2>4, <4>2
    <3>3. ASSUME id # r.id, tbl[id] # Absent, tbl[id].key = key
          PROVE  FALSE
      <4>1. id \in Live(tbl)
        BY <3>3 DEF Live
      <4>2. tbl[r.id] # Absent /\ tbl[r.id].key = key
        BY <2>2, <2>5, <3>3, <4>1
      <4>3. index[key] = id /\ index[key] = r.id
        BY <2>2, <3>3, <4>2
      <4> QED BY <3>3, <4>3
    <3> QED BY <2>2, <2>3, <2>5, <3>2, <3>3
  <2>6. CASE r.item.key # key
    <3>1. LastSetting(es, key) = {}
      BY <2>1, <2>6 DEF LastSetting, Sets
    <3>2. KeyOverlay(index, es)[key] = index[key]
      BY <2>4, <3>1 DEF KeyOverlay
    <3>3. ASSUME index[key] = r.id
          PROVE  FALSE
      <4>1. tbl[r.id] # Absent /\ tbl[r.id].key = key
        BY <2>2, <3>3
      <4> QED BY <2>2, <2>6, <4>1
    <3> QED BY <2>3, <2>6, <3>2, <3>3
  <2> QED BY <2>5, <2>6
<1>4. CASE OfMany(tbl, es)
  <2>1. \A i \in 1 .. Len(es) : es[i].item = Absent
    BY <1>1, <1>4 DEF OfMany
  <2>2. LastSetting(es, key) = {}
    BY <1>1, <2>1 DEF LastSetting, Sets
  <2>3. KeyOverlay(index, es)[key]
          = IF DeletedAfter(es, index[key], 0) THEN NoId ELSE index[key]
    BY <2>2 DEF KeyOverlay
  <2>4. \A x : DeletedAfter(es, x, 0) <=> \E i \in 1 .. Len(es) : es[i].id = x
    BY <1>1, <2>1 DEF DeletedAfter
  <2>5. CASE \E i \in 1 .. Len(es) : es[i].id = id
    <3>1. Last(es, id) # {}
      BY <1>1, <2>5, LastExists
    <3>2. PICK n \in Last(es, id) : TRUE
      BY <3>1
    <3>3. Overlay(tbl, es)[id] = es[n].item /\ n \in 1 .. Len(es)
      BY <1>1, <3>2, OverlayOfLast DEF Last
    <3>4. Overlay(tbl, es)[id] = Absent
      BY <2>1, <3>3
    <3>5. KeyOverlay(index, es)[key] # id
      BY <1>2, <2>3, <2>4, <2>5
    <3> QED BY <3>4, <3>5
  <2>6. CASE ~ \E i \in 1 .. Len(es) : es[i].id = id
    <3>1. Overlay(tbl, es)[id] = tbl[id]
      BY <1>1, <2>6, OverlayWithout
    <3>2. KeyOverlay(index, es)[key] = id <=> index[key] = id
      BY <1>2, <2>3, <2>4, <2>6
    <3> QED BY <3>1, <3>2
  <2> QED BY <2>5, <2>6
<1> QED BY <1>3, <1>4 DEF Operation

-----------------------------------------------------------------------------
(* The requests.                                                           *)

(* Every request writes the records of one operation on the table; a new   *)
(* delivery is one the journal never mentioned.                            *)
Operating(es) ==
  /\ es \in Seq(Chunks) /\ AllLines(es) /\ Write(es) /\ Operation(items, es)
  /\ \A i \in DOMAIN es :
       items[es[i].id] = Absent => \A n \in DOMAIN journal.chunks : journal.chunks[n].id # es[i].id

(* Every mutation writes the records of one operation.                     *)
LEMMA MutateOperates ==
  ASSUME TypeOK, KeyIndexAgrees, Mutate
  PROVE  Serving /\ \E es : Operating(es)
<1>1. Serving
  BY DEF Mutate
<1>2. \A id \in Live(items) : id \in Ids /\ items[id] \in Deliveries /\ items[id] # Absent
  BY DEF TypeOK, Live, Tables
<1>3. ASSUME NEW id \in Ids, NEW d \in Deliveries, Write(<<DeliveryRecord(id, d)>>),
             NEW now \in Times, Created(items, id, d, now) \/ Continued(items, id, d, now),
             items[id] = Absent =>
               \A n \in DOMAIN journal.chunks : journal.chunks[n].id # id
      PROVE  \E es : Operating(es)
  <2> DEFINE r == DeliveryRecord(id, d)
             es == <<r>>
  <2>1. r \in Chunks /\ r.part = "line" /\ r.id = id /\ r.item = d
    BY FilesTyped DEF DeliveryRecord
  <2> HIDE DEF r
  <2>2. /\ es \in Seq(Chunks) /\ Len(es) = 1 /\ DOMAIN es = {1} /\ es[1] = r
        /\ AllLines(es)
    BY <2>1 DEF AllLines
  <2>3. Write(es)
    BY <1>3 DEF r
  <2> HIDE DEF es
  <2>4. OfOne(items, es)
    BY <1>3, <2>1, <2>2 DEF OfOne
  <2> QED BY <1>3, <2>1, <2>2, <2>3, <2>4 DEF Operating, Operation
<1>4. ASSUME NEW id \in Live(items), NEW d \in Deliveries, NEW now \in Times,
             Write(<<DeliveryRecord(id, d)>>), Continued(items, id, d, now)
      PROVE  \E es : Operating(es)
  BY <1>2, <1>3, <1>4
<1>5. PICK now \in Times :
        \/ \E id \in Ids :
             \/ \E key \in Keys \union {NoKey}, content \in Contents :
                  Create(id, key, content, now)
             \/ \E attempt \in 1 .. AttemptBound :
                  \/ Succeed(id, attempt, now)
                  \/ \E next \in Times, terminal \in BOOLEAN :
                       Fail(id, attempt, next, terminal, now)
             \/ Cancel(id, now)
             \/ Retry(id, now)
        \/ \E eligible \in SUBSET Contents : ClaimDue(eligible, now)
        \/ PruneTerminal(now)
  BY DEF Mutate
<1>6. ASSUME NEW id \in Ids, NEW key \in Keys \union {NoKey}, NEW content \in Contents,
             Create(id, key, content, now)
      PROVE  \E es : Operating(es)
  <2> DEFINE d == New(key, content, now)
  <2>1. d \in Deliveries
    BY TransitionsTyped
  <2>2. items[id] = Absent /\ \A n \in DOMAIN journal.chunks : journal.chunks[n].id # id
    <3>1. Fresh(id) /\ journal # NoFile
      BY <1>1, <1>6 DEF Create, Serving, TypeOK
    <3> QED BY <3>1 DEF Fresh, Mentions
  <2>3. ASSUME key # NoKey, NEW other \in Live(items), items[other].key = key
        PROVE  FALSE
    <3>1. key \in Keys /\ keyToID[key] = NoId
      BY <1>6, <2>3 DEF Create
    <3>2. keyToID[key] = other
      BY <1>2, <2>3, <3>1 DEF KeyIndexAgrees
    <3> QED BY <1>2, <3>1, <3>2, IdsAssumption DEF NoId
  <2>4. Created(items, id, d, now)
    BY <2>2, <2>3 DEF Created, Live
  <2>5. Write(<<DeliveryRecord(id, d)>>)
    BY <1>6 DEF Create
  <2> HIDE DEF d
  <2> QED BY <1>3, <2>1, <2>2, <2>4, <2>5
<1>7. ASSUME NEW id \in Ids, NEW attempt \in 1 .. AttemptBound, Succeed(id, attempt, now)
      PROVE  \E es : Operating(es)
  <2>1. id \in Live(items) /\ items[id].status = "in_flight"
    BY <1>7 DEF Succeed, HoldsLease
  <2>2. Succeeded(items[id], now) \in Deliveries
    BY <1>2, <2>1, TransitionsTyped
  <2> QED BY <1>4, <1>7, <2>1, <2>2 DEF Succeed, Continued
<1>8. ASSUME NEW id \in Ids, NEW attempt \in 1 .. AttemptBound, NEW next \in Times,
             NEW terminal \in BOOLEAN, Fail(id, attempt, next, terminal, now)
      PROVE  \E es : Operating(es)
  <2>1. id \in Live(items) /\ items[id].status = "in_flight"
    BY <1>8 DEF Fail, HoldsLease
  <2>2. /\ FailedForGood(items[id], now) \in Deliveries
        /\ Rescheduled(items[id], next, now) \in Deliveries
    BY <1>2, <2>1, TransitionsTyped
  <2>3. CASE terminal
    <3>1. Write(<<DeliveryRecord(id, FailedForGood(items[id], now))>>)
      BY <1>8, <2>3 DEF Fail
    <3> QED BY <1>4, <2>1, <2>2, <3>1 DEF Continued
  <2>4. CASE ~terminal
    <3>1. Write(<<DeliveryRecord(id, Rescheduled(items[id], next, now))>>)
      BY <1>8, <2>4 DEF Fail
    <3> QED BY <1>4, <2>1, <2>2, <3>1 DEF Continued
  <2> QED BY <2>3, <2>4
<1>9. ASSUME NEW id \in Ids, Cancel(id, now)
      PROVE  \E es : Operating(es)
  <2>1. id \in Live(items) /\ Cancelable(items[id])
    BY <1>9 DEF Cancel
  <2>2. Canceled(items[id], now) \in Deliveries
    BY <1>2, <2>1, TransitionsTyped
  <2> QED BY <1>4, <1>9, <2>1, <2>2 DEF Cancel, Continued
<1>10. ASSUME NEW id \in Ids, Retry(id, now)
       PROVE  \E es : Operating(es)
  <2>1. id \in Live(items) /\ Retryable(items[id])
    BY <1>10 DEF Retry
  <2>2. Retried(items[id], now) \in Deliveries
    BY <1>2, <2>1, TransitionsTyped
  <2> QED BY <1>4, <1>10, <2>1, <2>2 DEF Retry, Continued
<1>11. ASSUME NEW eligible \in SUBSET Contents, ClaimDue(eligible, now)
       PROVE  \E es : Operating(es)
  <2> DEFINE candidates ==
        {id \in Live(items) : Due(items[id], now) /\ items[id].content \in eligible}
  <2>1. PICK id \in candidates :
          /\ \A other \in candidates \ {id} : SortsBefore(items, id, other)
          /\ Write(<<DeliveryRecord(id, Claimed(items[id], now))>>)
    BY <1>11 DEF ClaimDue
  <2>2. id \in Live(items) /\ Due(items[id], now) /\ Claimed(items[id], now) \in Deliveries
    BY <1>2, <2>1, TransitionsTyped
  <2>3. FirstDue(items, id, now)
    <3> SUFFICES ASSUME NEW other \in Live(items), items[other].content = items[id].content,
                        Due(items[other], now)
                 PROVE  items[id].nextAttemptAt <= items[other].nextAttemptAt
      BY DEF FirstDue
    <3>1. items[id].nextAttemptAt \in Nat /\ items[other].nextAttemptAt \in Nat
      BY <1>2, <2>2 DEF Deliveries
    <3>2. other = id \/ SortsBefore(items, id, other)
      BY <2>1
    <3> QED BY <3>1, <3>2 DEF SortsBefore
  <2> QED BY <1>4, <2>1, <2>2, <2>3 DEF Continued
<1>12. CASE PruneTerminal(now)
  <2> DEFINE gone == {id \in Live(items) : Prunable(items[id], now)}
  <2>1. PICK order \in [1 .. Cardinality(gone) -> gone] :
          Write([i \in DOMAIN order |-> DeleteRecord(order[i])])
    BY <1>12 DEF PruneTerminal
  <2>2. Cardinality(gone) \in Nat /\ DOMAIN order = 1 .. Cardinality(gone)
    <3>1. gone \subseteq Ids
      BY <1>2
    <3>2. Cardinality(gone) \in Nat
      BY <3>1, IdsAssumption, FS_Subset, FS_CardinalityType
    <3> QED BY <2>1, <3>2
  <2>3. \A i \in 1 .. Cardinality(gone) :
          /\ order[i] \in Live(items) /\ Terminal(items[order[i]])
          /\ DeleteRecord(order[i]) \in Chunks
    BY <1>2, <2>1, FilesTyped DEF DeleteRecord, Prunable
  <2> DEFINE es == [i \in DOMAIN order |-> DeleteRecord(order[i])]
  <2>4. es \in Seq(Chunks) /\ AllLines(es)
    <3>1. es \in Seq(Chunks)
      BY <2>2, <2>3, IsASeq
    <3>2. AllLines(es)
      BY DEF AllLines, DeleteRecord
    <3> QED BY <3>1, <3>2
  <2>5. \A i \in DOMAIN es : /\ es[i].item = Absent /\ es[i].id \in Live(items)
                             /\ Terminal(items[es[i].id])
    BY <2>2, <2>3 DEF DeleteRecord
  <2>6. Write(es)
    BY <2>1
  <2> HIDE DEF es
  <2>7. Operation(items, es)
    BY <2>5 DEF Operation, OfMany
  <2>8. \A i \in DOMAIN es : items[es[i].id] # Absent
    BY <1>2, <2>5
  <2>9. Operating(es)
    BY <2>4, <2>6, <2>7, <2>8 DEF Operating
  <2> QED BY <1>1, <2>9
<1> QED BY <1>1, <1>5, <1>6, <1>7, <1>8, <1>9, <1>10, <1>11, <1>12

-----------------------------------------------------------------------------
(* The steps keep keys, index and table together.                          *)

(* Nothing in doubt is no operation, and an empty file mentions no key.    *)
LEMMA NoneApart == KeysApart(<<>>) /\ \A tbl : Operation(tbl, <<>>)
<1>1. DOMAIN <<>> = {}
  OBVIOUS
<1>2. KeysApart(<<>>)
  BY <1>1 DEF KeysApart
<1>3. \A tbl : OfMany(tbl, <<>>)
  BY <1>1 DEF OfMany
<1> QED BY <1>2, <1>3 DEF Operation

(* What is in doubt.                                                       *)
LEMMA DoubtStep ==
  ASSUME IInv, KeysInv, [Next]_vars
  PROVE  Operation(promised, unacked)'
<1>1. CASE Mutate
  <2>1. PICK es : Operating(es) /\ Serving
    BY <1>1, MutateOperates DEF IInv, KeysInv
  <2>2. unacked' = es /\ promised' = promised /\ items = promised
    BY <2>1 DEF Operating, Write, IInv, Remembering, Serving
  <2> QED BY <2>1, <2>2 DEF Operating
<1>2. CASE SyncDone \/ CompactDone \/ OpenExisting \/ NewJournalSynced
  <2>1. unacked' = <<>>
    BY <1>2 DEF SyncDone, CompactDone, OpenExisting, NewJournalSynced, Load
  <2> QED BY <2>1, NoneApart
<1>3. CASE UNCHANGED <<unacked, promised>>
  BY <1>3 DEF KeysInv
<1>4. Mutate \/ SyncDone \/ CompactDone \/ OpenExisting \/ NewJournalSynced
      \/ UNCHANGED <<unacked, promised>>
  BY DEF Next, Open, Compact, vars, history, OpenNew, NewJournalSyncFails, CleanupFails,
    AdmissionFails, SyncFails, CompactBegin, CompactRecord, CompactFails, CompactRename,
    CompactDirSyncFails, Close, Kill, PowerLoss
<1> QED BY <1>1, <1>2, <1>3, <1>4

(* The index in memory.                                                    *)
LEMMA IndexStep ==
  ASSUME IInv, IInv', KeysInv, [Next]_vars
  PROVE  KeyIndexAgrees'
<1>1. CASE OpenExisting \/ NewJournalSynced
  <2>1. /\ Load /\ journal' = journal /\ proc' = "up"
    BY <1>1 DEF OpenExisting, NewJournalSynced, Load
  <2>2. journal' \in Files /\ journal' # NoFile /\ journal'.chunks \in Seq(Chunks)
    <3>1. journal' \in Files /\ journal' # NoFile
      BY <2>1 DEF IInv, TypeOK
    <3> QED BY <3>1 DEF Files
  <2>3. KeysApart(journal'.chunks)
    BY <2>1, <2>2 DEF KeysInv
  <2>4. /\ Readable(journal'.chunks) /\ items' = Replay(journal'.chunks)
        /\ keyToID' = KeyOverlay(EmptyIndex, journal'.chunks)
    BY <2>1 DEF Load
  <2> QED BY <2>2, <2>3, <2>4, IndexReplayed DEF KeyIndexAgrees
<1>2. CASE Close \/ Kill \/ PowerLoss
  <2>1. items' = EmptyTable /\ keyToID' = EmptyIndex
    BY <1>2 DEF Close, Kill, PowerLoss, Stop
  <2> QED BY <2>1, IdsAssumption DEF EmptyTable, EmptyIndex, NoId, KeyIndexAgrees
<1>3. CASE SyncDone
  <2>1. /\ items' = Overlay(items, unacked) /\ keyToID' = KeyOverlay(keyToID, unacked)
        /\ items = promised
    BY <1>3 DEF SyncDone, IInv, TypeOK, Remembering
  <2>2. /\ items \in Tables /\ keyToID \in [Keys -> Ids \union {NoId}]
        /\ unacked \in Seq(Chunks) /\ AllLines(unacked) /\ Operation(items, unacked)
    BY <2>1 DEF IInv, TypeOK, Remembering, KeysInv
  <2>3. \A key \in Keys, id \in Ids :
          (keyToID[key] = id) <=> (items[id] # Absent /\ items[id].key = key)
    BY DEF KeysInv, KeyIndexAgrees
  <2> QED BY <2>1, <2>2, <2>3, IndexSynced DEF KeyIndexAgrees
<1>4. CASE UNCHANGED <<items, keyToID>>
  BY <1>4 DEF KeysInv, KeyIndexAgrees
<1>5. \/ OpenExisting \/ NewJournalSynced \/ Close \/ Kill \/ PowerLoss \/ SyncDone
      \/ UNCHANGED <<items, keyToID>>
  <2>1. Mutate => UNCHANGED <<items, keyToID>>
    BY MutateOperates DEF IInv, KeysInv, Operating, Write
  <2> QED BY <2>1 DEF Next, Open, Compact, vars, memory, OpenNew, NewJournalSyncFails,
    CleanupFails, AdmissionFails, SyncFails, CompactBegin, CompactRecord, CompactFails,
    CompactRename, CompactDone, CompactDirSyncFails
<1> QED BY <1>1, <1>2, <1>3, <1>4, <1>5

(* The files.                                                              *)
Apart == \A f \in ({journal} \union shadows) \ {NoFile} : KeysApart(f.chunks)

(* Keys stay apart in every file a step leaves under the journal's name.   *)
LEMMA FilesStep ==
  ASSUME IInv, IInv', KeysInv, [Next]_vars
  PROVE  Apart'
<1>1. Apart
  BY DEF KeysInv, Apart
<1>2. SUFFICES /\ journal' # NoFile => KeysApart(journal'.chunks)
               /\ \A f \in shadows' \ {NoFile} : KeysApart(f.chunks)
  BY DEF Apart
<1>3. CASE Mutate
  <2>1. PICK es : Operating(es) /\ Serving
    BY <1>3, MutateOperates DEF IInv, KeysInv
  <2>2. /\ es \in Seq(Chunks) /\ AllLines(es) /\ Operation(items, es) /\ Write(es)
        /\ \A i \in DOMAIN es : items[es[i].id] = Absent =>
             \A n \in DOMAIN journal.chunks : journal.chunks[n].id # es[i].id
    BY <2>1 DEF Operating
  <2>3. shadows' = shadows
    BY <2>2 DEF Write
  <2>4. \E part \in Seq(Chunks) :
          Continues(part, 0, es) /\ journal' = Extended(journal, part)
    BY <2>2, CutsOfWrite DEF Write
  <2>5. PICK part \in Seq(Chunks) :
          Continues(part, 0, es) /\ journal' = Extended(journal, part)
    BY <2>4
  <2>6. /\ proc = "up" /\ journal \in Files /\ journal # NoFile
        /\ journal.chunks \in Seq(Chunks) /\ items \in Tables /\ Quiet
    <3>1. proc = "up" /\ ~persistenceErr /\ stage = "idle"
      BY <2>1, <2>2 DEF Serving, Write
    <3> QED BY <3>1 DEF IInv, TypeOK, Files, Quiet
  <2>7. journal'.chunks = journal.chunks \o part
    BY <2>5, <2>6 DEF Extended, Files
  <2>8. KeysApart(journal.chunks)
    BY <1>1, <2>6 DEF Apart
  <2>9. AllLines(journal.chunks) => items = Replay(journal.chunks)
    BY <2>6 DEF IInv, Remembering, Faithful
  <2>10. OneHolder(items)
    BY AgreeingIndex DEF KeysInv
  <2>11. KeysApart(journal.chunks \o part)
    BY <2>2, <2>5, <2>6, <2>8, <2>9, <2>10, ApartExtended
  <2> QED BY <1>1, <2>3, <2>7, <2>11 DEF Apart
<1>4. CASE SyncDone
  <2>1. journal' = Synced(journal) /\ shadows' = shadows /\ journal \in Files
    BY <1>4 DEF SyncDone, IInv, TypeOK
  <2>2. journal'.chunks = journal.chunks /\ journal # NoFile
    BY <2>1, NoFileAssumption DEF Synced, Files
  <2> QED BY <1>1, <2>1, <2>2 DEF Apart
<1>5. CASE CompactRename
  <2>1. /\ stage = "snapshot" /\ journal' = Synced(temp) /\ shadows' = shadows \union {journal}
        /\ temp \in Files /\ temp.chunks \in Seq(Chunks) /\ items \in Tables
    BY <1>5 DEF CompactRename, IInv, TypeOK, Files
  <2>2. journal'.chunks = temp.chunks
    BY <2>1 DEF Synced, Files
  <2>3. \A i \in 1 .. Len(temp.chunks) : temp.chunks[i].item = items[temp.chunks[i].id]
    BY <2>1 DEF IInv, Compacting
  <2>4. OneHolder(items)
    BY AgreeingIndex DEF KeysInv
  <2>5. KeysApart(temp.chunks)
    BY <2>1, <2>3, <2>4, ApartSnapshot
  <2> QED BY <1>1, <2>1, <2>2, <2>5 DEF Apart
<1>6. CASE PowerLoss
  <2>1. PICK f \in {journal} \union shadows : journal' \in Survivors(f)
    BY <1>6 DEF PowerLoss
  <2>2. f \in Files \union {NoFile} /\ (f # NoFile => KeysApart(f.chunks))
    BY <1>1 DEF IInv, TypeOK, Apart
  <2>3. shadows' = {}
    BY <1>6 DEF PowerLoss
  <2> QED BY <2>1, <2>2, <2>3, ApartSurvives
<1>7. CASE OpenNew
  <2>1. /\ journal' = EmptyFile /\ shadows' \subseteq shadows \union {NoFile}
        /\ journal'.chunks = <<>>
    BY <1>7 DEF OpenNew, ShadowsAfterCleanup, EmptyFile
  <2> QED BY <1>1, <2>1, NoneApart DEF Apart
<1>8. CASE NewJournalSyncFails
  BY <1>1, <1>8 DEF NewJournalSyncFails, Apart
<1>9. CASE journal' = journal /\ shadows' \subseteq shadows
  BY <1>1, <1>9 DEF Apart
<1>10. \/ Mutate \/ SyncDone \/ CompactRename \/ PowerLoss \/ OpenNew \/ NewJournalSyncFails
       \/ journal' = journal /\ shadows' \subseteq shadows
  BY DEF Next, Open, Compact, vars, disk, OpenExisting, ShadowsAfterCleanup, NewJournalSynced,
    CleanupFails, AdmissionFails, SyncFails, CompactBegin, CompactRecord, CompactFails,
    CompactDone, CompactDirSyncFails, Close, Kill
<1> QED BY <1>3, <1>4, <1>5, <1>6, <1>7, <1>8, <1>9, <1>10

(* Every step keeps the invariant about keys.                              *)
LEMMA KeysInvStep ==
  ASSUME IInv, IInv', KeysInv, [Next]_vars
  PROVE  KeysInv'
BY DoubtStep, IndexStep, FilesStep DEF KeysInv, Apart

(* Both invariants hold from the start.                                    *)
LEMMA KeysHold == Spec => [](IInv /\ KeysInv)
<1>1. Init => KeysInv
  <2>1. SUFFICES ASSUME Init PROVE KeysInv
    OBVIOUS
  <2>2. KeyIndexAgrees
    BY <2>1, IdsAssumption DEF Init, EmptyTable, EmptyIndex, NoId, KeyIndexAgrees
  <2> QED BY <2>1, <2>2, NoneApart DEF Init, KeysInv
<1>2. IInv /\ IInv' /\ KeysInv /\ [Next]_vars => KeysInv'
  BY KeysInvStep
<1> QED BY <1>1, <1>2, InvariantHolds, PTL DEF Spec

(* For every instance and under every fault, the store answers a repeated  *)
(* key from the one live delivery that carries it, and a key whose delivery*)
(* was pruned is free: keyToID in setLocked, deleteLocked and replay.      *)
THEOREM KeysAreUnique == Spec => []KeyIndexAgrees
<1>1. IInv /\ KeysInv => KeyIndexAgrees
  BY DEF KeysInv
<1> QED BY <1>1, KeysHold, PTL

-----------------------------------------------------------------------------
(* Without power losses and cut records the journal loses nothing.         *)

(* What replay makes of a part of the records of a request.                *)
LEMMA OverlayNothing ==
  ASSUME NEW tbl \in Tables, NEW es \in Seq(Chunks)
  PROVE  Prefix(es, 0) = <<>> /\ Overlay(tbl, <<>>) = tbl
<1>1. Prefix(es, 0) = <<>>
  BY SubSeqEmpty DEF Prefix
<1>2. Applied(<<>>) = {}
  BY EmptyReplays DEF Applied
<1>3. \A id \in Ids : Overlay(tbl, <<>>)[id] = tbl[id]
  BY <1>2, EmptyReplays, OverlayWithout
<1>4. Overlay(tbl, <<>>) = [id \in Ids |-> Overlay(tbl, <<>>)[id]]
  BY EmptyReplays, OverlayIsFunction
<1>5. tbl = [id \in Ids |-> tbl[id]]
  BY DEF Tables
<1> QED BY <1>1, <1>3, <1>4, <1>5

(* A table is itself with nothing of what is in doubt.                     *)
LEMMA NothingMore ==
  ASSUME NEW tbl \in Tables, NEW un \in Seq(Chunks)
  PROVE  \E n \in 0 .. Len(un) : tbl = Overlay(tbl, Prefix(un, n))
<1>1. 0 \in 0 .. Len(un)
  BY LenProperties
<1> QED BY <1>1, OverlayNothing

(* Without lost writes, a journal still replays to all it was given.       *)
LEMMA LosslessStep ==
  ASSUME Faults \subseteq {"io", "kill"}, IInv, IInv', KeysInv, Lossless, [Next]_vars
  PROVE  Lossless'
<1>1. CASE Mutate
  <2>1. PICK es : Operating(es) /\ Serving
    BY <1>1, MutateOperates DEF IInv, KeysInv
  <2>2. /\ es \in Seq(Chunks) /\ AllLines(es) /\ Write(es) /\ Len(es) \in Nat
    BY <2>1, LenProperties DEF Operating
  <2>3. /\ proc = "up" /\ ~persistenceErr /\ stage = "idle" /\ unacked' = es
        /\ promised' = promised /\ proc' = "up"
    BY <2>1, <2>2 DEF Serving, Write
  <2>4. /\ journal \in Files /\ journal # NoFile /\ journal' # NoFile
        /\ journal.chunks \in Seq(Chunks) /\ items = promised /\ Quiet
    <3>1. journal \in Files /\ journal # NoFile /\ journal' # NoFile
      BY <2>3 DEF IInv, TypeOK
    <3>2. Quiet
      BY <2>3 DEF Quiet
    <3> QED BY <2>3, <3>1, <3>2 DEF IInv, Remembering, Files
  <2>5. AllLines(journal.chunks) /\ promised = Replay(journal.chunks)
    BY <2>4 DEF Lossless, IInv, Remembering, Faithful
  <2>6. PICK m \in 0 .. Len(es) : journal' = Extended(journal, Prefix(es, m))
    <3>1. Cuts(es, 0) = WholeCuts(es, 0)
      BY DEF Cuts
    <3>2. es = Prefix(es, Len(es)) /\ Len(es) \in 0 .. Len(es)
      BY <2>2, SubSeqFull DEF Prefix
    <3>3. \A part \in WholeCuts(es, 0) : \E m \in 0 .. Len(es) : part = Prefix(es, m)
      BY DEF WholeCuts
    <3>4. \/ journal' = Extended(journal, es)
          \/ \E part \in Cuts(es, 0) : journal' = Extended(journal, part)
      BY <2>2 DEF Write
    <3> QED BY <3>1, <3>2, <3>3, <3>4
  <2>7. Prefix(es, m) \in Seq(Chunks) /\ AllLines(Prefix(es, m))
    BY <2>2, PrefixLines
  <2>8. journal'.chunks = journal.chunks \o Prefix(es, m)
    BY <2>4, <2>6 DEF Extended, Files
  <2>9. /\ AllLines(journal'.chunks)
        /\ Replay(journal'.chunks) = Overlay(promised, Prefix(es, m))
    BY <2>4, <2>5, <2>7, <2>8, OverlayExtended DEF Replay
  <2> QED BY <2>3, <2>4, <2>9 DEF Lossless
<1>2. CASE OpenExisting \/ NewJournalSynced
  <2>1. /\ journal' = journal /\ journal # NoFile /\ proc' = "up" /\ journal' # NoFile
        /\ promised' = Replay(journal'.chunks)
    <3>1. journal' = journal /\ proc' = "up" /\ promised' = Replay(journal'.chunks)
      BY <1>2 DEF OpenExisting, NewJournalSynced, Load
    <3>2. journal' # NoFile
      BY <3>1 DEF IInv, TypeOK
    <3> QED BY <3>1, <3>2
  <2>2. AllLines(journal'.chunks)
    BY <2>1 DEF Lossless
  <2>3. (journal = NoFile \/ proc = "creating" => promised = EmptyTable /\ unacked = <<>>)'
    BY <2>1
  <2> QED BY <2>1, <2>2, <2>3, NothingMore DEF IInv, TypeOK, Lossless
<1>3. CASE OpenNew
  <2>1. /\ journal' = EmptyFile /\ promised' = EmptyTable /\ unacked' = <<>>
        /\ journal'.chunks = <<>>
    BY <1>3 DEF OpenNew, history, Lossless, EmptyFile
  <2>2. AllLines(journal'.chunks) /\ promised' = Replay(journal'.chunks)
    BY <2>1, EmptyReplays
  <2>3. \E n \in 0 .. Len(unacked') : promised' = Overlay(promised', Prefix(unacked', n))
    BY NothingMore DEF IInv, TypeOK
  <2> QED BY <2>1, <2>2, <2>3 DEF Lossless
<1>4. CASE NewJournalSyncFails
  BY <1>4 DEF NewJournalSyncFails, history, Lossless
<1>5. CASE SyncDone
  <2>1. /\ stage = "syncing" /\ stage' = "idle" /\ proc = "up" /\ proc' = "up"
        /\ ~persistenceErr' /\ journal' = Synced(journal) /\ journal \in Files
        /\ journal # NoFile /\ journal' # NoFile
        /\ items' = Overlay(items, unacked) /\ promised' = Overlay(promised, unacked)
    BY <1>5 DEF SyncDone, IInv, TypeOK, Appending
  <2>2. journal'.chunks = journal.chunks /\ AllLines(journal.chunks)
    BY <2>1 DEF Synced, Files, Lossless
  <2>3. Quiet'
    BY <2>1 DEF Quiet
  <2>4. items' = Replay(journal'.chunks) /\ items' = promised'
    BY <2>1, <2>2, <2>3 DEF IInv, Remembering, Faithful
  <2> QED BY <2>1, <2>2, <2>4, NothingMore DEF IInv, TypeOK, Lossless
<1>6. CASE CompactRename
  <2>1. /\ stage' = "renamed" /\ proc' = "up" /\ journal' # NoFile
    BY <1>6 DEF CompactRename, memory, history, IInv, TypeOK
  <2>2. /\ AllLines(journal'.chunks) /\ items' = Replay(journal'.chunks) /\ items' = promised'
    BY <2>1 DEF IInv, Compacting, Remembering
  <2> QED BY <2>1, <2>2, NothingMore DEF IInv, TypeOK, Lossless
<1>7. CASE CompactDone
  <2>1. /\ stage = "renamed" /\ proc = "up" /\ proc' = "up" /\ journal' = journal
        /\ journal # NoFile /\ promised' = promised
    BY <1>7 DEF CompactDone, IInv, TypeOK
  <2>2. AllLines(journal'.chunks) /\ Replay(journal'.chunks) = promised'
    BY <2>1 DEF IInv, Compacting, Remembering
  <2> QED BY <2>1, <2>2, NothingMore DEF IInv, TypeOK, Lossless
<1>8. CASE UNCHANGED <<journal, unacked, promised>> /\ proc' \in {proc, "down"}
  BY <1>8 DEF Lossless
<1>9. \/ Mutate \/ OpenExisting \/ NewJournalSynced \/ OpenNew \/ NewJournalSyncFails
      \/ SyncDone \/ CompactRename \/ CompactDone
      \/ UNCHANGED <<journal, unacked, promised>> /\ proc' \in {proc, "down"}
  <2>1. ~PowerLoss
    BY DEF PowerLoss
  <2> QED BY <2>1 DEF Next, Open, Compact, vars, memory, disk, history, CleanupFails,
    AdmissionFails, SyncFails, CompactBegin, CompactRecord, CompactFails,
    CompactDirSyncFails, Close, Kill, Stop
<1> QED BY <1>1, <1>2, <1>3, <1>4, <1>5, <1>6, <1>7, <1>8, <1>9

-----------------------------------------------------------------------------
(* The acknowledged table.                                                 *)

(* It changes by what is in doubt, or by a first part of it.               *)
Advances ==
  \E n \in 0 .. Len(unacked) : promised' = Overlay(promised, Prefix(unacked, n))

(* The acknowledged table changes by what was in doubt, and by nothing     *)
(* else.                                                                   *)
LEMMA TableStep ==
  ASSUME IInv, KeysInv, Lossless, [Next]_vars
  PROVE  UNCHANGED promised \/ Advances
<1>1. CASE SyncDone
  <2>1. promised' = Overlay(promised, unacked) /\ unacked \in Seq(Chunks)
    BY <1>1 DEF SyncDone, IInv, TypeOK
  <2>2. Prefix(unacked, Len(unacked)) = unacked /\ Len(unacked) \in 0 .. Len(unacked)
    BY <2>1, SubSeqFull, LenProperties DEF Prefix
  <2> QED BY <2>1, <2>2 DEF Advances
<1>2. CASE OpenExisting \/ NewJournalSynced
  <2>1. journal # NoFile /\ promised' = Replay(journal.chunks)
    BY <1>2 DEF OpenExisting, NewJournalSynced, Load, IInv, TypeOK
  <2> QED BY <2>1 DEF Lossless, Advances
<1>3. CASE ~ (SyncDone \/ OpenExisting \/ NewJournalSynced)
  <2>1. Mutate => UNCHANGED promised
    BY MutateOperates DEF IInv, KeysInv, Operating, Write
  <2> QED BY <1>3, <2>1 DEF Next, Open, Compact, vars, history, OpenNew, NewJournalSyncFails,
    CleanupFails, AdmissionFails, SyncFails, CompactBegin, CompactRecord, CompactFails,
    CompactRename, CompactDone, CompactDirSyncFails, Close, Kill, PowerLoss
<1> QED BY <1>1, <1>2, <1>3

(* The first part of one operation changes one delivery, or deletes some   *)
(* terminal ones.                                                          *)
LEMMA PartOfOne ==
  ASSUME NEW tbl \in Tables, NEW es \in Seq(Chunks), AllLines(es), OfOne(tbl, es),
         NEW n \in 0 .. Len(es)
  PROVE  \/ Overlay(tbl, Prefix(es, n)) = tbl
         \/ Overlay(tbl, Prefix(es, n)) = [tbl EXCEPT ![es[1].id] = es[1].item]
<1>1. Len(es) = 1 /\ DOMAIN es = {1}
  BY LenProperties DEF OfOne
<1>2. CASE n = 0
  BY <1>2, OverlayNothing
<1>3. CASE n = 1
  <2>1. Prefix(es, n) = es /\ Applied(es) = {1}
    BY <1>1, <1>3, SubSeqFull, AllApplied DEF Prefix
  <2> DEFINE t == [tbl EXCEPT ![es[1].id] = es[1].item]
  <2>2. ASSUME NEW id \in Ids
        PROVE  Overlay(tbl, es)[id] = t[id]
    <3>1. CASE id = es[1].id
      <4>1. 1 \in Last(es, id)
        BY <2>1, <3>1 DEF Last
      <4> QED BY <3>1, <4>1, OverlayOfLast DEF Tables
    <3>2. CASE id # es[1].id
      <4>1. Overlay(tbl, es)[id] = tbl[id]
        BY <2>1, <3>2, OverlayWithout
      <4> QED BY <3>2, <4>1 DEF Tables
    <3> QED BY <3>1, <3>2
  <2>3. t = [id \in Ids |-> t[id]]
    BY DEF Tables
  <2>4. Overlay(tbl, es) = [id \in Ids |-> Overlay(tbl, es)[id]]
    BY OverlayIsFunction
  <2> HIDE DEF t
  <2>5. Overlay(tbl, es) = t
    BY <2>2, <2>3, <2>4
  <2> QED BY <2>1, <2>5 DEF t
<1> QED BY <1>1, <1>2, <1>3

(* A first part of a pruning deletes some of the terminal deliveries it    *)
(* was to delete.                                                          *)
LEMMA PartOfMany ==
  ASSUME NEW tbl \in Tables, NEW es \in Seq(Chunks), AllLines(es), OfMany(tbl, es),
         NEW n \in 0 .. Len(es)
  PROVE  \E gone \in SUBSET Ids :
           /\ \A id \in gone : id \in Live(tbl) /\ Terminal(tbl[id])
           /\ Overlay(tbl, Prefix(es, n)) = [id \in Ids |-> IF id \in gone THEN Absent ELSE tbl[id]]
<1> DEFINE fs == Prefix(es, n)
           gone == {es[i].id : i \in 1 .. n}
<1>1. DOMAIN es = 1 .. Len(es) /\ Len(es) \in Nat
  BY LenProperties
<1>2. fs \in Seq(Chunks) /\ Len(fs) = n /\ AllLines(fs) /\ \A i \in 1 .. n : fs[i] = es[i]
  <2>1. \A i \in 1 .. n : es[i] \in Chunks
    BY <1>1, ElementOfSeq
  <2>2. Prefix(es, n) \in Seq(Chunks) /\ Len(Prefix(es, n)) = n /\ AllLines(Prefix(es, n))
    BY PrefixLines
  <2>3. \A i \in 1 .. n : Prefix(es, n)[i] = es[i]
    BY <1>1, <2>1, SubSeqProperties DEF Prefix
  <2> QED BY <2>2, <2>3
<1> HIDE DEF fs
<1>3. Applied(fs) = 1 .. n
  BY <1>2, AllApplied
<1>4. \A i \in 1 .. n : /\ es[i].item = Absent /\ es[i].id \in Live(tbl)
                        /\ Terminal(tbl[es[i].id])
  BY <1>1 DEF OfMany
<1>5. gone \in SUBSET Ids /\ \A id \in gone : id \in Live(tbl) /\ Terminal(tbl[id])
  BY <1>4 DEF Live
<1>6. ASSUME NEW id \in Ids
      PROVE  Overlay(tbl, fs)[id] = IF id \in gone THEN Absent ELSE tbl[id]
  <2>1. CASE id \in gone
    <3>1. Last(fs, id) # {}
      BY <1>2, <1>3, <2>1, LastExists
    <3>2. PICK i \in Last(fs, id) : TRUE
      BY <3>1
    <3>3. Overlay(tbl, fs)[id] = fs[i].item /\ i \in 1 .. n
      BY <1>2, <1>3, <3>2, OverlayOfLast DEF Last
    <3> QED BY <1>2, <1>4, <2>1, <3>3
  <2>2. CASE id \notin gone
    <3>1. \A i \in Applied(fs) : fs[i].id # id
      BY <1>2, <1>3, <2>2
    <3> QED BY <1>2, <2>2, <3>1, OverlayWithout
  <2> QED BY <2>1, <2>2
<1>7. Overlay(tbl, fs) = [id \in Ids |-> Overlay(tbl, fs)[id]]
  BY OverlayIsFunction
<1> HIDE DEF gone
<1>8. Overlay(tbl, fs) = [id \in Ids |-> IF id \in gone THEN Absent ELSE tbl[id]]
  BY <1>6, <1>7
<1> QED BY <1>5, <1>8 DEF fs

(* Both specifications speak of the same deliveries.                       *)
LEMMA SameDeliveries ==
  /\ Promises!EmptyTable = EmptyTable
  /\ \A tbl : Promises!Live(tbl) = Live(tbl)
  /\ \A key, content, now : Promises!New(key, content, now) = New(key, content, now)
  /\ \A d, now : /\ Promises!Claimed(d, now) = Claimed(d, now)
                 /\ Promises!Succeeded(d, now) = Succeeded(d, now)
                 /\ Promises!FailedForGood(d, now) = FailedForGood(d, now)
                 /\ \A next : Promises!Rescheduled(d, next, now) = Rescheduled(d, next, now)
                 /\ Promises!Canceled(d, now) = Canceled(d, now)
                 /\ Promises!Retried(d, now) = Retried(d, now)
<1>1. /\ Promises!EmptyTable = EmptyTable
      /\ \A tbl : Promises!Live(tbl) = Live(tbl)
  BY DEF Promises!EmptyTable, EmptyTable, Promises!Live, Live
<1>2. /\ \A key, content, now : Promises!New(key, content, now) = New(key, content, now)
      /\ \A d, now : Promises!Claimed(d, now) = Claimed(d, now)
  BY DEF Promises!New, New, Promises!ZeroTime, ZeroTime, Promises!Claimed, Claimed
<1>3. \A d, now : /\ Promises!Succeeded(d, now) = Succeeded(d, now)
                 /\ Promises!FailedForGood(d, now) = FailedForGood(d, now)
                 /\ \A next : Promises!Rescheduled(d, next, now) = Rescheduled(d, next, now)
                 /\ Promises!Canceled(d, now) = Canceled(d, now)
                 /\ Promises!Retried(d, now) = Retried(d, now)
  BY DEF Promises!ZeroTime, ZeroTime, Promises!Succeeded, Succeeded, Promises!FailedForGood,
    FailedForGood, Promises!Rescheduled, Rescheduled, Promises!Canceled, Canceled,
    Promises!Retried, Retried
<1> QED BY <1>1, <1>2, <1>3

(* Every step of the store is a step of what it promises, or none.         *)
LEMMA OneImplements ==
  ASSUME promised \in Tables, NEW es \in Seq(Chunks), OfOne(promised, es),
         promised' = [promised EXCEPT ![es[1].id] = es[1].item]
  PROVE  Promises!Next
<1> USE DEF Promises!Put
<1> DEFINE id == es[1].id
           d == es[1].item
<1>1. PICK now \in Times : Created(promised, id, d, now) \/ Continued(promised, id, d, now)
  BY DEF OfOne
<1>2. id \in Ids
  BY OneRecord
<1> HIDE DEF id, d
<1>3. CASE Created(promised, id, d, now)
  <2>1. PICK key \in Keys \union {NoKey}, content \in Contents :
          /\ d = New(key, content, now)
          /\ key # NoKey => \A other \in Live(promised) : promised[other].key # key
    BY <1>3 DEF Created
  <2>2. promised[id] = Absent
    BY <1>2, <1>3 DEF Created, Live
  <2>3. Promises!Create(id, key, content, now)
    BY <2>1, <2>2, SameDeliveries DEF Promises!Create, id, d
  <2> QED BY <1>2, <2>3 DEF Promises!Next
<1>4. CASE Continued(promised, id, d, now)
  <2>1. id \in Live(promised)
    BY <1>4 DEF Continued
  <2>2. CASE d = Claimed(promised[id], now) /\ Due(promised[id], now)
    <3>1. Promises!Claim(id, now)
      BY <2>1, <2>2, SameDeliveries DEF Promises!Claim, Promises!Due, Due, id, d
    <3> QED BY <1>2, <3>1 DEF Promises!Next
  <2>3. CASE d = Succeeded(promised[id], now) /\ promised[id].status = "in_flight"
    <3>1. Promises!Succeed(id, now)
      BY <2>1, <2>3, SameDeliveries DEF Promises!Succeed, id, d
    <3> QED BY <1>2, <3>1 DEF Promises!Next
  <2>4. CASE d = FailedForGood(promised[id], now) /\ promised[id].status = "in_flight"
    <3>1. Promises!Fail(id, now, now)
      BY <2>1, <2>4, SameDeliveries DEF Promises!Fail, id, d
    <3> QED BY <1>2, <3>1 DEF Promises!Next
  <2>5. CASE /\ \E next \in Times : d = Rescheduled(promised[id], next, now)
             /\ promised[id].status = "in_flight"
    <3>1. PICK next \in Times : d = Rescheduled(promised[id], next, now)
      BY <2>5
    <3>2. Promises!Fail(id, next, now)
      BY <2>1, <2>5, <3>1, SameDeliveries DEF Promises!Fail, id, d
    <3> QED BY <1>2, <3>2 DEF Promises!Next
  <2>6. CASE d = Canceled(promised[id], now) /\ Cancelable(promised[id])
    <3>1. Promises!Cancel(id, now)
      BY <2>1, <2>6, SameDeliveries DEF Promises!Cancel, Promises!Cancelable, Cancelable, id, d
    <3> QED BY <1>2, <3>1 DEF Promises!Next
  <2>7. CASE d = Retried(promised[id], now) /\ Retryable(promised[id])
    <3>1. Promises!Retry(id, now)
      BY <2>1, <2>7, SameDeliveries DEF Promises!Retry, Promises!Retryable, Retryable, id, d
    <3> QED BY <1>2, <3>1 DEF Promises!Next
  <2> QED BY <1>4, <2>2, <2>3, <2>4, <2>5, <2>6, <2>7 DEF Continued
<1> QED BY <1>1, <1>3, <1>4

(* Such a change is one step of the abstract table.                        *)
LEMMA StepImplements ==
  ASSUME IInv, KeysInv, UNCHANGED promised \/ Advances
  PROVE  [Promises!Next]_promised
<1>1. SUFFICES ASSUME Advances, promised' # promised
               PROVE  Promises!Next
  OBVIOUS
<1>2. PICK n \in 0 .. Len(unacked) : promised' = Overlay(promised, Prefix(unacked, n))
  BY <1>1 DEF Advances
<1>3. /\ promised \in Tables /\ unacked \in Seq(Chunks) /\ AllLines(unacked)
      /\ Operation(promised, unacked)
  BY DEF IInv, TypeOK, Remembering, KeysInv
<1>4. CASE OfOne(promised, unacked)
  <2>1. promised' = [promised EXCEPT ![unacked[1].id] = unacked[1].item]
    BY <1>1, <1>2, <1>3, <1>4, PartOfOne
  <2> QED BY <1>3, <1>4, <2>1, OneImplements
<1>5. CASE OfMany(promised, unacked)
  <2>1. PICK gone \in SUBSET Ids :
          /\ \A id \in gone : id \in Live(promised) /\ Terminal(promised[id])
          /\ promised' = [id \in Ids |-> IF id \in gone THEN Absent ELSE promised[id]]
    BY <1>2, <1>3, <1>5, PartOfMany
  <2>2. gone # {}
    <3>1. promised = [id \in Ids |-> promised[id]]
      BY <1>3 DEF Tables
    <3> QED BY <1>1, <2>1, <3>1
  <2>3. Promises!Prune(gone)
    BY <2>1, <2>2, SameDeliveries DEF Promises!Prune, Promises!Terminal, Terminal
  <2> QED BY <2>3 DEF Promises!Next
<1> QED BY <1>3, <1>4, <1>5 DEF Operation

(* And a claim among them is of the delivery due first.                    *)
LEMMA StepClaims ==
  ASSUME IInv, KeysInv, UNCHANGED promised \/ Advances,
         NEW id \in Live(promised) \intersect Live(promised'), NEW other \in Live(promised),
         promised'[id] = Claimed(promised[id], promised'[id].updatedAt),
         promised[other].content = promised[id].content,
         Due(promised[other], promised'[id].updatedAt)
  PROVE  promised[id].nextAttemptAt <= promised[other].nextAttemptAt
<1> DEFINE d == promised[id]
           e == promised'[id]
<1>1. id \in Ids /\ promised \in Tables /\ d \in Deliveries
  BY DEF Live, IInv, TypeOK, Tables
<1>2. /\ unacked \in Seq(Chunks) /\ AllLines(unacked) /\ Operation(promised, unacked)
  BY DEF IInv, TypeOK, Remembering, KeysInv
<1>3. e = Claimed(d, e.updatedAt) /\ e # Absent
  BY DEF Live
<1>4. d.attempts \in Nat
  BY <1>1 DEF Deliveries
<1>5. e # d /\ e.status = "in_flight"
  <2> HIDE DEF d, e
  <2>1. d \in [key : Keys \union {NoKey}, content : Contents, status : Statuses,
               attempts : Nat, nextAttemptAt : Nat, leaseUntil : Nat,
               createdAt : Times, updatedAt : Times]
    BY <1>1 DEF Deliveries
  <2>2. e.status = "in_flight" /\ e.attempts = d.attempts + 1
    BY <1>3, <2>1 DEF Claimed
  <2> QED BY <1>4, <2>2
<1>6. PICK n \in 0 .. Len(unacked) : promised' = Overlay(promised, Prefix(unacked, n))
  BY <1>5 DEF Advances
<1>7. ~OfMany(promised, unacked)
  <2>1. SUFFICES ASSUME OfMany(promised, unacked) PROVE FALSE
    OBVIOUS
  <2>2. PICK gone \in SUBSET Ids :
          promised' = [i \in Ids |-> IF i \in gone THEN Absent ELSE promised[i]]
    BY <1>1, <1>2, <1>6, <2>1, PartOfMany
  <2>3. e = Absent \/ e = d
    BY <1>1, <2>2
  <2> QED BY <1>3, <1>5, <2>3
<1>8. OfOne(promised, unacked)
  BY <1>2, <1>7 DEF Operation
<1> DEFINE r == unacked[1]
<1>9. promised' = [promised EXCEPT ![r.id] = r.item] /\ r.id \in Ids
  BY <1>1, <1>2, <1>5, <1>6, <1>8, PartOfOne, OneRecord
<1>10. r.id = id /\ r.item = e
  <2>1. r.id = id
    BY <1>1, <1>5, <1>9 DEF Tables
  <2> QED BY <1>1, <1>9, <2>1 DEF Tables
<1>11. PICK now \in Times :
         Created(promised, id, e, now) \/ Continued(promised, id, e, now)
  BY <1>8, <1>10 DEF OfOne
<1>12. Continued(promised, id, e, now)
  BY <1>11 DEF Created
<1>13. FirstDue(promised, id, now) /\ e.updatedAt = now
  <2> HIDE DEF e
  <2>1. d \in [key : Keys \union {NoKey}, content : Contents, status : Statuses,
               attempts : Nat, nextAttemptAt : Nat, leaseUntil : Nat,
               createdAt : Times, updatedAt : Times]
    BY <1>1 DEF Deliveries
  <2>2. \/ e = Claimed(d, now) /\ FirstDue(promised, id, now)
        \/ e = Succeeded(d, now)
        \/ e = FailedForGood(d, now)
        \/ \E next \in Times : e = Rescheduled(d, next, now)
        \/ e = Canceled(d, now)
        \/ e = Retried(d, now)
    BY <1>12 DEF Continued
  <2> HIDE DEF d
  <2>3. e = Claimed(d, now) /\ FirstDue(promised, id, now)
    BY <1>5, <2>1, <2>2 DEF Succeeded, FailedForGood, Rescheduled, Canceled, Retried
  <2> QED BY <2>1, <2>3 DEF Claimed
<1> QED BY <1>13 DEF FirstDue

-----------------------------------------------------------------------------
(* Hence, while the machine itself does not fail and no record is cut.     *)
LEMMA LosslessHolds ==
  ASSUME Faults \subseteq {"io", "kill"}
  PROVE  Spec => [](IInv /\ KeysInv /\ Lossless)
<1>1. Init => Lossless
  BY NoFileAssumption DEF Init, Lossless
<1>2. IInv /\ IInv' /\ KeysInv /\ Lossless /\ [Next]_vars => Lossless'
  BY LosslessStep
<1> QED BY <1>1, <1>2, KeysHold, PTL DEF Spec

(* For every instance in which writes and fsyncs may fail and the process  *)
(* be killed, the acknowledged table changes by whole operations of the    *)
(* abstract store, one at a time: appendDataLocked, Compact, Open, replay. *)
THEOREM StoreImplementsSpool ==
  ASSUME Faults \subseteq {"io", "kill"}
  PROVE  Spec => ImplementsSpool
<1>1. Init => Promises!Init
  BY SameDeliveries DEF Init, Promises!Init
<1>2. IInv /\ KeysInv /\ Lossless /\ [Next]_vars => [Promises!Next]_promised
  BY TableStep, StepImplements
<1> QED BY <1>1, <1>2, LosslessHolds, PTL DEF Spec, ImplementsSpool, Promises!Spec

(* In the same instances no acknowledged claim passes over a delivery of   *)
(* the same target that was due earlier, whatever compactions and restarts *)
(* came between: the candidates and the order of ClaimDueMatching.         *)
THEOREM ClaimsAreOrdered ==
  ASSUME Faults \subseteq {"io", "kill"}
  PROVE  Spec => ClaimsInOrder
<1> DEFINE Ordered ==
      \A id \in Live(promised) \intersect Live(promised'), other \in Live(promised) :
        LET now == promised'[id].updatedAt IN
        /\ promised'[id] = Claimed(promised[id], now)
        /\ promised[other].content = promised[id].content
        /\ Due(promised[other], now)
        => promised[id].nextAttemptAt <= promised[other].nextAttemptAt
<1>1. IInv /\ KeysInv /\ Lossless /\ [Next]_vars => [Ordered]_promised
  BY TableStep, StepClaims
<1> QED BY <1>1, LosslessHolds, PTL DEF Spec, ClaimsInOrder
=============================================================================
