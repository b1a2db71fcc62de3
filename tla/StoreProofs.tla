---------------------------- MODULE StoreProofs -----------------------------
(***************************************************************************)
(* Store, for every set of deliveries, keys, contents and clock readings,  *)
(* every combination of faults and all bounds: it keeps its types, at no   *)
(* point would the machine failing lose an acknowledged operation, and a   *)
(* healthy store's memory is what its journal says.                        *)
(***************************************************************************)
EXTENDS Store, DeliveryProofs, TLAPS, FiniteSetTheorems, SequenceTheorems,
        WellFoundedInduction

(* The journal as data: what a sequence of chunks replays to when it is    *)
(* extended, cut or rewritten.  These facts hold for any sequence.         *)

(* A set of positions of a journal has a last one.                         *)
LEMMA LastPosition ==
  ASSUME NEW n \in Nat, NEW T \in SUBSET (1 .. n), T # {}
  PROVE  \E i \in T : \A j \in T : j <= i
<1> DEFINE U == {n - i : i \in T}
<1>1. U \subseteq Nat /\ U # {}
  <2>1. \A i \in T : n - i \in Nat
    OBVIOUS
  <2>2. PICK i \in T : TRUE
    OBVIOUS
  <2>3. n - i \in U
    OBVIOUS
  <2> QED BY <2>1, <2>3
<1>2. PICK x \in U : \A y \in U : ~ (<<y, x>> \in OpToRel(<, Nat))
  BY <1>1, NatLessThanWellFounded, WFMin, Zenon
<1>3. \A y \in U : ~ (y < x)
  BY <1>1, <1>2 DEF OpToRel
<1>4. PICK i \in T : x = n - i
  OBVIOUS
<1>5. \A j \in T : n - j \in U
  OBVIOUS
<1>6. ASSUME NEW j \in T
      PROVE  j <= i
  <2>1. ~ (n - j < n - i)
    BY <1>3, <1>4, <1>5
  <2> QED BY <2>1
<1> QED BY <1>6

(* Every record of a journal without partial lines is applied.             *)
LEMMA AllApplied ==
  ASSUME NEW es \in Seq(Chunks), AllLines(es)
  PROVE  /\ Applied(es) = 1 .. Len(es)
         /\ Cardinality(Applied(es)) = Len(es)
         /\ Readable(es)
<1>1. DOMAIN es = 1 .. Len(es) /\ Len(es) \in Nat
  BY LenProperties
<1>2. \A i \in 1 .. Len(es) : es[i].part = "line"
  BY <1>1 DEF AllLines
<1>3. Applied(es) = 1 .. Len(es)
  BY <1>1, <1>2 DEF Applied
<1>4. Cardinality(1 .. Len(es)) = Len(es)
  BY <1>1, FS_Interval
<1> QED BY <1>1, <1>2, <1>3, <1>4 DEF Readable

(* What a journal replays to depends on the records it applies alone.      *)
LEMMA OverlayAgrees ==
  ASSUME NEW es \in Seq(Chunks), NEW fs \in Seq(Chunks), NEW tbl,
         Applied(es) = Applied(fs),
         \A i \in Applied(es) : es[i].id = fs[i].id /\ es[i].item = fs[i].item
  PROVE  Overlay(tbl, es) = Overlay(tbl, fs)
<1>1. ASSUME NEW id
      PROVE  Last(es, id) = Last(fs, id)
  BY DEF Last
<1>2. ASSUME NEW id, Last(es, id) # {}
      PROVE  es[CHOOSE i \in Last(es, id) : TRUE].item
               = fs[CHOOSE i \in Last(fs, id) : TRUE].item
  <2> DEFINE i == CHOOSE j \in Last(es, id) : TRUE
  <2>1. i \in Applied(es)
    BY <1>2 DEF Last
  <2>2. i = CHOOSE j \in Last(fs, id) : TRUE
    BY <1>1
  <2> QED BY <2>1, <2>2
<1>3. ASSUME NEW id \in Ids
      PROVE  (IF Last(es, id) = {} THEN tbl[id]
              ELSE es[CHOOSE i \in Last(es, id) : TRUE].item)
             = (IF Last(fs, id) = {} THEN tbl[id]
                ELSE fs[CHOOSE i \in Last(fs, id) : TRUE].item)
  <2>1. CASE Last(es, id) = {}
    BY <1>1, <2>1
  <2>2. CASE Last(es, id) # {}
    <3>1. Last(fs, id) # {}
      BY <1>1, <2>2
    <3>2. es[CHOOSE i \in Last(es, id) : TRUE].item
            = fs[CHOOSE i \in Last(fs, id) : TRUE].item
      BY <1>2, <2>2
    <3> QED BY <2>2, <3>1, <3>2
  <2> QED BY <2>1, <2>2
<1> QED BY <1>3, Zenon DEF Overlay

(* The last record of a delivery, when there is one, is what replay keeps. *)
LEMMA OverlayOfLast ==
  ASSUME NEW es \in Seq(Chunks), NEW tbl, NEW id \in Ids, NEW i \in Last(es, id)
  PROVE  Overlay(tbl, es)[id] = es[i].item
<1> DEFINE k == CHOOSE j \in Last(es, id) : TRUE
<1>1. k \in Last(es, id) /\ Last(es, id) # {}
  OBVIOUS
<1>2. k \in Nat /\ i \in Nat
  BY <1>1, LenProperties DEF Last, Applied
<1>3. k <= i /\ i <= k
  BY <1>1 DEF Last
<1>4. k = i
  BY <1>2, <1>3
<1> QED BY <1>1, <1>4 DEF Overlay

(* An overlay is the function of its values.                               *)
LEMMA OverlayIsFunction ==
  ASSUME NEW es, NEW tbl
  PROVE  Overlay(tbl, es) = [id \in Ids |-> Overlay(tbl, es)[id]]
<1> DEFINE value(id) == IF Last(es, id) = {} THEN tbl[id]
                        ELSE es[CHOOSE i \in Last(es, id) : TRUE].item
<1>1. Overlay(tbl, es) = [id \in Ids |-> value(id)]
  BY DEF Overlay
<1> HIDE DEF value
<1> QED BY <1>1

(* A delivery no record speaks of stays as it was.                         *)
LEMMA OverlayWithout ==
  ASSUME NEW es \in Seq(Chunks), NEW tbl, NEW id \in Ids,
         \A i \in Applied(es) : es[i].id # id
  PROVE  Overlay(tbl, es)[id] = tbl[id]
<1>1. Last(es, id) = {}
  BY DEF Last
<1> QED BY <1>1 DEF Overlay

(* A delivery some applied record speaks of has a last such record.        *)
LEMMA LastExists ==
  ASSUME NEW es \in Seq(Chunks), NEW id, \E i \in Applied(es) : es[i].id = id
  PROVE  Last(es, id) # {}
<1> DEFINE T == {i \in Applied(es) : es[i].id = id}
<1>1. Len(es) \in Nat /\ T \subseteq 1 .. Len(es) /\ T # {}
  BY LenProperties DEF Applied
<1>2. PICK i \in T : \A j \in T : j <= i
  BY <1>1, LastPosition
<1> QED BY <1>2 DEF Last

(* Replaying a journal and then the records appended to it: what the next  *)
(* process reads is what this one applied to its memory.                   *)
LEMMA OverlayExtended ==
  ASSUME NEW a \in Seq(Chunks), NEW b \in Seq(Chunks), NEW tbl,
         AllLines(a), AllLines(b)
  PROVE  AllLines(a \o b) /\ Overlay(tbl, a \o b) = Overlay(Overlay(tbl, a), b)
<1> DEFINE c == a \o b
<1>1. /\ c \in Seq(Chunks) /\ Len(c) = Len(a) + Len(b)
      /\ Len(a) \in Nat /\ Len(b) \in Nat
      /\ DOMAIN a = 1 .. Len(a) /\ DOMAIN b = 1 .. Len(b) /\ DOMAIN c = 1 .. Len(c)
  BY ConcatProperties, LenProperties
<1>2. \A i \in 1 .. Len(a) : c[i] = a[i]
  BY ConcatProperties, <1>1
<1>3. \A i \in 1 .. Len(b) : c[Len(a) + i] = b[i]
  BY ConcatProperties, <1>1
<1>4. \A i \in 1 .. Len(c) : i \in 1 .. Len(a) \/ i - Len(a) \in 1 .. Len(b)
  BY <1>1
<1>5. \A i \in 1 .. Len(c) :
        i \notin 1 .. Len(a) => c[i] = b[i - Len(a)] /\ i - Len(a) \in 1 .. Len(b)
  <2>1. ASSUME NEW i \in 1 .. Len(c), i \notin 1 .. Len(a)
        PROVE  c[i] = b[i - Len(a)] /\ i - Len(a) \in 1 .. Len(b)
    <3>1. i - Len(a) \in 1 .. Len(b) /\ Len(a) + (i - Len(a)) = i
      BY <1>1, <1>4, <2>1
    <3> QED BY <3>1, <1>3
  <2> QED BY <2>1
<1> HIDE DEF c
<1>6. AllLines(c)
  <2>1. \A i \in 1 .. Len(a) : a[i].part = "line"
    BY <1>1 DEF AllLines
  <2>2. \A i \in 1 .. Len(b) : b[i].part = "line"
    BY <1>1 DEF AllLines
  <2> QED BY <1>1, <1>2, <1>5, <2>1, <2>2 DEF AllLines
<1>7. /\ Applied(a) = 1 .. Len(a) /\ Applied(b) = 1 .. Len(b)
      /\ Applied(c) = 1 .. Len(c)
  BY <1>1, <1>6, AllApplied
<1>8. ASSUME NEW id \in Ids
      PROVE  Overlay(tbl, c)[id] = Overlay(Overlay(tbl, a), b)[id]
  <2>1. CASE \E i \in Applied(b) : b[i].id = id
    <3>1. PICK i \in Last(b, id) : TRUE
      BY <2>1, LastExists
    <3>2. i \in 1 .. Len(b) /\ b[i].id = id
      BY <3>1, <1>7 DEF Last
    <3>3. Len(a) + i \in 1 .. Len(c) /\ c[Len(a) + i] = b[i]
      BY <3>2, <1>1, <1>3
    <3>4. ASSUME NEW j \in 1 .. Len(c), c[j].id = id
          PROVE  j <= Len(a) + i
      <4>1. CASE j \in 1 .. Len(a)
        BY <4>1, <3>2, <1>1
      <4>2. CASE j \notin 1 .. Len(a)
        <5>1. b[j - Len(a)].id = id /\ j - Len(a) \in 1 .. Len(b)
          BY <1>5, <3>4, <4>2
        <5>2. j - Len(a) <= i
          BY <5>1, <3>1, <1>7 DEF Last
        <5> QED BY <5>1, <5>2, <3>2, <1>1
      <4> QED BY <4>1, <4>2
    <3>5. Len(a) + i \in Last(c, id)
      BY <3>2, <3>3, <3>4, <1>7 DEF Last
    <3>6. Overlay(tbl, c)[id] = c[Len(a) + i].item
      BY <1>1, <3>5, OverlayOfLast
    <3>7. Overlay(Overlay(tbl, a), b)[id] = b[i].item
      BY <3>1, OverlayOfLast
    <3> QED BY <3>3, <3>6, <3>7
  <2>2. CASE \A i \in Applied(b) : b[i].id # id
    <3>1. Overlay(Overlay(tbl, a), b)[id] = Overlay(tbl, a)[id]
      BY <2>2, OverlayWithout
    <3>2. CASE \E i \in Applied(a) : a[i].id = id
      <4>1. PICK i \in Last(a, id) : TRUE
        BY <3>2, LastExists
      <4>2. i \in 1 .. Len(a) /\ a[i].id = id
        BY <4>1, <1>7 DEF Last
      <4>3. i \in 1 .. Len(c) /\ c[i] = a[i]
        BY <4>2, <1>1, <1>2
      <4>4. ASSUME NEW j \in 1 .. Len(c), c[j].id = id
            PROVE  j <= i
        <5>1. j \in 1 .. Len(a)
          BY <1>5, <1>7, <2>2, <4>4
        <5>2. a[j].id = id
          BY <5>1, <4>4, <1>2
        <5> QED BY <5>1, <5>2, <4>1, <1>7 DEF Last
      <4>5. i \in Last(c, id)
        BY <4>2, <4>3, <4>4, <1>7 DEF Last
      <4>6. Overlay(tbl, c)[id] = c[i].item
        BY <1>1, <4>5, OverlayOfLast
      <4>7. Overlay(tbl, a)[id] = a[i].item
        BY <4>1, OverlayOfLast
      <4> QED BY <3>1, <4>3, <4>6, <4>7
    <3>3. CASE \A i \in Applied(a) : a[i].id # id
      <4>1. ASSUME NEW j \in Applied(c)
            PROVE  c[j].id # id
        <5>1. CASE j \in 1 .. Len(a)
          BY <5>1, <1>2, <1>7, <3>3
        <5>2. CASE j \notin 1 .. Len(a)
          <6>1. c[j] = b[j - Len(a)] /\ j - Len(a) \in Applied(b)
            BY <5>2, <1>5, <1>7
          <6> QED BY <6>1, <2>2
        <5> QED BY <5>1, <5>2
      <4>2. Overlay(tbl, c)[id] = tbl[id]
        BY <1>1, <4>1, OverlayWithout
      <4>3. Overlay(tbl, a)[id] = tbl[id]
        BY <3>3, OverlayWithout
      <4> QED BY <3>1, <4>2, <4>3
    <3> QED BY <3>2, <3>3
  <2> QED BY <2>1, <2>2
<1>9. Overlay(tbl, c) = Overlay(Overlay(tbl, a), b)
  <2> DEFINE f == Overlay(tbl, c)
             g == Overlay(Overlay(tbl, a), b)
  <2>1. f = [id \in Ids |-> f[id]] /\ g = [id \in Ids |-> g[id]]
    BY OverlayIsFunction, Zenon
  <2>2. \A id \in Ids : f[id] = g[id]
    BY <1>8
  <2>3. f = g
    <3> HIDE DEF f, g
    <3> QED BY <2>1, <2>2
  <2> QED BY <2>3
<1> QED BY <1>6, <1>9 DEF c

(* A journal that holds, for each delivery of a table and no other, its    *)
(* record replays to the table: what Compact writes.                       *)
LEMMA SnapshotReplays ==
  ASSUME NEW es \in Seq(Chunks), NEW tbl \in Tables, AllLines(es),
         \A i \in 1 .. Len(es) : es[i].item = tbl[es[i].id],
         \A id \in Live(tbl) : \E i \in 1 .. Len(es) : es[i].id = id
  PROVE  Replay(es) = tbl
<1>1. Applied(es) = 1 .. Len(es)
  BY AllApplied
<1>2. ASSUME NEW id \in Ids
      PROVE  Replay(es)[id] = tbl[id]
  <2>1. CASE \E i \in Applied(es) : es[i].id = id
    <3>1. PICK i \in Last(es, id) : TRUE
      BY <2>1, LastExists
    <3>2. i \in 1 .. Len(es) /\ es[i].id = id
      BY <3>1, <1>1 DEF Last
    <3> QED BY <3>1, <3>2, OverlayOfLast DEF Replay
  <2>2. CASE \A i \in Applied(es) : es[i].id # id
    <3>1. tbl[id] = Absent
      BY <1>1, <2>2 DEF Live
    <3>2. Replay(es)[id] = EmptyTable[id]
      BY <2>2, OverlayWithout DEF Replay
    <3> QED BY <3>1, <3>2 DEF EmptyTable
  <2> QED BY <2>1, <2>2
<1>3. Replay(es) = [id \in Ids |-> Replay(es)[id]]
  BY OverlayIsFunction DEF Replay
<1>4. tbl = [id \in Ids |-> tbl[id]]
  BY DEF Tables
<1> QED BY <1>2, <1>3, <1>4

-----------------------------------------------------------------------------
(* A journal that goes on after its first b records with the records un,   *)
(* as far as it goes, the last one perhaps cut.                            *)
Continues(es, b, un) ==
  /\ b \in 0 .. Len(es) /\ Len(es) <= b + Len(un)
  /\ \A i \in 1 .. Len(es) : i < Len(es) \/ i <= b => es[i].part = "line"
  /\ \A i \in b + 1 .. Len(es) :
       es[i].id = un[i - b].id /\ es[i].item = un[i - b].item

(* It can be read, and replays to its first b records with a prefix of un. *)
LEMMA ContinuedReplay ==
  ASSUME NEW es \in Seq(Chunks), NEW un \in Seq(Chunks), AllLines(un),
         NEW b, Continues(es, b, un)
  PROVE  /\ Readable(es)
         /\ \E n \in 0 .. Len(un) :
              Replay(es) = Overlay(Replay(Prefix(es, b)), Prefix(un, n))
<1> DEFINE whole == es # <<>> => es[Len(es)].part \in {"line", "bare"}
           m == IF whole THEN Len(es) ELSE Len(es) - 1
           k == m - b
           base == Prefix(es, b)
           more == Prefix(un, k)
<1>1. /\ Len(es) \in Nat /\ Len(un) \in Nat /\ b \in Nat
      /\ DOMAIN es = 1 .. Len(es) /\ DOMAIN un = 1 .. Len(un)
      /\ es = <<>> <=> Len(es) = 0
  BY LenProperties, EmptySeq DEF Continues
<1>2. \A i \in 1 .. Len(es) : es[i].part \in {"line", "bare", "torn"}
  <2>1. \A i \in 1 .. Len(es) : es[i] \in Chunks
    BY ElementOfSeq
  <2> QED BY <2>1 DEF Chunks
<1>3. \A i \in 1 .. Len(es) : i < Len(es) => es[i].part = "line"
  BY DEF Continues
<1>4. Readable(es)
  BY <1>1, <1>3 DEF Readable
<1>5. m \in b .. Len(es) /\ k \in 0 .. Len(un) /\ m = b + k
  <2>1. CASE whole
    BY <1>1, <2>1 DEF Continues
  <2>2. CASE ~whole
    <3>1. Len(es) \in 1 .. Len(es) /\ es[Len(es)].part # "line"
      BY <1>1, <2>2
    <3>2. ~ (Len(es) <= b)
      BY <3>1 DEF Continues
    <3> QED BY <1>1, <2>2, <3>2 DEF Continues
  <2> QED BY <2>1, <2>2
<1>6. Applied(es) = 1 .. m
  <2>1. ASSUME NEW i \in 1 .. Len(es), i < Len(es)
        PROVE  i \in Applied(es)
    <3>1. es[i].part = "line"
      BY <1>3, <2>1
    <3>2. i > 1 => es[i - 1].part = "line"
      BY <1>1, <1>3, <2>1
    <3> QED BY <1>1, <2>1, <3>1, <3>2 DEF Applied
  <2>2. ASSUME Len(es) > 0
        PROVE  Len(es) \in Applied(es) <=> whole
    <3>1. Len(es) > 1 => es[Len(es) - 1].part = "line"
      BY <1>1, <1>3
    <3>2. whole <=> es[Len(es)].part \in {"line", "bare"}
      BY <1>1, <2>2
    <3> HIDE DEF whole
    <3> QED BY <1>1, <2>2, <3>1, <3>2 DEF Applied
  <2>3. Applied(es) \subseteq 1 .. Len(es)
    BY <1>1 DEF Applied
  <2>4. Len(es) = 0 => whole
    BY <1>1
  <2> HIDE DEF whole
  <2>5. m = IF whole THEN Len(es) ELSE Len(es) - 1
    OBVIOUS
  <2> HIDE DEF m
  <2>6. ASSUME NEW i
        PROVE  i \in Applied(es) <=> i \in 1 .. m
    <3>1. CASE i \in 1 .. Len(es) /\ i < Len(es)
      <4>1. i \in 1 .. m
        BY <1>1, <2>5, <3>1
      <4> QED BY <2>1, <3>1, <4>1
    <3>2. CASE i = Len(es) /\ Len(es) > 0
      <4>1. i \in 1 .. m <=> whole
        BY <1>1, <2>5, <3>2
      <4> QED BY <2>2, <3>2, <4>1
    <3>3. CASE i \notin 1 .. Len(es)
      <4>1. i \notin 1 .. m
        BY <1>1, <2>4, <2>5, <3>3
      <4> QED BY <2>3, <3>3, <4>1
    <3> QED BY <1>1, <3>1, <3>2, <3>3
  <2> QED BY <2>6
<1> HIDE DEF whole, m, k
<1>7. /\ base \in Seq(Chunks) /\ Len(base) = b
      /\ \A i \in 1 .. b : base[i] = es[i]
  BY <1>1, <1>5, SubSeqProperties DEF Prefix
<1>8. /\ more \in Seq(Chunks) /\ Len(more) = k
      /\ \A i \in 1 .. k : more[i] = un[i]
  BY <1>1, <1>5, SubSeqProperties DEF Prefix
<1>9. AllLines(base)
  <2>1. \A i \in 1 .. b : es[i].part = "line"
    BY <1>1, <1>5 DEF Continues
  <2>2. DOMAIN base = 1 .. b
    BY <1>7, LenProperties
  <2> HIDE DEF base
  <2> QED BY <1>7, <2>1, <2>2 DEF AllLines
<1>10. AllLines(more)
  <2>1. \A i \in 1 .. k : un[i].part = "line"
    BY <1>1, <1>5 DEF AllLines
  <2>2. DOMAIN more = 1 .. k
    BY <1>8, LenProperties
  <2> HIDE DEF more
  <2> QED BY <1>8, <2>1, <2>2 DEF AllLines
<1> DEFINE c == base \o more
<1> HIDE DEF base, more
<1>11. /\ c \in Seq(Chunks) /\ Len(c) = m
       /\ \A i \in 1 .. b : c[i] = base[i]
       /\ \A i \in b + 1 .. m : c[i] = more[i - b]
  <2>1. Len(c) = b + k /\ b + k = m
    BY <1>1, <1>5, <1>7, <1>8, ConcatProperties
  <2> QED BY <2>1, <1>1, <1>5, <1>7, <1>8, ConcatProperties
<1>12. Applied(c) = 1 .. m
  BY <1>7, <1>8, <1>9, <1>10, <1>11, OverlayExtended, AllApplied
<1>13. ASSUME NEW i \in 1 .. m
       PROVE  es[i].id = c[i].id /\ es[i].item = c[i].item
  <2>1. CASE i \in 1 .. b
    BY <2>1, <1>7, <1>11
  <2>2. CASE i \notin 1 .. b
    <3>1. i \in b + 1 .. m /\ i - b \in 1 .. k /\ i \in b + 1 .. Len(es)
      BY <2>2, <1>1, <1>5
    <3>2. es[i].id = un[i - b].id /\ es[i].item = un[i - b].item
      BY <3>1 DEF Continues
    <3>3. c[i] = un[i - b]
      BY <3>1, <1>8, <1>11
    <3> QED BY <3>2, <3>3
  <2> QED BY <2>1, <2>2
<1>14. Replay(es) = Replay(c)
  BY <1>6, <1>11, <1>12, <1>13, OverlayAgrees DEF Replay
<1>15. Replay(c) = Overlay(Replay(base), more)
  BY <1>7, <1>8, <1>9, <1>10, OverlayExtended DEF Replay
<1> QED BY <1>4, <1>5, <1>14, <1>15 DEF base, more

(* Nor does an interruption after those b records change what it goes on   *)
(* with: a write that stops, or a machine that fails.                      *)
LEMMA CutContinues ==
  ASSUME NEW es \in Seq(Chunks), NEW un \in Seq(Chunks), NEW b, Continues(es, b, un),
         NEW s \in b .. Len(es),
         NEW cut \in WholeCuts(es, s) \union TornCuts(es, s)
  PROVE  /\ cut \in Seq(Chunks) /\ b <= Len(cut)
         /\ Continues(cut, b, un)
         /\ Prefix(cut, b) = Prefix(es, b)
<1>1. /\ Len(es) \in Nat /\ Len(un) \in Nat /\ b \in Nat /\ s \in Nat
      /\ b <= Len(es) /\ b <= s /\ Len(es) <= b + Len(un)
  BY LenProperties DEF Continues
<1>2. /\ \A i \in 1 .. Len(es) : i < Len(es) \/ i <= b => es[i].part = "line"
      /\ \A i \in b + 1 .. Len(es) :
           es[i].id = un[i - b].id /\ es[i].item = un[i - b].item
  BY DEF Continues
<1>3. \A m \in s .. Len(es) :
        /\ Prefix(es, m) \in Seq(Chunks) /\ Len(Prefix(es, m)) = m
        /\ \A i \in 1 .. m : Prefix(es, m)[i] = es[i]
  <2>1. \A i \in 1 .. Len(es) : es[i] \in Chunks
    BY ElementOfSeq
  <2> QED BY <1>1, <2>1, SubSeqProperties DEF Prefix
<1>4. ASSUME NEW fs \in Seq(Chunks), NEW m \in b .. Len(es), Len(fs) = m,
             \A i \in 1 .. m : i < m \/ i <= b => fs[i] = es[i],
             \A i \in 1 .. m : fs[i].id = es[i].id /\ fs[i].item = es[i].item
      PROVE  Continues(fs, b, un) /\ Prefix(fs, b) = Prefix(es, b)
  <2>1. Continues(fs, b, un)
    <3>1. ASSUME NEW i \in 1 .. m, i < m \/ i <= b
          PROVE  fs[i].part = "line"
      <4>1. i \in 1 .. Len(es) /\ (i < Len(es) \/ i <= b)
        BY <1>1, <3>1
      <4>2. es[i].part = "line"
        BY <1>2, <4>1
      <4> QED BY <1>4, <3>1, <4>2
    <3>2. \A i \in b + 1 .. m : fs[i].id = un[i - b].id /\ fs[i].item = un[i - b].item
      BY <1>1, <1>2, <1>4
    <3> QED BY <1>1, <1>4, <3>1, <3>2 DEF Continues
  <2>2. Prefix(fs, b) = Prefix(es, b)
    <3>1. \A i \in 1 .. b : fs[i] = es[i] /\ fs[i] \in Chunks /\ es[i] \in Chunks
      BY <1>1, <1>4, ElementOfSeq
    <3>2. /\ Prefix(fs, b) \in Seq(Chunks) /\ Prefix(es, b) \in Seq(Chunks)
          /\ Len(Prefix(fs, b)) = b /\ Len(Prefix(es, b)) = b
          /\ \A i \in 1 .. b : Prefix(fs, b)[i] = fs[i] /\ Prefix(es, b)[i] = es[i]
      BY <1>1, <3>1, SubSeqProperties DEF Prefix
    <3> QED BY <3>1, <3>2, SeqEqual
  <2> QED BY <2>1, <2>2
<1>5. CASE cut \in WholeCuts(es, s)
  <2>1. PICK m \in s .. Len(es) : cut = Prefix(es, m)
    BY <1>5 DEF WholeCuts
  <2>2. /\ cut \in Seq(Chunks) /\ Len(cut) = m /\ m \in b .. Len(es)
        /\ \A i \in 1 .. m : cut[i] = es[i]
    BY <1>1, <1>3, <2>1
  <2>3. Continues(cut, b, un) /\ Prefix(cut, b) = Prefix(es, b)
    BY <1>4, <2>2
  <2> QED BY <1>1, <2>2, <2>3
<1>6. CASE cut \in TornCuts(es, s)
  <2>1. PICK m \in s .. Len(es) - 1, part \in {"bare", "torn"} : cut = Cut(es, m, part)
    BY <1>6 DEF TornCuts, Shorter
  <2> DEFINE c == [es[m + 1] EXCEPT !.part = part]
  <2>2. m \in s .. Len(es) /\ m + 1 \in b .. Len(es) /\ m + 1 \in 1 .. Len(es)
    BY <1>1, <2>1
  <2>3. es[m + 1] \in Chunks
    BY <2>2, ElementOfSeq
  <2>4. c \in Chunks /\ c.id = es[m + 1].id /\ c.item = es[m + 1].item
    BY <2>1, <2>3 DEF Chunks
  <2> HIDE DEF c
  <2>5. /\ cut \in Seq(Chunks) /\ Len(cut) = m + 1 /\ cut[m + 1] = c
        /\ \A i \in 1 .. m : cut[i] = Prefix(es, m)[i]
    BY <1>3, <2>1, <2>2, <2>4, AppendProperties DEF Cut, c
  <2>6. \A i \in 1 .. m : cut[i] = es[i]
    BY <1>3, <2>2, <2>5
  <2>7. /\ \A i \in 1 .. m + 1 : i < m + 1 \/ i <= b => cut[i] = es[i]
        /\ \A i \in 1 .. m + 1 : cut[i].id = es[i].id /\ cut[i].item = es[i].item
    <3>1. \A i \in 1 .. m + 1 : i \in 1 .. m \/ i = m + 1
      BY <1>1, <2>2
    <3>2. b <= m
      BY <1>1, <2>1
    <3>3. m + 1 \notin 1 .. m /\ ~ (m + 1 < m + 1 \/ m + 1 <= b)
      BY <1>1, <2>1, <3>2
    <3>4. \A i \in 1 .. m : cut[i].id = es[i].id /\ cut[i].item = es[i].item
      BY <2>6
    <3>5. cut[m + 1].id = es[m + 1].id /\ cut[m + 1].item = es[m + 1].item
      BY <2>4, <2>5
    <3> QED BY <2>6, <3>1, <3>3, <3>4, <3>5
  <2>8. Continues(cut, b, un) /\ Prefix(cut, b) = Prefix(es, b)
    BY <1>4, <2>2, <2>5, <2>7
  <2> QED BY <1>1, <2>2, <2>5, <2>8
<1> QED BY <1>5, <1>6

-----------------------------------------------------------------------------
(* Types.                                                                  *)

(* Replaying records of the right type gives tables and indexes of the     *)
(* right type (applyRecord, setLocked, deleteLocked).                      *)
LEMMA OverlayTyped ==
  ASSUME NEW tbl \in Tables, NEW es \in Seq(Chunks)
  PROVE  Overlay(tbl, es) \in Tables
<1>1. ASSUME NEW id \in Ids, Last(es, id) # {}
      PROVE  es[CHOOSE i \in Last(es, id) : TRUE].item \in Deliveries \union {Absent}
  <2> DEFINE i == CHOOSE j \in Last(es, id) : TRUE
  <2>1. i \in DOMAIN es
    BY <1>1 DEF Last, Applied
  <2>2. es[i] \in Chunks
    BY <2>1, ElementOfSeq
  <2> QED BY <2>2 DEF Chunks
<1> QED BY <1>1 DEF Overlay, Tables

(* The key index after the same records.                                   *)
LEMMA KeyOverlayTyped ==
  ASSUME NEW index \in [Keys -> Ids \union {NoId}], NEW es \in Seq(Chunks)
  PROVE  KeyOverlay(index, es) \in [Keys -> Ids \union {NoId}]
<1>1. ASSUME NEW key \in Keys, LastSetting(es, key) # {}
      PROVE  es[CHOOSE i \in LastSetting(es, key) : TRUE].id \in Ids
  <2> DEFINE i == CHOOSE j \in LastSetting(es, key) : TRUE
  <2>1. i \in DOMAIN es
    BY <1>1 DEF LastSetting, Applied
  <2>2. es[i] \in Chunks
    BY <2>1, ElementOfSeq
  <2> QED BY <2>2 DEF Chunks
<1> QED BY <1>1 DEF KeyOverlay

(* The records replay applies can be counted.                              *)
LEMMA AppliedFinite ==
  ASSUME NEW es \in Seq(Chunks)
  PROVE  Cardinality(Applied(es)) \in Nat
<1>1. IsFiniteSet(1 .. Len(es))
  BY FS_Interval
<1>2. Applied(es) \subseteq 1 .. Len(es)
  BY DEF Applied
<1> QED BY <1>1, <1>2, FS_Subset, FS_CardinalityType

(* An interrupted write leaves records of the right type.                  *)
LEMMA CutsTyped ==
  ASSUME NEW es \in Seq(Chunks), NEW n \in 0 .. Len(es), NEW cut \in Cuts(es, n)
  PROVE  cut \in Seq(Chunks)
<1>1. CASE cut \in WholeCuts(es, n)
  <2>1. PICK m \in n .. Len(es) : cut = Prefix(es, m)
    BY <1>1 DEF WholeCuts
  <2>2. m \in 0 .. Len(es)
    BY <2>1
  <2> QED BY <2>1, <2>2, SubSeqProperties DEF Prefix
<1>2. CASE cut \in TornCuts(es, n)
  <2>1. PICK m \in n .. Len(es) - 1, part \in {"bare", "torn"} : cut = Cut(es, m, part)
    BY <1>2 DEF TornCuts, Shorter
  <2>2. m \in 0 .. Len(es) /\ m + 1 \in 1 .. Len(es)
    BY <2>1
  <2>3. Prefix(es, m) \in Seq(Chunks)
    BY <2>2, SubSeqProperties DEF Prefix
  <2>4. es[m + 1] \in Chunks
    BY <2>2, ElementOfSeq
  <2>5. [es[m + 1] EXCEPT !.part = part] \in Chunks
    BY <2>4, <2>1 DEF Chunks
  <2> QED BY <2>1, <2>3, <2>5, AppendProperties DEF Cut
<1> QED BY <1>1, <1>2 DEF Cuts

-----------------------------------------------------------------------------
(* The steps every operation goes through.                                 *)
LEMMA FilesTyped ==
  /\ EmptyFile \in Files
  /\ \A f \in Files, es \in Seq(Chunks) : Extended(f, es) \in Files
  /\ \A f \in Files : Synced(f) \in Files
  /\ \A id \in Ids, d \in Deliveries \union {Absent} :
       [id |-> id, item |-> d, part |-> "line"] \in Chunks
<1>1. EmptyFile \in Files
  BY EmptySeq DEF EmptyFile, Files
<1>2. ASSUME NEW f \in Files, NEW es \in Seq(Chunks)
      PROVE  Extended(f, es) \in Files
  <2>1. /\ f.chunks \o es \in Seq(Chunks)
        /\ Len(f.chunks \o es) = Len(f.chunks) + Len(es)
    BY ConcatProperties DEF Files
  <2>2. f.synced <= Len(f.chunks) + Len(es)
    BY LenProperties DEF Files
  <2> QED BY <2>1, <2>2 DEF Extended, Files
<1>3. ASSUME NEW f \in Files
      PROVE  Synced(f) \in Files
  <2>1. Len(f.chunks) \in Nat
    BY LenProperties DEF Files
  <2> QED BY <2>1 DEF Synced, Files
<1>4. \A id \in Ids, d \in Deliveries \union {Absent} :
        [id |-> id, item |-> d, part |-> "line"] \in Chunks
  BY DEF Chunks
<1> QED BY <1>1, <1>2, <1>3, <1>4

(* The end of a process.                                                   *)
LEMMA StopTyped ==
  ASSUME TypeOK, Stop, journal' \in Files \union {NoFile},
         temp' \in Files \union {NoFile}, shadows' \subseteq Files \union {NoFile},
         UNCHANGED history
  PROVE  TypeOK'
BY DEF TypeOK, Stop, EmptyTable, EmptyIndex, Tables, history

(* The start of a process from a journal of the right type.                *)
LEMMA LoadTyped ==
  ASSUME TypeOK, Load, journal' \in Files, temp' \in Files \union {NoFile},
         shadows' \subseteq Files \union {NoFile}
  PROVE  TypeOK'
<1>1. journal'.chunks \in Seq(Chunks) /\ journal' # NoFile
  BY NoFileAssumption DEF Files
<1>2. EmptyTable \in Tables /\ EmptyIndex \in [Keys -> Ids \union {NoId}]
  BY DEF EmptyTable, Tables, EmptyIndex
<1>3. items' \in Tables /\ promised' \in Tables
  BY <1>1, <1>2, OverlayTyped DEF Load, Replay
<1>4. keyToID' \in [Keys -> Ids \union {NoId}]
  BY <1>1, <1>2, KeyOverlayTyped DEF Load
<1>5. records' \in Nat
  BY <1>1, AppliedFinite DEF Load
<1>6. unacked' \in Seq(Chunks)
  BY EmptySeq DEF Load
<1> QED BY <1>1, <1>3, <1>4, <1>5, <1>6 DEF Load, TypeOK

(* A write of well-formed records, whole or cut.                           *)
LEMMA WriteTyped ==
  ASSUME TypeOK, Serving, NEW es \in Seq(Chunks), Write(es)
  PROVE  TypeOK'
<1>1. journal \in Files
  BY DEF TypeOK, Serving
<1>2. \A part \in Cuts(es, 0) : part \in Seq(Chunks)
  <2>1. 0 \in 0 .. Len(es)
    BY LenProperties
  <2> QED BY <2>1, CutsTyped
<1>3. journal' \in Files
  BY <1>1, <1>2, FilesTyped DEF Write
<1>4. journal' # NoFile
  BY <1>3, NoFileAssumption
<1> QED BY <1>3, <1>4 DEF TypeOK, Write, Serving

(* Every request is one write of whole records of the right type.          *)
OneWrite == \E es \in Seq(Chunks) : AllLines(es) /\ Write(es)

(* Every mutation is one write of well-formed records.                     *)
LEMMA MutateWrites ==
  ASSUME TypeOK, Mutate
  PROVE  Serving /\ OneWrite
<1> USE DEF Mutate
<1>1. Serving
  OBVIOUS
<1>2. \A id \in Live(items) : id \in Ids /\ items[id] \in Deliveries
  BY DEF TypeOK, Live, Tables
<1>3. ASSUME NEW c \in Chunks, c.part = "line", Write(<<c>>)
      PROVE  OneWrite
  <2>1. <<c>> \in Seq(Chunks) /\ AllLines(<<c>>)
    BY <1>3 DEF AllLines
  <2> QED BY <1>3, <2>1 DEF OneWrite
<1>4. ASSUME NEW id \in Ids, NEW d \in Deliveries, Write(<<DeliveryRecord(id, d)>>)
      PROVE  OneWrite
  <2>1. DeliveryRecord(id, d) \in Chunks /\ DeliveryRecord(id, d).part = "line"
    BY FilesTyped DEF DeliveryRecord
  <2> QED BY <1>3, <1>4, <2>1
<1>5. PICK now \in Times :
        \/ \E id \in Ids :
             \/ \E key \in Keys \union {NoKey}, content \in Contents :
                  Create(id, key, content, now)
             \/ \E attempt \in 1 .. AttemptBound :
                  \/ Succeed(id, attempt, now)
                  \/ \E next \in Times, terminal \in BOOLEAN :
                       Fail(id, attempt, next, terminal, now)
             \/ Cancel(id, now)
             \/ Retry(id, now)
        \/ \E eligible \in SUBSET Contents : ClaimDue(eligible, now)
        \/ PruneTerminal(now)
  OBVIOUS
<1>6. CASE \E id \in Ids, key \in Keys \union {NoKey}, content \in Contents :
             Create(id, key, content, now)
  BY <1>4, <1>6, TransitionsTyped DEF Create
<1>7. CASE \E id \in Ids, attempt \in 1 .. AttemptBound : Succeed(id, attempt, now)
  BY <1>2, <1>4, <1>7, TransitionsTyped DEF Succeed, HoldsLease
<1>8. CASE \E id \in Ids, attempt \in 1 .. AttemptBound, next \in Times,
              terminal \in BOOLEAN : Fail(id, attempt, next, terminal, now)
  BY <1>2, <1>4, <1>8, TransitionsTyped DEF Fail, HoldsLease
<1>9. CASE \E id \in Ids : Cancel(id, now)
  BY <1>2, <1>4, <1>9, TransitionsTyped DEF Cancel
<1>10. CASE \E id \in Ids : Retry(id, now)
  BY <1>2, <1>4, <1>10, TransitionsTyped DEF Retry
<1>11. CASE \E eligible \in SUBSET Contents : ClaimDue(eligible, now)
  BY <1>2, <1>4, <1>11, TransitionsTyped DEF ClaimDue
<1>12. CASE PruneTerminal(now)
  <2> DEFINE gone == {id \in Live(items) : Prunable(items[id], now)}
  <2>1. PICK order \in [1 .. Cardinality(gone) -> gone] :
          Write([i \in DOMAIN order |-> DeleteRecord(order[i])])
    BY <1>12 DEF PruneTerminal
  <2>2. Cardinality(gone) \in Nat
    <3>1. gone \subseteq Ids
      BY <1>2
    <3> QED BY <3>1, IdsAssumption, FS_Subset, FS_CardinalityType
  <2>3. \A i \in 1 .. Cardinality(gone) : DeleteRecord(order[i]) \in Chunks
    BY <1>2, <2>1, FilesTyped DEF DeleteRecord
  <2> DEFINE es == [i \in DOMAIN order |-> DeleteRecord(order[i])]
  <2>4. es \in Seq(Chunks)
    <3>1. DOMAIN order = 1 .. Cardinality(gone)
      BY <2>1
    <3> QED BY <2>2, <2>3, <3>1, IsASeq
  <2>5. AllLines(es)
    BY DEF AllLines, DeleteRecord
  <2> QED BY <2>1, <2>4, <2>5 DEF OneWrite
<1> QED BY <1>1, <1>5, <1>6, <1>7, <1>8, <1>9, <1>10, <1>11, <1>12

(* Hence mutations keep the type.                                          *)
LEMMA MutateTyped ==
  ASSUME TypeOK, Mutate
  PROVE  TypeOK'
BY MutateWrites, WriteTyped DEF OneWrite

-----------------------------------------------------------------------------
(* Whatever survives a power loss is a file of the right type.             *)
LEMMA SurvivorsTyped ==
  ASSUME NEW f \in Files \union {NoFile}, NEW g \in Survivors(f)
  PROVE  g \in Files \union {NoFile}
<1>1. CASE f = NoFile
  BY <1>1 DEF Survivors
<1>2. CASE f # NoFile
  <2>1. PICK es \in Cuts(f.chunks, f.synced) : g = [chunks |-> es, synced |-> Len(es)]
    BY <1>2 DEF Survivors
  <2>2. f.chunks \in Seq(Chunks) /\ f.synced \in 0 .. Len(f.chunks)
    BY <1>2, LenProperties DEF Files
  <2>3. es \in Seq(Chunks)
    BY <2>1, <2>2, CutsTyped
  <2> QED BY <2>1, <2>3, LenProperties DEF Files
<1> QED BY <1>1, <1>2

(* Every step keeps the type: one case per action.                         *)
LEMMA TypeOKStep ==
  ASSUME TypeOK, [Next]_vars
  PROVE  TypeOK'
<1> USE DEF TypeOK
<1>1. CASE UNCHANGED vars
  BY <1>1 DEF vars, memory, disk, history
<1>2. CASE Open
  <2> USE NoFileAssumption, FilesTyped
  <2>1. ASSUME OpenExisting
        PROVE  TypeOK'
    <3>1. /\ Load /\ journal' \in Files /\ temp' \in Files \union {NoFile}
          /\ shadows' \subseteq Files \union {NoFile}
      BY <2>1 DEF OpenExisting, ShadowsAfterCleanup
    <3> QED BY <3>1, LoadTyped
  <2>2. ASSUME OpenNew
        PROVE  TypeOK'
    BY <2>2 DEF OpenNew, ShadowsAfterCleanup, memory, history
  <2>3. ASSUME NewJournalSynced
        PROVE  TypeOK'
    <3>1. /\ Load /\ journal' \in Files /\ temp' \in Files \union {NoFile}
          /\ shadows' \subseteq Files \union {NoFile}
      BY <2>3 DEF NewJournalSynced
    <3> QED BY <3>1, LoadTyped
  <2>4. ASSUME NewJournalSyncFails
        PROVE  TypeOK'
    BY <2>4 DEF NewJournalSyncFails, memory, history
  <2>5. ASSUME CleanupFails
        PROVE  TypeOK'
    BY <2>5 DEF CleanupFails, memory, history
  <2> QED BY <1>2, <2>1, <2>2, <2>3, <2>4, <2>5 DEF Open
<1>3. CASE Mutate
  BY <1>3, MutateTyped
<1>4. CASE AdmissionFails
  BY <1>4 DEF AdmissionFails, disk, history
<1>5. CASE SyncDone
  <2>1. journal' \in Files
    BY <1>5, FilesTyped DEF SyncDone
  <2>2. items' \in Tables /\ promised' \in Tables
    BY <1>5, OverlayTyped DEF SyncDone
  <2>3. keyToID' \in [Keys -> Ids \union {NoId}]
    BY <1>5, KeyOverlayTyped DEF SyncDone
  <2>4. records' \in Nat
    BY <1>5, LenProperties DEF SyncDone
  <2>5. unacked' \in Seq(Chunks) /\ settled' \in BOOLEAN
    BY <1>5, EmptySeq DEF SyncDone
  <2>6. journal' # NoFile
    BY <2>1, NoFileAssumption
  <2> QED BY <1>5, <2>1, <2>2, <2>3, <2>4, <2>5, <2>6 DEF SyncDone
<1>6. CASE SyncFails
  BY <1>6 DEF SyncFails, disk, history
<1>7. CASE Compact
  <2>1. ASSUME CompactBegin
        PROVE  TypeOK'
    BY <2>1, FilesTyped, NoFileAssumption DEF CompactBegin, Serving, memory, history
  <2>2. ASSUME NEW id \in Ids, CompactRecord(id)
        PROVE  TypeOK'
    <3>1. items[id] \in Deliveries \union {Absent}
      BY DEF Tables
    <3>2. <<DeliveryRecord(id, items[id])>> \in Seq(Chunks)
      BY <3>1, FilesTyped DEF DeliveryRecord
    <3>3. temp' \in Files
      BY <2>2, <3>2, FilesTyped DEF CompactRecord
    <3> QED BY <2>2, <3>3, NoFileAssumption DEF CompactRecord, memory, history
  <2>3. ASSUME CompactFails
        PROVE  TypeOK'
    BY <2>3 DEF CompactFails, memory, history
  <2>4. ASSUME CompactRename
        PROVE  TypeOK'
    <3>1. journal' \in Files
      BY <2>4, FilesTyped DEF CompactRename
    <3> QED BY <2>4, <3>1, NoFileAssumption DEF CompactRename, memory, history
  <2>5. ASSUME CompactDone
        PROVE  TypeOK'
    <3>1. journal \in Files
      BY <2>5 DEF CompactDone
    <3>2. Len(journal.chunks) \in Nat
      BY <3>1, LenProperties DEF Files
    <3> QED BY <2>5, <3>2, EmptySeq DEF CompactDone
  <2>6. ASSUME CompactDirSyncFails
        PROVE  TypeOK'
    <3>1. journal \in Files
      BY <2>6 DEF CompactDirSyncFails
    <3>2. Len(journal.chunks) \in Nat
      BY <3>1, LenProperties DEF Files
    <3> QED BY <2>6, <3>2 DEF CompactDirSyncFails, disk, history
  <2> QED BY <1>7, <2>1, <2>2, <2>3, <2>4, <2>5, <2>6 DEF Compact
<1>8. CASE Close
  BY <1>8, StopTyped DEF Close, disk
<1>9. CASE Kill
  BY <1>9, StopTyped, FilesTyped DEF Kill, Leftover
<1>10. CASE PowerLoss
  <2>1. PICK f \in {journal} \union shadows : journal' \in Survivors(f)
    BY <1>10 DEF PowerLoss
  <2>2. journal' \in Files \union {NoFile}
    BY <2>1, SurvivorsTyped
  <2>3. temp' \in Files \union {NoFile} /\ shadows' = {}
    BY <1>10, FilesTyped DEF PowerLoss, Leftover
  <2> QED BY <1>10, <2>2, <2>3, StopTyped DEF PowerLoss
<1> QED
  BY <1>1, <1>2, <1>3, <1>4, <1>5, <1>6, <1>7, <1>8, <1>9, <1>10 DEF Next

(* The first state.                                                        *)
LEMMA InitTyped == Init => TypeOK
<1>1. EmptyTable \in Tables /\ EmptyIndex \in [Keys -> Ids \union {NoId}]
  BY DEF EmptyTable, Tables, EmptyIndex
<1>2. <<>> \in Seq(Chunks) /\ 0 \in Nat
  BY EmptySeq
<1> QED BY <1>1, <1>2, Zenon DEF Init, TypeOK

(* Type correctness of the store, for every instance: the shapes of the    *)
(* deliveries included, in memory and in every file a restart may read.    *)
THEOREM TypeCorrect == Spec => []TypeOK
<1>1. Init => TypeOK
  BY InitTyped
<1>2. TypeOK /\ [Next]_vars => TypeOK'
  BY TypeOKStep
<1> QED BY <1>1, <1>2, PTL DEF Spec

-----------------------------------------------------------------------------
(* Safety.  The invariant says of each file the journal's name may denote  *)
(* how much of it is what was promised, and that the rest is the operation *)
(* in doubt.                                                               *)

(* The file begins with durable records that replay to the table, and goes *)
(* on with records of un, the last one perhaps cut.                        *)
Recoverable(f, tbl, un) ==
  IF f = NoFile THEN tbl = EmptyTable
  ELSE \E b \in 0 .. f.synced :
         Continues(f.chunks, b, un) /\ Replay(Prefix(f.chunks, b)) = tbl

(* The store may append: no operation is in doubt.                         *)
Quiet == proc = "up" /\ stage \in {"idle", "snapshot"} /\ ~persistenceErr

(* Memory is what a journal without a cut record says.                     *)
Faithful ==
  AllLines(journal.chunks) =>
    items = Replay(journal.chunks) /\ records = Len(journal.chunks)

(* A process that is up answers from what it promised, and only a store that*)
(* failed or is writing has an operation in doubt.                         *)
Remembering ==
  /\ proc = "up" => items = promised
  /\ AllLines(unacked)
  /\ Quiet => unacked = <<>> /\ Faithful

(* Between the write and the fsync the journal ends with the records       *)
(* written, and memory is what the records before them say.                *)
Written0 == Len(journal.chunks) - Len(unacked)
Before == Prefix(journal.chunks, Written0)

(* Between write and fsync.                                                *)
Appending ==
  stage = "syncing" =>
    /\ ~persistenceErr
    /\ Written0 \in Nat /\ journal.chunks = Before \o unacked
    /\ AllLines(journal.chunks) => items = Replay(Before) /\ records = Written0
    /\ settled => AllLines(journal.chunks) /\ shadows = {}

(* The snapshot copies what is in memory; the renamed file is all of it.   *)
Compacting ==
  /\ stage = "snapshot" =>
       /\ AllLines(temp.chunks)
       /\ \A i \in 1 .. Len(temp.chunks) :
            temp.chunks[i].item = items[temp.chunks[i].id]
  /\ stage = "renamed" =>
       /\ AllLines(journal.chunks) /\ journal.synced = Len(journal.chunks)
       /\ items = Replay(journal.chunks)

(* A journal that was once whole and durable: while nothing is in doubt it is*)
(* so still, and every file its name may denote can be recovered from.     *)
Durable ==
  settled =>
    /\ Quiet => /\ shadows = {} /\ AllLines(journal.chunks)
                /\ journal.synced = Len(journal.chunks)
    /\ \A f \in {journal} \union shadows : Recoverable(f, promised, unacked)

(* The inductive invariant.                                                *)
IInv ==
  /\ TypeOK
  /\ proc = "creating" => journal = EmptyFile
  /\ Remembering
  /\ Appending
  /\ Compacting
  /\ Durable

-----------------------------------------------------------------------------
(* Files that can be recovered.                                            *)

(* An empty file replays to the empty table.                               *)
LEMMA EmptyReplays ==
  /\ <<>> \in Seq(Chunks) /\ Len(<<>>) = 0 /\ AllLines(<<>>) /\ Readable(<<>>)
  /\ Replay(<<>>) = EmptyTable
<1>1. <<>> \in Seq(Chunks) /\ Len(<<>>) = 0 /\ AllLines(<<>>)
  BY EmptySeq DEF AllLines
<1>2. Applied(<<>>) = {}
  BY <1>1 DEF Applied
<1>3. \A id \in Ids : Replay(<<>>)[id] = EmptyTable[id]
  BY <1>1, <1>2, OverlayWithout DEF Replay
<1>4. Replay(<<>>) = [id \in Ids |-> Replay(<<>>)[id]]
  BY OverlayIsFunction DEF Replay
<1>5. EmptyTable = [id \in Ids |-> EmptyTable[id]]
  BY DEF EmptyTable
<1> QED BY <1>1, <1>3, <1>4, <1>5, AllApplied

(* A whole and durable file.                                               *)
LEMMA WholeRecoverable ==
  ASSUME NEW f \in Files, AllLines(f.chunks), f.synced = Len(f.chunks),
         NEW un \in Seq(Chunks)
  PROVE  Recoverable(f, Replay(f.chunks), un)
<1>1. f.chunks \in Seq(Chunks) /\ Len(f.chunks) \in Nat /\ Len(un) \in Nat
  BY LenProperties DEF Files
<1>2. Prefix(f.chunks, Len(f.chunks)) = f.chunks
  BY <1>1, SubSeqFull DEF Prefix
<1>3. Continues(f.chunks, Len(f.chunks), un)
  <2>1. \A i \in 1 .. Len(f.chunks) : f.chunks[i].part = "line"
    BY <1>1, LenProperties DEF AllLines
  <2> QED BY <1>1, <2>1 DEF Continues
<1>4. f # NoFile
  BY NoFileAssumption
<1> QED BY <1>1, <1>2, <1>3, <1>4 DEF Recoverable

(* What a failing machine leaves of a file, and what Open reads of it.     *)
LEMMA SurvivorRecoverable ==
  ASSUME NEW f \in Files \union {NoFile}, NEW tbl, NEW un \in Seq(Chunks),
         Recoverable(f, tbl, un), NEW g \in Survivors(f)
  PROVE  Recoverable(g, tbl, un)
<1>1. CASE f = NoFile
  BY <1>1 DEF Survivors, Recoverable
<1>2. CASE f # NoFile
  <2>1. PICK b \in 0 .. f.synced :
          Continues(f.chunks, b, un) /\ Replay(Prefix(f.chunks, b)) = tbl
    BY <1>2 DEF Recoverable
  <2>2. PICK es \in Cuts(f.chunks, f.synced) : g = [chunks |-> es, synced |-> Len(es)]
    BY <1>2 DEF Survivors
  <2>3. /\ f.chunks \in Seq(Chunks) /\ Len(f.chunks) \in Nat
        /\ f.synced \in b .. Len(f.chunks)
    BY <1>2, <2>1, LenProperties DEF Files
  <2>4. es \in WholeCuts(f.chunks, f.synced) \union TornCuts(f.chunks, f.synced)
    BY <2>2 DEF Cuts
  <2>5. /\ es \in Seq(Chunks) /\ b <= Len(es) /\ Continues(es, b, un)
        /\ Prefix(es, b) = Prefix(f.chunks, b)
    BY <2>1, <2>3, <2>4, CutContinues
  <2>6. g # NoFile /\ g.chunks = es /\ b \in 0 .. g.synced
    <3>1. g \in Files
      BY <2>2, <2>5, LenProperties DEF Files
    <3> QED BY <2>1, <2>2, <2>5, <3>1, NoFileAssumption, LenProperties
  <2> QED BY <2>1, <2>5, <2>6 DEF Recoverable
<1> QED BY <1>1, <1>2

(* What Open reads of a recoverable file is promised, but for the doubt.   *)
LEMMA ImageRecovers ==
  ASSUME NEW f \in Files \union {NoFile}, NEW tbl, NEW un \in Seq(Chunks),
         AllLines(un), Recoverable(f, tbl, un), NEW es \in CrashImages(f)
  PROVE  /\ Readable(es)
         /\ \E n \in 0 .. Len(un) : Replay(es) = Overlay(tbl, Prefix(un, n))
<1>1. CASE f = NoFile
  <2>1. es = <<>> /\ tbl = EmptyTable
    BY <1>1 DEF CrashImages, Recoverable
  <2>2. Prefix(un, 0) = <<>> /\ 0 \in 0 .. Len(un)
    BY SubSeqEmpty, LenProperties DEF Prefix
  <2> QED BY <2>1, <2>2, EmptyReplays DEF Replay
<1>2. CASE f # NoFile
  <2>1. PICK b \in 0 .. f.synced :
          Continues(f.chunks, b, un) /\ Replay(Prefix(f.chunks, b)) = tbl
    BY <1>2 DEF Recoverable
  <2>2. /\ f.chunks \in Seq(Chunks) /\ f.synced \in b .. Len(f.chunks)
    BY <1>2, <2>1, LenProperties DEF Files
  <2>3. /\ es \in Seq(Chunks) /\ Continues(es, b, un)
        /\ Prefix(es, b) = Prefix(f.chunks, b)
    BY <1>2, <2>1, <2>2, CutContinues DEF CrashImages
  <2> QED BY <2>1, <2>3, ContinuedReplay
<1> QED BY <1>1, <1>2

(* An append to a whole and durable file, wherever it stopped.             *)
LEMMA AppendedRecoverable ==
  ASSUME NEW f \in Files, AllLines(f.chunks), f.synced = Len(f.chunks),
         NEW es \in Seq(Chunks), AllLines(es),
         NEW part \in Seq(Chunks), Continues(part, 0, es)
  PROVE  Recoverable(Extended(f, part), Replay(f.chunks), es)
<1> DEFINE b == Len(f.chunks)
           c == f.chunks \o part
<1>1. /\ f.chunks \in Seq(Chunks) /\ b \in Nat /\ Len(es) \in Nat /\ Len(part) \in Nat
      /\ DOMAIN f.chunks = 1 .. b
  BY LenProperties DEF Files
<1>2. c \in Seq(Chunks) /\ Len(c) = b + Len(part)
  BY <1>1, ConcatProperties
<1>3. /\ \A i \in 1 .. b : c[i] = f.chunks[i]
      /\ \A i \in b + 1 .. Len(c) : c[i] = part[i - b] /\ i - b \in 1 .. Len(part)
  BY <1>1, <1>2, ConcatProperties
<1>4. Prefix(c, b) = f.chunks
  <2>1. /\ Prefix(c, b) \in Seq(Chunks) /\ Len(Prefix(c, b)) = b
        /\ \A i \in 1 .. b : Prefix(c, b)[i] = c[i]
    <3>1. \A i \in 1 .. b : c[i] \in Chunks
      BY <1>1, <1>3, ElementOfSeq
    <3> QED BY <1>1, <3>1, SubSeqProperties DEF Prefix
  <2> QED BY <1>1, <1>3, <2>1, SeqEqual
<1> HIDE DEF c
<1>5. Continues(c, b, es)
  <2>1. /\ Len(part) <= Len(es)
        /\ \A i \in 1 .. Len(part) : i < Len(part) => part[i].part = "line"
        /\ \A i \in 1 .. Len(part) : part[i].id = es[i].id /\ part[i].item = es[i].item
    BY <1>1 DEF Continues
  <2>2. \A i \in 1 .. b : c[i].part = "line"
    BY <1>1, <1>3 DEF AllLines
  <2>3. ASSUME NEW i \in 1 .. Len(c), i < Len(c) \/ i <= b
        PROVE  c[i].part = "line"
    <3>1. CASE i <= b
      BY <1>1, <2>2, <2>3, <3>1
    <3>2. CASE ~ (i <= b)
      <4>1. /\ i \in b + 1 .. Len(c) /\ i - b \in 1 .. Len(part) /\ i - b < Len(part)
        BY <1>1, <1>2, <2>3, <3>2
      <4> QED BY <1>3, <2>1, <4>1
    <3> QED BY <3>1, <3>2
  <2>4. \A i \in b + 1 .. Len(c) :
          c[i].id = es[i - b].id /\ c[i].item = es[i - b].item
    BY <1>3, <2>1
  <2>5. b \in 0 .. Len(c) /\ Len(c) <= b + Len(es)
    BY <1>1, <1>2, <2>1
  <2> QED BY <2>3, <2>4, <2>5 DEF Continues
<1>6. Extended(f, part).chunks = c /\ Extended(f, part).synced = b
  BY DEF Extended, Files, c
<1>7. Extended(f, part) # NoFile
  BY FilesTyped, NoFileAssumption
<1> QED BY <1>1, <1>4, <1>5, <1>6, <1>7 DEF Recoverable

(* An interrupted write is such a part, and so is a whole one.             *)
LEMMA CutsOfWrite ==
  ASSUME NEW es \in Seq(Chunks), AllLines(es)
  PROVE  /\ Continues(es, 0, es)
         /\ \A part \in Cuts(es, 0) : part \in Seq(Chunks) /\ Continues(part, 0, es)
<1>1. Len(es) \in Nat /\ DOMAIN es = 1 .. Len(es)
  BY LenProperties
<1>2. Continues(es, 0, es)
  BY <1>1 DEF Continues, AllLines
<1>3. ASSUME NEW part \in Cuts(es, 0)
      PROVE  part \in Seq(Chunks) /\ Continues(part, 0, es)
  <2>1. part \in WholeCuts(es, 0) \union TornCuts(es, 0)
    BY DEF Cuts
  <2>2. 0 \in 0 .. Len(es)
    BY <1>1
  <2> QED BY <1>2, <2>1, <2>2, CutContinues
<1> QED BY <1>2, <1>3

-----------------------------------------------------------------------------
(* The steps.  Type correctness is StoreProofs' TypeOKStep.                *)

(* A prefix of whole lines is whole lines.                                 *)
LEMMA PrefixLines ==
  ASSUME NEW es \in Seq(Chunks), NEW n \in 0 .. Len(es)
  PROVE  /\ Prefix(es, n) \in Seq(Chunks) /\ Len(Prefix(es, n)) = n
         /\ AllLines(es) => AllLines(Prefix(es, n))
<1>1. DOMAIN es = 1 .. Len(es) /\ Len(es) \in Nat
  BY LenProperties
<1>2. /\ Prefix(es, n) \in Seq(Chunks) /\ Len(Prefix(es, n)) = n
      /\ \A i \in 1 .. n : Prefix(es, n)[i] = es[i]
  <2>1. \A i \in 1 .. n : es[i] \in Chunks
    BY <1>1, ElementOfSeq
  <2> QED BY <1>1, <2>1, SubSeqProperties DEF Prefix
<1>3. DOMAIN Prefix(es, n) = 1 .. n
  BY <1>2, LenProperties
<1> QED BY <1>1, <1>2, <1>3 DEF AllLines

(* The process ends, and every file can still be recovered.                *)
LEMMA StopStep ==
  ASSUME IInv, TypeOK', Stop, UNCHANGED history,
         settled => \A f \in {journal'} \union shadows' : Recoverable(f, promised, unacked)
  PROVE  IInv'
<1>1. /\ proc' = "down" /\ stage' = "idle" /\ unacked' = unacked
      /\ promised' = promised /\ settled' = settled
  BY DEF Stop, history
<1>2. ~Quiet'
  BY <1>1 DEF Quiet
<1>3. Remembering'
  BY <1>1, <1>2 DEF IInv, Remembering
<1>4. Appending' /\ Compacting'
  BY <1>1 DEF Appending, Compacting
<1>5. Durable'
  BY <1>1, <1>2 DEF Durable
<1> QED BY <1>1, <1>3, <1>4, <1>5 DEF IInv

(* A new process reads the journal: what it reads is what it promises.     *)
LEMMA LoadStep ==
  ASSUME IInv, TypeOK', Load
  PROVE  IInv'
<1>1. /\ proc' = "up" /\ stage' = "idle" /\ unacked' = <<>>
      /\ items' = Replay(journal'.chunks) /\ promised' = items'
      /\ records' = Cardinality(Applied(journal'.chunks))
      /\ settled' = (/\ AllLines(journal'.chunks)
                     /\ journal'.synced = Len(journal'.chunks) /\ shadows' = {})
  BY DEF Load
<1>2. journal' \in Files /\ journal'.chunks \in Seq(Chunks)
  BY <1>1 DEF TypeOK, Files
<1>3. Remembering'
  <2>1. AllLines(journal'.chunks) => records' = Len(journal'.chunks)
    BY <1>1, <1>2, AllApplied
  <2> QED BY <1>1, <2>1, EmptyReplays DEF Remembering, Faithful
<1>4. Appending' /\ Compacting'
  BY <1>1 DEF Appending, Compacting
<1>5. Durable'
  <2>1. settled' => Recoverable(journal', Replay(journal'.chunks), <<>>)
    BY <1>1, <1>2, WholeRecoverable, EmptyReplays
  <2> QED BY <1>1, <2>1 DEF Durable
<1> QED BY <1>1, <1>3, <1>4, <1>5 DEF IInv

(* appendDataLocked up to the fsync, or up to its failure.                 *)
LEMMA WriteStep ==
  ASSUME IInv, TypeOK', Serving, NEW es \in Seq(Chunks), AllLines(es), Write(es)
  PROVE  IInv'
<1>1. /\ proc = "up" /\ stage = "idle" /\ ~persistenceErr /\ Quiet
      /\ proc' = proc /\ items' = items /\ promised' = promised /\ records' = records
      /\ shadows' = shadows /\ settled' = settled /\ unacked' = es
  BY DEF Serving, Write, Quiet
<1>2. \/ /\ journal' = Extended(journal, es)
         /\ stage' = "syncing" /\ persistenceErr' = persistenceErr
      \/ /\ \E part \in Cuts(es, 0) : journal' = Extended(journal, part)
         /\ stage' = "idle" /\ persistenceErr' = TRUE
  BY <1>1 DEF Write
<1>3. journal \in Files /\ journal.chunks \in Seq(Chunks)
  BY <1>1 DEF IInv, TypeOK, Files
<1>4. ~Quiet'
  BY <1>2 DEF Quiet
<1>5. Remembering'
  BY <1>1, <1>4 DEF IInv, Remembering
<1>6. Compacting'
  BY <1>2 DEF Compacting
<1>7. Appending'
  <2>1. SUFFICES ASSUME stage' = "syncing"
                 PROVE  Appending'
    BY DEF Appending
  <2>2. journal' = Extended(journal, es) /\ ~persistenceErr'
    BY <1>1, <1>2, <2>1
  <2> DEFINE c == journal.chunks \o es
  <2>3. journal'.chunks = c
    BY <1>3, <2>2 DEF Extended, Files
  <2>4. /\ c \in Seq(Chunks) /\ Len(c) = Len(journal.chunks) + Len(es)
        /\ Len(journal.chunks) \in Nat /\ Len(es) \in Nat
    BY <1>3, ConcatProperties, LenProperties
  <2>5. Written0' = Len(journal.chunks)
    BY <1>1, <2>3, <2>4 DEF Written0
  <2>6. Before' = journal.chunks
    <3>1. Before' = SubSeq(c, 1, Len(journal.chunks))
      BY <2>3, <2>5 DEF Before, Prefix
    <3>2. SubSeq(c, 1, Len(journal.chunks)) = journal.chunks
      BY <1>3, ConcatSimplifications, SubSeqOfConcat1, SubSeqFull, <2>4
    <3> QED BY <3>1, <3>2
  <2>7. AllLines(c) => AllLines(journal.chunks)
    <3>1. \A i \in 1 .. Len(journal.chunks) : c[i] = journal.chunks[i]
      BY <1>3, <2>4, ConcatProperties
    <3>2. DOMAIN c = 1 .. Len(c) /\ DOMAIN journal.chunks = 1 .. Len(journal.chunks)
      BY <1>3, <2>4, LenProperties
    <3> HIDE DEF c
    <3> QED BY <2>4, <3>1, <3>2 DEF AllLines
  <2>8. AllLines(c) => items' = Replay(Before') /\ records' = Written0'
    BY <1>1, <2>5, <2>6, <2>7 DEF IInv, Remembering, Faithful
  <2>9. settled' => AllLines(c) /\ shadows' = {}
    <3>1. settled => AllLines(journal.chunks) /\ shadows = {}
      BY <1>1 DEF IInv, Durable
    <3> QED BY <1>1, <1>3, <3>1, OverlayExtended
  <2> HIDE DEF c
  <2>10. journal'.chunks = Before' \o unacked'
    BY <1>1, <2>3, <2>6 DEF c
  <2> QED BY <2>2, <2>3, <2>4, <2>5, <2>8, <2>9, <2>10 DEF Appending
<1>8. Durable'
  <2>1. SUFFICES ASSUME settled
                 PROVE  \A f \in {journal'} \union shadows' :
                          Recoverable(f, promised', unacked')
    BY <1>1, <1>4 DEF Durable
  <2>2. /\ shadows = {} /\ AllLines(journal.chunks)
        /\ journal.synced = Len(journal.chunks)
    BY <1>1, <2>1 DEF IInv, Durable
  <2>3. Replay(journal.chunks) = promised
    BY <1>1, <2>2 DEF IInv, Remembering, Faithful
  <2>4. \E part \in Seq(Chunks) :
          Continues(part, 0, es) /\ journal' = Extended(journal, part)
    BY <1>2, CutsOfWrite
  <2>5. Recoverable(journal', promised, es)
    BY <1>3, <2>2, <2>3, <2>4, AppendedRecoverable
  <2> QED BY <1>1, <2>2, <2>5
<1> QED BY <1>1, <1>5, <1>6, <1>7, <1>8 DEF IInv

(* The fsync has returned: the journal is whole again, and memory follows. *)
LEMMA SyncDoneStep ==
  ASSUME IInv, TypeOK', SyncDone
  PROVE  IInv'
<1>1. /\ stage = "syncing" /\ stage' = "idle" /\ proc = "up" /\ proc' = proc
      /\ ~persistenceErr /\ persistenceErr' = persistenceErr
      /\ journal' = Synced(journal) /\ shadows' = shadows
      /\ items' = Overlay(items, unacked) /\ promised' = Overlay(promised, unacked)
      /\ records' = records + Len(unacked) /\ unacked' = <<>>
      /\ settled' = (settled \/ (AllLines(journal.chunks) /\ shadows = {}))
  BY DEF SyncDone, IInv, TypeOK, Appending
<1>2. /\ journal \in Files /\ journal.chunks \in Seq(Chunks)
      /\ unacked \in Seq(Chunks) /\ AllLines(unacked)
  BY <1>1 DEF IInv, TypeOK, Files, Remembering
<1>3. /\ journal' \in Files /\ journal'.chunks = journal.chunks
      /\ journal'.synced = Len(journal.chunks)
  BY <1>1, <1>2, FilesTyped DEF Synced, Files
<1>4. /\ Written0 \in Nat /\ journal.chunks = Before \o unacked
      /\ AllLines(journal.chunks) => items = Replay(Before) /\ records = Written0
      /\ settled => AllLines(journal.chunks) /\ shadows = {}
  BY <1>1 DEF IInv, Appending
<1>5. items = promised
  BY <1>1 DEF IInv, Remembering
<1>6. AllLines(journal.chunks) =>
        items' = Replay(journal.chunks) /\ records' = Len(journal.chunks)
  <2>1. SUFFICES ASSUME AllLines(journal.chunks)
                 PROVE  items' = Replay(journal.chunks) /\ records' = Len(journal.chunks)
    OBVIOUS
  <2>2. Len(journal.chunks) \in Nat /\ Len(unacked) \in Nat
    BY <1>2, LenProperties
  <2>3. Written0 \in 0 .. Len(journal.chunks)
    BY <1>4, <2>2 DEF Written0
  <2>4. Before \in Seq(Chunks) /\ AllLines(Before)
    BY <1>2, <2>1, <2>3, PrefixLines DEF Before
  <2>5. Replay(Before \o unacked) = Overlay(Replay(Before), unacked)
    BY <1>2, <2>4, OverlayExtended DEF Replay
  <2>6. items = Replay(Before) /\ records = Written0
    BY <1>4, <2>1
  <2>7. records' = Len(journal.chunks)
    BY <1>1, <2>2, <2>6 DEF Written0
  <2> QED BY <1>1, <1>4, <2>5, <2>6, <2>7
<1>7. Remembering'
  BY <1>1, <1>3, <1>5, <1>6, EmptyReplays DEF Remembering, Faithful
<1>8. Appending' /\ Compacting'
  BY <1>1 DEF Appending, Compacting
<1>9. Durable'
  <2>1. SUFFICES ASSUME settled'
                 PROVE  /\ shadows' = {} /\ AllLines(journal'.chunks)
                        /\ journal'.synced = Len(journal'.chunks)
                        /\ Recoverable(journal', promised', unacked')
    BY DEF Durable
  <2>2. AllLines(journal.chunks) /\ shadows = {}
    BY <1>1, <1>4, <2>1
  <2>3. Recoverable(journal', Replay(journal'.chunks), <<>>)
    BY <1>3, <2>2, WholeRecoverable, EmptyReplays
  <2> QED BY <1>1, <1>3, <1>5, <1>6, <2>2, <2>3
<1> QED BY <1>1, <1>7, <1>8, <1>9 DEF IInv

(* Compact before the rename: the journal and the memory stay as they are, *)
(* and the temporary file holds records of the memory alone.               *)
LEMMA SnapshotStep ==
  ASSUME IInv, TypeOK',
         CompactBegin \/ (\E id \in Ids : CompactRecord(id)) \/ CompactFails
  PROVE  IInv'
<1>1. /\ proc' = proc /\ journal' = journal /\ shadows' = shadows
      /\ items' = items /\ persistenceErr' = persistenceErr /\ records' = records
      /\ unacked' = unacked /\ promised' = promised /\ settled' = settled
      /\ stage \in {"idle", "snapshot"} /\ stage' \in {"idle", "snapshot"}
      /\ proc = "up"
  BY DEF CompactBegin, CompactRecord, CompactFails, memory, history, Serving, IInv, TypeOK
<1>2. Quiet' <=> Quiet
  BY <1>1 DEF Quiet
<1>3. Remembering'
  BY <1>1, <1>2 DEF IInv, Remembering, Faithful
<1>4. Appending'
  BY <1>1 DEF Appending
<1>5. Durable'
  BY <1>1, <1>2 DEF IInv, Durable
<1>6. Compacting'
  <2>1. CASE CompactBegin
    BY <2>1, EmptyReplays DEF CompactBegin, Compacting, EmptyFile
  <2>2. CASE CompactFails
    BY <2>2 DEF CompactFails, Compacting
  <2>3. ASSUME NEW id \in Ids, CompactRecord(id)
        PROVE  Compacting'
    <3> DEFINE r == DeliveryRecord(id, items[id])
               c == temp.chunks \o <<r>>
    <3>1. /\ stage = "snapshot" /\ stage' = "snapshot"
          /\ temp' = Extended(temp, <<r>>)
      BY <2>3 DEF CompactRecord
    <3>2. temp \in Files /\ temp.chunks \in Seq(Chunks)
      BY <3>1 DEF IInv, TypeOK, Files
    <3>3. /\ AllLines(temp.chunks)
          /\ \A i \in 1 .. Len(temp.chunks) :
               temp.chunks[i].item = items[temp.chunks[i].id]
      BY <3>1 DEF IInv, Compacting
    <3>4. temp'.chunks = c
      BY <3>1, <3>2 DEF Extended, Files
    <3>5. /\ r \in Chunks /\ r.part = "line" /\ r.id = id /\ r.item = items[id]
      BY FilesTyped DEF IInv, TypeOK, Tables, DeliveryRecord
    <3> HIDE DEF r
    <3>6. /\ <<r>> \in Seq(Chunks) /\ Len(<<r>>) = 1 /\ <<r>>[1] = r
          /\ AllLines(<<r>>)
      BY <3>5 DEF AllLines
    <3>7. AllLines(c)
      BY <3>2, <3>3, <3>6, OverlayExtended
    <3>8. /\ Len(c) = Len(temp.chunks) + 1 /\ Len(temp.chunks) \in Nat
          /\ \A i \in 1 .. Len(temp.chunks) : c[i] = temp.chunks[i]
          /\ c[Len(temp.chunks) + 1] = r
      <4>1. Len(temp.chunks) \in Nat
        BY <3>2, LenProperties
      <4> QED BY <3>2, <3>6, <4>1, ConcatProperties
    <3> HIDE DEF c
    <3>9. \A i \in 1 .. Len(c) : c[i].item = items[c[i].id]
      <4>1. \A i \in 1 .. Len(c) : i \in 1 .. Len(temp.chunks) \/ i = Len(temp.chunks) + 1
        BY <3>8
      <4> QED BY <3>3, <3>5, <3>8, <4>1
    <3> QED BY <1>1, <3>1, <3>4, <3>7, <3>9 DEF Compacting
  <2> QED BY <2>1, <2>2, <2>3
<1> QED BY <1>1, <1>3, <1>4, <1>5, <1>6 DEF IInv

(* The rename: the snapshot replays to the memory, and the journal it      *)
(* replaces can still be recovered should it come back.                    *)
LEMMA RenameStep ==
  ASSUME IInv, TypeOK', CompactRename
  PROVE  IInv'
<1>1. /\ stage = "snapshot" /\ stage' = "renamed" /\ Live(items) \subseteq Written(temp)
      /\ journal' = Synced(temp) /\ shadows' = shadows \union {journal}
      /\ proc' = proc /\ items' = items /\ persistenceErr' = persistenceErr
      /\ unacked' = unacked /\ promised' = promised /\ settled' = settled
      /\ proc = "up"
  BY DEF CompactRename, memory, history, IInv, TypeOK
<1>2. /\ temp \in Files /\ temp.chunks \in Seq(Chunks) /\ items \in Tables
      /\ unacked \in Seq(Chunks)
  BY <1>1 DEF IInv, TypeOK, Files
<1>3. /\ journal' \in Files /\ journal'.chunks = temp.chunks
      /\ journal'.synced = Len(temp.chunks)
  BY <1>1, <1>2, FilesTyped DEF Synced, Files
<1>4. /\ AllLines(temp.chunks)
      /\ \A i \in 1 .. Len(temp.chunks) :
           temp.chunks[i].item = items[temp.chunks[i].id]
  BY <1>1 DEF IInv, Compacting
<1>5. Replay(temp.chunks) = items
  <2>1. DOMAIN temp.chunks = 1 .. Len(temp.chunks)
    BY <1>2, LenProperties
  <2>2. \A id \in Live(items) : \E i \in 1 .. Len(temp.chunks) : temp.chunks[i].id = id
    BY <1>1, <2>1 DEF Written
  <2> QED BY <1>2, <1>4, <2>2, SnapshotReplays
<1>6. ~Quiet'
  BY <1>1 DEF Quiet
<1>7. Remembering'
  BY <1>1, <1>6 DEF IInv, Remembering
<1>8. Appending' /\ Compacting'
  BY <1>1, <1>3, <1>4, <1>5 DEF Appending, Compacting
<1>9. Durable'
  <2>1. Recoverable(journal', items, unacked)
    BY <1>2, <1>3, <1>4, <1>5, WholeRecoverable
  <2>2. items = promised
    BY <1>1 DEF IInv, Remembering
  <2> QED BY <1>1, <1>6, <2>1, <2>2 DEF IInv, Durable
<1> QED BY <1>1, <1>7, <1>8, <1>9 DEF IInv

(* The fsync of the directory, and its failure.                            *)
LEMMA AdoptStep ==
  ASSUME IInv, TypeOK', CompactDone \/ CompactDirSyncFails
  PROVE  IInv'
<1>1. /\ stage = "renamed" /\ stage' = "idle" /\ proc = "up" /\ proc' = proc
      /\ items' = items /\ promised' = promised /\ journal' = journal
      /\ records' = Len(journal.chunks)
  BY DEF CompactDone, CompactDirSyncFails, disk, history, IInv, TypeOK
<1>2. /\ AllLines(journal.chunks) /\ journal.synced = Len(journal.chunks)
      /\ items = Replay(journal.chunks)
  BY <1>1 DEF IInv, Compacting
<1>3. items = promised
  BY <1>1 DEF IInv, Remembering
<1>4. Appending' /\ Compacting'
  BY <1>1 DEF Appending, Compacting
<1>5. CASE CompactDone
  <2>1. shadows' = {} /\ ~persistenceErr' /\ unacked' = <<>> /\ settled'
    BY <1>5 DEF CompactDone
  <2>2. Remembering'
    BY <1>1, <1>2, <1>3, <2>1, EmptyReplays DEF Remembering, Faithful
  <2>3. journal \in Files
    BY <1>1 DEF IInv, TypeOK
  <2>4. Recoverable(journal', promised', unacked')
    BY <1>1, <1>2, <1>3, <2>1, <2>3, WholeRecoverable, EmptyReplays
  <2>5. Durable'
    BY <1>1, <1>2, <2>1, <2>4 DEF Durable
  <2> QED BY <1>1, <1>4, <2>2, <2>5 DEF IInv
<1>6. CASE CompactDirSyncFails
  <2>1. /\ shadows' = shadows /\ persistenceErr' /\ unacked' = unacked
        /\ settled' = settled
    BY <1>6 DEF CompactDirSyncFails, disk, history
  <2>2. ~Quiet'
    BY <2>1 DEF Quiet
  <2>3. Remembering'
    BY <1>1, <2>1, <2>2 DEF IInv, Remembering
  <2>4. Durable'
    BY <1>1, <2>1, <2>2 DEF IInv, Durable
  <2> QED BY <1>1, <1>4, <2>3, <2>4 DEF IInv
<1> QED BY <1>5, <1>6

(* Open, up to the moment it reads the journal, and its failures.          *)
LEMMA OpenStep ==
  ASSUME IInv, TypeOK', Open
  PROVE  IInv'
<1>1. CASE OpenExisting \/ NewJournalSynced
  BY <1>1, LoadStep DEF OpenExisting, NewJournalSynced
<1>2. ASSUME UNCHANGED <<stage, memory, history>>, ~Quiet', proc # "up", proc' # "up",
             proc' = "creating" => journal' = EmptyFile,
             settled => \A f \in {journal'} \union shadows' :
                          Recoverable(f, promised, unacked)
      PROVE  IInv'
  <2>1. stage = "idle" /\ stage' = "idle"
    BY <1>2 DEF IInv, TypeOK
  <2>2. Remembering'
    BY <1>2 DEF IInv, Remembering, history
  <2>3. Appending' /\ Compacting'
    BY <2>1 DEF Appending, Compacting
  <2>4. Durable'
    BY <1>2 DEF Durable, history
  <2> QED BY <1>2, <2>2, <2>3, <2>4 DEF IInv
<1>3. CASE OpenNew
  <2>1. /\ proc = "down" /\ proc' = "creating" /\ journal = NoFile
        /\ journal' = EmptyFile /\ shadows' \subseteq shadows \union {NoFile}
        /\ UNCHANGED <<stage, memory, history>>
    BY <1>3 DEF OpenNew, ShadowsAfterCleanup
  <2>2. ~Quiet'
    BY <2>1 DEF Quiet
  <2>3. ASSUME settled
        PROVE  \A f \in {journal'} \union shadows' : Recoverable(f, promised, unacked)
    <3>1. \A f \in {NoFile} \union shadows : Recoverable(f, promised, unacked)
      BY <2>1, <2>3 DEF IInv, Durable
    <3>2. promised = EmptyTable
      BY <3>1 DEF Recoverable
    <3>3. Recoverable(EmptyFile, Replay(EmptyFile.chunks), unacked)
      BY FilesTyped, WholeRecoverable, EmptyReplays DEF IInv, TypeOK, EmptyFile
    <3>4. Replay(EmptyFile.chunks) = EmptyTable
      BY EmptyReplays DEF EmptyFile
    <3> QED BY <2>1, <3>1, <3>2, <3>3, <3>4
  <2> QED BY <1>2, <2>1, <2>2, <2>3
<1>4. CASE NewJournalSyncFails
  <2>1. /\ proc = "creating" /\ proc' = "down" /\ journal = EmptyFile
        /\ journal' = NoFile /\ shadows' = shadows \union {journal}
        /\ UNCHANGED <<stage, memory, history>>
    BY <1>4 DEF NewJournalSyncFails, IInv
  <2>2. ~Quiet'
    BY <2>1 DEF Quiet
  <2>3. ASSUME settled
        PROVE  \A f \in {journal'} \union shadows' : Recoverable(f, promised, unacked)
    <3>1. \A f \in {journal} \union shadows : Recoverable(f, promised, unacked)
      BY <2>3 DEF IInv, Durable
    <3>2. promised = EmptyTable
      <4>1. EmptyFile # NoFile /\ EmptyFile.synced = 0 /\ EmptyFile.chunks = <<>>
        BY FilesTyped, NoFileAssumption DEF EmptyFile
      <4>2. Replay(Prefix(<<>>, 0)) = promised
        BY <2>1, <3>1, <4>1 DEF Recoverable
      <4>3. Prefix(<<>>, 0) = <<>>
        BY SubSeqEmpty DEF Prefix
      <4> QED BY <4>2, <4>3, EmptyReplays
    <3> QED BY <2>1, <3>1, <3>2 DEF Recoverable
  <2> QED BY <1>2, <2>1, <2>2, <2>3
<1>5. CASE CleanupFails
  <2>1. /\ proc = "down" /\ proc' = "down" /\ journal' = journal /\ shadows' = shadows
        /\ UNCHANGED <<stage, memory, history>>
    BY <1>5 DEF CleanupFails
  <2>2. ~Quiet'
    BY <2>1 DEF Quiet
  <2>3. settled => \A f \in {journal'} \union shadows' : Recoverable(f, promised, unacked)
    BY <2>1 DEF IInv, Durable
  <2> QED BY <1>2, <2>1, <2>2, <2>3
<1> QED BY <1>1, <1>3, <1>4, <1>5 DEF Open

(* A failed fsync, or a failed look at the journal's size.                 *)
LEMMA FailureStep ==
  ASSUME IInv, TypeOK', SyncFails \/ AdmissionFails
  PROVE  IInv'
<1>1. /\ proc = "up" /\ proc' = proc /\ stage' = "idle" /\ persistenceErr'
      /\ items' = items /\ journal' = journal /\ shadows' = shadows
      /\ unacked' = unacked /\ promised' = promised /\ settled' = settled
  BY DEF SyncFails, AdmissionFails, Serving, disk, history, IInv, TypeOK
<1>2. ~Quiet'
  BY <1>1 DEF Quiet
<1>3. Remembering'
  BY <1>1, <1>2 DEF IInv, Remembering
<1>4. Appending' /\ Compacting'
  BY <1>1 DEF Appending, Compacting
<1>5. Durable'
  BY <1>1, <1>2 DEF IInv, Durable
<1> QED BY <1>1, <1>3, <1>4, <1>5 DEF IInv

(* The process ends, or the machine does.                                  *)
LEMMA EndStep ==
  ASSUME IInv, TypeOK', Close \/ Kill \/ PowerLoss
  PROVE  IInv'
<1>1. CASE Close \/ Kill
  <2>1. /\ Stop /\ UNCHANGED history /\ journal' = journal /\ shadows' = shadows
    BY <1>1 DEF Close, Kill, disk
  <2> QED BY <2>1, StopStep DEF IInv, Durable
<1>2. CASE PowerLoss
  <2>1. PICK f \in {journal} \union shadows : journal' \in Survivors(f)
    BY <1>2 DEF PowerLoss
  <2>2. Stop /\ UNCHANGED history /\ shadows' = {}
    BY <1>2 DEF PowerLoss
  <2>3. f \in Files \union {NoFile} /\ unacked \in Seq(Chunks)
    BY DEF IInv, TypeOK
  <2>4. settled => Recoverable(journal', promised, unacked)
    BY <2>1, <2>3, SurvivorRecoverable DEF IInv, Durable
  <2> QED BY <2>2, <2>4, StopStep
<1> QED BY <1>1, <1>2

(* Every step keeps the invariant: one lemma per kind of step.             *)
LEMMA IInvStep ==
  ASSUME IInv, [Next]_vars
  PROVE  IInv'
<1>1. TypeOK'
  BY TypeOKStep DEF IInv
<1>2. CASE UNCHANGED vars
  <2>1. UNCHANGED <<proc, stage, items, persistenceErr, records, journal, temp, shadows,
                    unacked, promised, settled>>
    BY <1>2 DEF vars, memory, disk, history
  <2> QED BY <1>1, <2>1 DEF IInv, Remembering, Appending, Compacting, Durable, Quiet,
                            Faithful, Written0, Before
<1>3. CASE Open
  BY <1>1, <1>3, OpenStep
<1>4. CASE Mutate
  <2>1. Serving /\ \E es \in Seq(Chunks) : AllLines(es) /\ Write(es)
    BY <1>4, MutateWrites DEF IInv, OneWrite
  <2> QED BY <1>1, <2>1, WriteStep
<1>5. CASE AdmissionFails \/ SyncFails
  BY <1>1, <1>5, FailureStep
<1>6. CASE SyncDone
  BY <1>1, <1>6, SyncDoneStep
<1>7. CASE Compact
  BY <1>1, <1>7, SnapshotStep, RenameStep, AdoptStep DEF Compact
<1>8. CASE Close \/ Kill \/ PowerLoss
  BY <1>1, <1>8, EndStep
<1> QED
  BY <1>2, <1>3, <1>4, <1>5, <1>6, <1>7, <1>8 DEF Next

-----------------------------------------------------------------------------
(* The invariant holds from the start, when nothing has been promised.     *)
LEMMA InvariantHolds == Spec => []IInv
<1>1. Init => IInv
  <2>1. SUFFICES ASSUME Init
                 PROVE  IInv
    OBVIOUS
  <2>2. TypeOK
    BY <2>1, InitTyped
  <2>3. /\ proc = "down" /\ stage = "idle" /\ journal = NoFile /\ shadows = {}
        /\ unacked = <<>> /\ promised = EmptyTable
    BY <2>1 DEF Init
  <2> QED BY <2>2, <2>3, EmptyReplays DEF IInv, Remembering, Appending, Compacting, Durable,
                                      Quiet, Recoverable
<1>2. IInv /\ [Next]_vars => IInv'
  BY IInvStep
<1> QED BY <1>1, <1>2, PTL DEF Spec

(* Whenever the machine fails, and whichever file the directory comes back *)
(* with, Open reads every acknowledged operation and at most a prefix of   *)
(* the one in doubt.                                                       *)
LEMMA InvariantRecovers ==
  ASSUME IInv
  PROVE  EveryCrashRecoverable
<1>1. SUFFICES ASSUME settled, NEW f \in {journal} \union shadows,
                      NEW es \in CrashImages(f)
               PROVE  /\ Readable(es)
                      /\ \E n \in 0 .. Len(unacked) :
                           Replay(es) = Overlay(promised, Prefix(unacked, n))
  BY DEF EveryCrashRecoverable
<1>2. f \in Files \union {NoFile} /\ unacked \in Seq(Chunks) /\ AllLines(unacked)
  BY DEF IInv, TypeOK, Remembering
<1>3. Recoverable(f, promised, unacked)
  BY <1>1 DEF IInv, Durable
<1> QED BY <1>2, <1>3, ImageRecovers

(* For every instance, no point of the store's operation at which the      *)
(* machine may fail loses an acknowledged operation: the order of write,   *)
(* fsync and acknowledgement in appendDataLocked, and of snapshot, fsync,  *)
(* rename and fsync of the directory in Compact.                           *)
THEOREM CrashSafety == Spec => []EveryCrashRecoverable
<1>1. IInv => EveryCrashRecoverable
  BY InvariantRecovers
<1> QED BY <1>1, InvariantHolds, PTL

(* For every instance, a store that accepts mutations has in memory what   *)
(* its journal says, and what it says is durable under the journal's name: *)
(* setLocked after a successful appendDataLocked, failPersistenceLocked    *)
(* sticky until Compact has replaced the journal.                          *)
THEOREM MemoryIsJournal == Spec => []MemoryMatchesJournal
<1>1. IInv => MemoryMatchesJournal
  <2>1. ASSUME IInv, Serving, ~persistenceErr
        PROVE  Quiet
    BY <2>1 DEF Serving, Quiet
  <2> QED BY <2>1 DEF IInv, Remembering, Faithful, Durable, MemoryMatchesJournal
<1> QED BY <1>1, InvariantHolds, PTL

(* For every instance, a process that opens the journal shows its callers  *)
(* the table they were promised, with at most a prefix of the operation    *)
(* that was in doubt: Open, replay.                                        *)
THEOREM RecoverySafety == Spec => RecoveryKeepsPromises
<1>1. ASSUME IInv, [Next]_vars
      PROVE  [proc # "up" /\ proc' = "up" /\ settled =>
                \E n \in 0 .. Len(unacked) :
                  items' = Overlay(promised, Prefix(unacked, n))]_vars
  <2>1. SUFFICES ASSUME Next, proc # "up", proc' = "up", settled
                 PROVE  \E n \in 0 .. Len(unacked) :
                          items' = Overlay(promised, Prefix(unacked, n))
    BY <1>1
  <2>2. OpenExisting \/ NewJournalSynced
    <3>1. ~ (Mutate \/ AdmissionFails \/ SyncDone \/ SyncFails \/ Compact \/ Close
             \/ Kill \/ PowerLoss)
      BY <2>1, <1>1, MutateWrites DEF IInv, TypeOK, AdmissionFails, Serving, SyncDone, SyncFails,
        Compact, CompactBegin, CompactRecord, CompactFails, CompactRename, CompactDone,
        CompactDirSyncFails, Close, Kill, PowerLoss, Stop
    <3> QED BY <2>1, <3>1 DEF Next, Open, OpenNew, NewJournalSyncFails, CleanupFails
  <2>3. /\ Load /\ journal' = journal /\ journal # NoFile
    BY <2>2, <1>1 DEF OpenExisting, NewJournalSynced, IInv, TypeOK
  <2>4. journal \in Files
    BY <2>3, <1>1 DEF IInv, TypeOK
  <2>5. journal.chunks \in WholeCuts(journal.chunks, journal.synced)
    <3>1. journal.chunks \in Seq(Chunks) /\ Len(journal.chunks) \in Nat
          /\ Len(journal.chunks) \in journal.synced .. Len(journal.chunks)
      BY <2>4, LenProperties DEF Files
    <3>2. Prefix(journal.chunks, Len(journal.chunks)) = journal.chunks
      BY <3>1, SubSeqFull DEF Prefix
    <3> QED BY <3>1, <3>2 DEF WholeCuts
  <2>6. journal.chunks \in CrashImages(journal)
    BY <2>3, <2>5 DEF CrashImages
  <2>7. items' = Replay(journal.chunks)
    BY <2>3 DEF Load
  <2> QED BY <1>1, <2>1, <2>6, <2>7, InvariantRecovers DEF EveryCrashRecoverable
<1> QED BY <1>1, InvariantHolds, PTL DEF Spec, RecoveryKeepsPromises
=============================================================================
