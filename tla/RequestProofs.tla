--------------------------- MODULE RequestProofs ----------------------------
(***************************************************************************)
(* Proofs about Request, for any texts, names, sizes and limits: the two   *)
(* forms of the fingerprint tell any two normalized requests apart, and a  *)
(* body survives the journal.  The recursive functions of Request are      *)
(* reasoned about as sequences of steps, and induction as a fact about sets*)
(* of numbers, as no operator can be handed to the induction theorems.     *)
(***************************************************************************)
EXTENDS Request, TLAPS, FiniteSetTheorems, SequenceTheorems, WellFoundedInduction

-----------------------------------------------------------------------------
(* Induction and recursion over the naturals, as facts about sets and      *)
(* functions.                                                              *)

(* A set that has zero, and with each number the next, has all numbers.    *)
LEMMA Induction ==
  ASSUME NEW T, 0 \in T, \A n \in Nat : n \in T => n + 1 \in T
  PROVE  Nat \subseteq T
<1> DEFINE U == Nat \ T
<1> SUFFICES ASSUME U # {} PROVE FALSE
  OBVIOUS
<1>1. PICK x \in U : \A y \in U : ~ (<<y, x>> \in OpToRel(<, Nat))
  BY NatLessThanWellFounded, WFMin, Zenon
<1>2. \A y \in U : ~ (y < x)
  BY <1>1 DEF OpToRel
<1>3. x \in Nat /\ x # 0 /\ x - 1 \in Nat
  OBVIOUS
<1>4. x - 1 \in T
  BY <1>2, <1>3
<1>5. (x - 1) + 1 = x
  BY <1>3
<1> QED BY <1>3, <1>4, <1>5

(* A sequence of steps defines a function.                                 *)
Steps(f, n, b, g) == f[0] = b /\ \A i \in 1 .. n : f[i] = g[i][f[i - 1]]

(* Two functions of the same steps agree as far as both go.                *)
LEMMA StepsUnique ==
  ASSUME NEW m \in Nat, NEW n \in Nat, NEW b, NEW g, NEW e, NEW f,
         Steps(e, m, b, g), Steps(f, n, b, g)
  PROVE  \A i \in 0 .. m : i <= n => e[i] = f[i]
<1> DEFINE T == {i \in Nat : i <= m /\ i <= n => e[i] = f[i]}
<1>1. 0 \in T
  BY DEF Steps
<1>2. ASSUME NEW i \in Nat, i \in T
      PROVE  i + 1 \in T
  <2> SUFFICES ASSUME i + 1 <= m, i + 1 <= n PROVE e[i + 1] = f[i + 1]
    OBVIOUS
  <2>1. i + 1 \in 1 .. m /\ i + 1 \in 1 .. n /\ (i + 1) - 1 = i
    OBVIOUS
  <2>2. e[i + 1] = g[i + 1][e[i]] /\ f[i + 1] = g[i + 1][f[i]]
    BY <2>1 DEF Steps
  <2>3. e[i] = f[i]
    BY <1>2
  <2> QED BY <2>2, <2>3
<1> HIDE DEF T
<1>3. Nat \subseteq T
  BY <1>1, <1>2, Induction
<1> QED BY <1>3 DEF T

(* Any steps define a function, as far as one wants.                       *)
LEMMA StepsDefine ==
  ASSUME NEW S, NEW b \in S, NEW g \in [Nat -> [S -> S]], NEW n \in Nat
  PROVE  \E f \in [0 .. n -> S] : Steps(f, n, b, g)
<1> DEFINE T == {m \in Nat : \E f \in [0 .. m -> S] : Steps(f, m, b, g)}
<1>1. 0 \in T
  <2>1. [i \in 0 .. 0 |-> b] \in [0 .. 0 -> S] /\ Steps([i \in 0 .. 0 |-> b], 0, b, g)
    BY DEF Steps
  <2> QED BY <2>1
<1>2. ASSUME NEW m \in Nat, m \in T
      PROVE  m + 1 \in T
  <2>1. PICK f \in [0 .. m -> S] : Steps(f, m, b, g)
    BY <1>2
  <2> DEFINE h == [i \in 0 .. (m + 1) |-> IF i <= m THEN f[i] ELSE g[m + 1][f[m]]]
  <2>2. f[m] \in S /\ g[m + 1] \in [S -> S]
    OBVIOUS
  <2>3. h \in [0 .. (m + 1) -> S]
    BY <2>2
  <2>4. h[0] = b
    BY <2>1 DEF Steps
  <2>5. ASSUME NEW i \in 1 .. (m + 1)
        PROVE  h[i] = g[i][h[i - 1]]
    <3>1. CASE i <= m
      BY <2>1, <3>1 DEF Steps
    <3>2. CASE i = m + 1
      BY <3>2
    <3> QED BY <3>1, <3>2
  <2> HIDE DEF h
  <2>6. Steps(h, m + 1, b, g)
    BY <2>4, <2>5 DEF Steps
  <2> QED BY <2>3, <2>6
<1> HIDE DEF T
<1>3. Nat \subseteq T
  BY <1>1, <1>2, Induction
<1> QED BY <1>3 DEF T

(* They may go on for ever.                                                *)
LEMMA EndlessSteps ==
  ASSUME NEW S, NEW b \in S, NEW g \in [Nat -> [S -> S]]
  PROVE  \E f \in [Nat -> S] : \A n \in Nat : Steps(f, n, b, g)
<1> DEFINE upTo == [n \in Nat |-> CHOOSE f \in [0 .. n -> S] : Steps(f, n, b, g)]
           f == [n \in Nat |-> upTo[n][n]]
<1>1. ASSUME NEW n \in Nat
      PROVE  upTo[n] \in [0 .. n -> S] /\ Steps(upTo[n], n, b, g)
  BY StepsDefine
<1> HIDE DEF upTo
<1>2. f \in [Nat -> S]
  <2>1. \A n \in Nat : n \in 0 .. n
    OBVIOUS
  <2> QED BY <1>1, <2>1
<1>3. ASSUME NEW n \in Nat
      PROVE  Steps(f, n, b, g)
  <2>1. f[0] = b
    BY <1>1 DEF Steps
  <2>2. ASSUME NEW i \in 1 .. n
        PROVE  f[i] = g[i][f[i - 1]]
    <3>1. i \in Nat /\ i - 1 \in Nat /\ i - 1 <= i /\ i \in 1 .. i /\ i - 1 \in 0 .. (i - 1)
      OBVIOUS
    <3>2. upTo[i][i] = g[i][upTo[i][i - 1]]
      BY <1>1, <3>1 DEF Steps
    <3>3. upTo[i - 1][i - 1] = upTo[i][i - 1]
      <4>1. Steps(upTo[i - 1], i - 1, b, g) /\ Steps(upTo[i], i, b, g)
        BY <1>1, <3>1
      <4> QED BY <3>1, <4>1, StepsUnique
    <3> QED BY <3>1, <3>2, <3>3
  <2> QED BY <2>1, <2>2 DEF Steps
<1> QED BY <1>2, <1>3

-----------------------------------------------------------------------------
(* Sequences that begin alike.                                             *)

(* Two sequences of one length begin two equal ones: they are equal, and   *)
(* so is what follows them.                                                *)
LEMMA Split ==
  ASSUME NEW G, NEW a \in Seq(G), NEW b \in Seq(G), NEW x \in Seq(G), NEW y \in Seq(G),
         Len(a) = Len(b), a \o x = b \o y
  PROVE  a = b /\ x = y
<1>1. Len(a) \in Nat /\ Len(x) \in Nat /\ Len(y) \in Nat
  BY LenProperties
<1>2. /\ Len(a \o x) = Len(a) + Len(x) /\ Len(b \o y) = Len(b) + Len(y)
      /\ \A i \in 1 .. Len(a) + Len(x) : (a \o x)[i] = IF i <= Len(a) THEN a[i] ELSE x[i - Len(a)]
      /\ \A i \in 1 .. Len(b) + Len(y) : (b \o y)[i] = IF i <= Len(b) THEN b[i] ELSE y[i - Len(b)]
  BY ConcatProperties
<1>3. Len(x) = Len(y)
  BY <1>1, <1>2
<1>4. \A i \in 1 .. Len(a) : a[i] = b[i]
  BY <1>1, <1>2
<1>5. a = b
  BY <1>4, SeqEqual
<1>6. ASSUME NEW i \in 1 .. Len(x)
      PROVE  x[i] = y[i]
  <2>1. Len(a) + i \in 1 .. Len(a) + Len(x) /\ ~ (Len(a) + i <= Len(a)) /\ (Len(a) + i) - Len(a) = i
    BY <1>1
  <2>2. (a \o x)[Len(a) + i] = x[i] /\ (b \o y)[Len(a) + i] = y[i]
    BY <1>2, <1>3, <2>1
  <2> QED BY <2>2
<1> QED BY <1>3, <1>5, <1>6, SeqEqual

(* A sequence without the mark ends where the mark is.                     *)
Without(v, mark) == \A i \in 1 .. Len(v) : v[i] # mark
Closed(v, mark, x) == (v \o <<mark>>) \o x

(* Two texts whose first parts a mark closes, and which it is not in, are  *)
(* equal in both parts.                                                    *)
LEMMA SplitAt ==
  ASSUME NEW G, NEW mark \in G, NEW v \in Seq(G), NEW w \in Seq(G), NEW x \in Seq(G), NEW y \in Seq(G),
         Without(v, mark), Without(w, mark), Closed(v, mark, x) = Closed(w, mark, y)
  PROVE  v = w /\ x = y
<1> USE DEF Without, Closed
<1>1. Len(v) \in Nat /\ Len(w) \in Nat /\ Len(x) \in Nat /\ Len(y) \in Nat
  BY LenProperties
<1>2. ASSUME NEW a \in Seq(G), NEW u \in Seq(G)
      PROVE  /\ a \o <<mark>> \in Seq(G) /\ Len(a \o <<mark>>) = Len(a) + 1
             /\ \A i \in 1 .. Len(a) : ((a \o <<mark>>) \o u)[i] = a[i]
             /\ ((a \o <<mark>>) \o u)[Len(a) + 1] = mark
  <2>1. Len(a) \in Nat /\ Len(u) \in Nat
    BY LenProperties
  <2>2. <<mark>> \in Seq(G) /\ Len(<<mark>>) = 1 /\ <<mark>>[1] = mark
    OBVIOUS
  <2>3. /\ a \o <<mark>> \in Seq(G) /\ Len(a \o <<mark>>) = Len(a) + 1
        /\ \A i \in 1 .. Len(a) + 1 : (a \o <<mark>>)[i] = IF i <= Len(a) THEN a[i] ELSE <<mark>>[i - Len(a)]
    BY <2>2, ConcatProperties
  <2>4. \A i \in 1 .. Len(a) + 1 : ((a \o <<mark>>) \o u)[i] = (a \o <<mark>>)[i]
    <3>1. \A i \in 1 .. Len(a \o <<mark>>) + Len(u) :
            ((a \o <<mark>>) \o u)[i] =
               IF i <= Len(a \o <<mark>>) THEN (a \o <<mark>>)[i] ELSE u[i - Len(a \o <<mark>>)]
      BY <2>3, ConcatProperties
    <3> QED BY <2>1, <2>3, <3>1
  <2>5. (a \o <<mark>>)[Len(a) + 1] = mark
    BY <2>1, <2>2, <2>3
  <2> QED BY <2>1, <2>3, <2>4, <2>5
<1>3. ~ (Len(v) < Len(w))
  <2> SUFFICES ASSUME Len(v) < Len(w) PROVE FALSE
    OBVIOUS
  <2>1. Len(v) + 1 \in 1 .. Len(w)
    BY <1>1
  <2> QED BY <1>2, <2>1
<1>4. ~ (Len(w) < Len(v))
  <2> SUFFICES ASSUME Len(w) < Len(v) PROVE FALSE
    OBVIOUS
  <2>1. Len(w) + 1 \in 1 .. Len(v)
    BY <1>1
  <2> QED BY <1>2, <2>1
<1>5. Len(v) = Len(w)
  BY <1>1, <1>3, <1>4
<1>6. v \o <<mark>> = w \o <<mark>> /\ x = y
  <2> DEFINE a == v \o <<mark>>
             b == w \o <<mark>>
  <2>1. a \in Seq(G) /\ b \in Seq(G) /\ Len(a) = Len(b) /\ a \o x = b \o y
    BY <1>2, <1>5
  <2> HIDE DEF a, b
  <2>2. a = b /\ x = y
    BY <2>1, Split
  <2> QED BY <2>2 DEF a, b
<1>7. v = w
  <2>1. <<mark>> \in Seq(G)
    OBVIOUS
  <2> QED BY <1>5, <1>6, <2>1, Split
<1> QED BY <1>6, <1>7

-----------------------------------------------------------------------------
(* Sizes.                                                                  *)

(* Size, a recursive function, is the last of a sequence of sums.          *)
LEMMA SizeSums ==
  ASSUME NEW body \in Seq(Pieces)
  PROVE  \E f \in [0 .. Len(body) -> Nat] :
           /\ f[0] = 0 /\ Size(body) = f[Len(body)]
           /\ \A i \in 1 .. Len(body) : f[i] = f[i - 1] + Width(body[i])
<1> DEFINE n == Len(body)
           g == [i \in Nat |-> [x \in Nat |-> IF i \in 1 .. n THEN x + Width(body[i]) ELSE x]]
           size == CHOOSE size : size = [i \in 0 .. n |-> IF i = 0 THEN 0 ELSE size[i - 1] + Width(body[i])]
<1>1. n \in Nat /\ \A i \in 1 .. n : Width(body[i]) \in Nat
  BY LenProperties, ElementOfSeq, RequestAssumption
<1>2. g \in [Nat -> [Nat -> Nat]]
  BY <1>1
<1>3. PICK f \in [0 .. n -> Nat] : Steps(f, n, 0, g)
  <2> HIDE DEF g
  <2> QED BY <1>1, <1>2, StepsDefine
<1>4. f[0] = 0 /\ \A i \in 1 .. n : f[i] = f[i - 1] + Width(body[i])
  <2>1. ASSUME NEW i \in 1 .. n
        PROVE  f[i] = f[i - 1] + Width(body[i])
    <3>1. i \in Nat /\ i - 1 \in 0 .. n /\ f[i - 1] \in Nat
      BY <1>1
    <3> QED BY <1>3, <3>1 DEF Steps
  <2> QED BY <1>3, <2>1 DEF Steps
<1> HIDE DEF g
<1>5. f = [i \in 0 .. n |-> IF i = 0 THEN 0 ELSE f[i - 1] + Width(body[i])]
  BY <1>1, <1>4
<1>6. size = [i \in 0 .. n |-> IF i = 0 THEN 0 ELSE size[i - 1] + Width(body[i])]
  BY <1>5
<1>7. Size(body) = size[n]
  BY DEF Size
<1> HIDE DEF size
<1>8. size \in [0 .. n -> Nat] /\ size[0] = 0
      /\ \A i \in 1 .. n : size[i] = size[i - 1] + Width(body[i])
  <2>1. \A i \in 1 .. n : size[i] = size[i - 1] + Width(body[i])
    BY <1>1, <1>6
  <2> DEFINE T == {i \in Nat : i <= n => size[i] = f[i]}
  <2>2. 0 \in T
    BY <1>1, <1>4, <1>6
  <2>3. ASSUME NEW i \in Nat, i \in T
        PROVE  i + 1 \in T
    <3> SUFFICES ASSUME i + 1 <= n PROVE size[i + 1] = f[i + 1]
      OBVIOUS
    <3>1. i + 1 \in 1 .. n /\ (i + 1) - 1 = i /\ size[i] = f[i]
      BY <1>1, <2>3
    <3> QED BY <1>4, <2>1, <3>1
  <2> HIDE DEF T
  <2>4. Nat \subseteq T
    BY <2>2, <2>3, Induction
  <2>5. size = f
    BY <1>1, <1>6, <2>4 DEF T
  <2> QED BY <1>4, <2>5
<1> QED BY <1>7, <1>8

(* A longer sequence that begins alike is larger.                          *)
LEMMA SizeOfMore ==
  ASSUME NEW v \in Seq(Pieces), NEW w \in Seq(Pieces), Len(v) < Len(w),
         \A i \in 1 .. Len(v) : v[i] = w[i]
  PROVE  Size(v) < Size(w)
<1>1. PICK f \in [0 .. Len(v) -> Nat] :
        /\ f[0] = 0 /\ Size(v) = f[Len(v)]
        /\ \A i \in 1 .. Len(v) : f[i] = f[i - 1] + Width(v[i])
  BY SizeSums
<1>2. PICK g \in [0 .. Len(w) -> Nat] :
        /\ g[0] = 0 /\ Size(w) = g[Len(w)]
        /\ \A i \in 1 .. Len(w) : g[i] = g[i - 1] + Width(w[i])
  BY SizeSums
<1>3. Len(v) \in Nat /\ Len(w) \in Nat /\ \A i \in 1 .. Len(w) : Width(w[i]) \in Nat \ {0}
  BY LenProperties, ElementOfSeq, RequestAssumption
<1> DEFINE T == {i \in Nat : i <= Len(w) => IF i <= Len(v) THEN g[i] = f[i] ELSE g[i] > f[Len(v)]}
<1>4. 0 \in T
  BY <1>1, <1>2, <1>3
<1>5. ASSUME NEW i \in Nat, i \in T
      PROVE  i + 1 \in T
  <2> SUFFICES ASSUME i + 1 <= Len(w)
               PROVE  IF i + 1 <= Len(v) THEN g[i + 1] = f[i + 1] ELSE g[i + 1] > f[Len(v)]
    OBVIOUS
  <2>1. /\ i + 1 \in 1 .. Len(w) /\ (i + 1) - 1 = i /\ i \in 0 .. Len(w)
        /\ g[i + 1] = g[i] + Width(w[i + 1]) /\ Width(w[i + 1]) \in Nat \ {0}
    BY <1>2, <1>3
  <2>2. IF i <= Len(v) THEN g[i] = f[i] ELSE g[i] > f[Len(v)]
    BY <1>5, <2>1
  <2>3. CASE i + 1 <= Len(v)
    <3>1. i + 1 \in 1 .. Len(v) /\ v[i + 1] = w[i + 1] /\ f[i + 1] = f[i] + Width(v[i + 1])
      BY <1>1, <1>3, <2>1, <2>3
    <3> QED BY <1>3, <2>1, <2>2, <2>3, <3>1
  <2>4. CASE i = Len(v)
    <3>1. g[i] = f[Len(v)] /\ g[i] \in Nat
      BY <1>3, <2>1, <2>2, <2>4
    <3> QED BY <1>3, <2>1, <2>4, <3>1
  <2>5. CASE i > Len(v)
    <3>1. Len(v) \in 0 .. Len(v)
      BY <1>3
    <3>2. g[i] \in Nat /\ f[Len(v)] \in Nat
      BY <2>1, <3>1
    <3>3. g[i] > f[Len(v)] /\ ~ (i + 1 <= Len(v))
      BY <1>3, <2>2, <2>5
    <3> QED BY <1>3, <2>1, <3>3, <3>2
  <2> QED BY <1>3, <2>3, <2>4, <2>5
<1> HIDE DEF T
<1>6. Nat \subseteq T
  BY <1>4, <1>5, Induction
<1>7. Len(w) \in T
  BY <1>3, <1>6
<1> QED BY <1>1, <1>2, <1>3, <1>7 DEF T

(* A single piece has its own size.                                        *)
LEMMA SizeOfOne ==
  ASSUME NEW piece \in Pieces
  PROVE  Size(<<piece>>) = Width(piece)
<1>1. <<piece>> \in Seq(Pieces) /\ Len(<<piece>>) = 1 /\ <<piece>>[1] = piece
  OBVIOUS
<1>2. PICK f \in [0 .. Len(<<piece>>) -> Nat] :
        /\ f[0] = 0 /\ Size(<<piece>>) = f[Len(<<piece>>)]
        /\ \A i \in 1 .. Len(<<piece>>) : f[i] = f[i - 1] + Width(<<piece>>[i])
  BY <1>1, SizeSums
<1>3. Width(piece) \in Nat
  BY RequestAssumption
<1> QED BY <1>1, <1>2, <1>3

(* The parts of headers, joined from the last name to the first.           *)
NameAt(k) == Names[Len(Names) - k + 1]

Joins(f, parts, rest) ==
  /\ f \in [0 .. Len(Names) -> Seq(Glyphs)] /\ f[0] = rest
  /\ \A k \in 1 .. Len(Names) :
       f[k] = IF NameAt(k) \in DOMAIN parts THEN parts[NameAt(k)] \o f[k - 1] ELSE f[k - 1]

(* Joined, a recursive function, is the last of a sequence of joins.       *)
LEMMA JoinedSteps ==
  ASSUME NEW parts, \A n \in DOMAIN parts : parts[n] \in Seq(Glyphs), NEW rest \in Seq(Glyphs)
  PROVE  \E f : Joins(f, parts, rest) /\ Joined(parts, rest) = f[Len(Names)]
<1> DEFINE n == Len(Names)
           Step(k, x) == IF NameAt(k) \in DOMAIN parts THEN parts[NameAt(k)] \o x ELSE x
           g == [k \in Nat |-> [x \in Seq(Glyphs) |-> Step(k, x)]]
           last == CHOOSE last : last = [k \in 0 .. n |-> IF k = 0 THEN rest ELSE Step(k, last[k - 1])]
<1>1. n \in Nat
  BY RequestAssumption, LenProperties
<1>2. \A k, x : x \in Seq(Glyphs) => Step(k, x) \in Seq(Glyphs)
  BY ConcatProperties
<1>3. Joined(parts, rest) = last[n]
  BY DEF Joined, NameAt
<1> HIDE DEF Step
<1>4. g \in [Nat -> [Seq(Glyphs) -> Seq(Glyphs)]]
  BY <1>2
<1>5. PICK f \in [0 .. n -> Seq(Glyphs)] : Steps(f, n, rest, g)
  <2> HIDE DEF g
  <2> QED BY <1>1, <1>4, StepsDefine
<1>6. f[0] = rest /\ \A k \in 1 .. n : f[k] = Step(k, f[k - 1])
  <2>1. ASSUME NEW k \in 1 .. n
        PROVE  f[k] = Step(k, f[k - 1])
    <3>1. k \in Nat /\ k - 1 \in 0 .. n /\ f[k - 1] \in Seq(Glyphs)
      BY <1>1
    <3> QED BY <1>5, <3>1 DEF Steps
  <2> QED BY <1>5, <2>1 DEF Steps
<1> HIDE DEF g
<1>7. f = [k \in 0 .. n |-> IF k = 0 THEN rest ELSE Step(k, f[k - 1])]
  BY <1>1, <1>6
<1>8. last = [k \in 0 .. n |-> IF k = 0 THEN rest ELSE Step(k, last[k - 1])]
  BY <1>7
<1> HIDE DEF last
<1>9. last = f
  <2> DEFINE T == {k \in Nat : k <= n => last[k] = f[k]}
  <2>1. 0 \in T
    BY <1>1, <1>6, <1>8
  <2>2. ASSUME NEW k \in Nat, k \in T
        PROVE  k + 1 \in T
    <3> SUFFICES ASSUME k + 1 <= n PROVE last[k + 1] = f[k + 1]
      OBVIOUS
    <3>1. k + 1 \in 1 .. n /\ (k + 1) - 1 = k /\ last[k] = f[k]
      BY <1>1, <2>2
    <3>2. last[k + 1] = Step(k + 1, last[k])
      BY <1>1, <1>8, <3>1
    <3> QED BY <1>6, <3>1, <3>2
  <2> HIDE DEF T
  <2>3. Nat \subseteq T
    BY <2>1, <2>2, Induction
  <2> QED BY <1>1, <1>8, <2>3 DEF T
<1> QED BY <1>3, <1>6, <1>9 DEF Step, Joins

-----------------------------------------------------------------------------
(* The two forms of a fingerprint.                                         *)

(* The names of the last k headers; what follows them in the form of lines.*)
Latest(k) == {NameAt(j) : j \in 1 .. k}
Lines(headers) ==
  [n \in DOMAIN headers |-> <<n, Colon>> \o headers[n] \o <<NewLine>>]
Fields(headers) ==
  [n \in DOMAIN headers |-> Field(<<n>>) \o Field(headers[n])]

(* Headers as normalize leaves them, and the bodies that follow lines.     *)
Proper(headers) ==
  \E D \in SUBSET ToSet(Names) :
    /\ headers \in [D -> Seq(Pieces)] /\ Cardinality(D) <= MaxMessage
    /\ \A n \in D : /\ \A i \in 1 .. Len(headers[n]) : headers[n][i] # NewLine
                    /\ Size(headers[n]) <= MaxMessage
Nameless(s) == s = <<>> \/ s[1] \notin ToSet(Names)

(* Each name is one of Names; the last k + 1 are the last k and one more.  *)
LEMMA NamesTyped ==
  /\ Len(Names) \in Nat /\ Latest(0) = {}
  /\ \A k \in 1 .. Len(Names) :
       /\ NameAt(k) \in ToSet(Names) /\ Latest(k) = Latest(k - 1) \union {NameAt(k)}
       /\ NameAt(k) \notin Latest(k - 1) /\ Latest(k) \subseteq ToSet(Names)
  /\ Latest(Len(Names)) = ToSet(Names)
<1>1. Len(Names) \in Nat /\ DOMAIN Names = 1 .. Len(Names)
  BY RequestAssumption, LenProperties
<1>2. ToSet(Names) = {Names[i] : i \in 1 .. Len(Names)}
  BY <1>1 DEF ToSet
<1>3. \A k \in 1 .. Len(Names) : Len(Names) - k + 1 \in 1 .. Len(Names)
  BY <1>1
<1>4. \A k \in 1 .. Len(Names) : NameAt(k) \in ToSet(Names)
  BY <1>2, <1>3 DEF NameAt
<1>5. Latest(0) = {}
  BY DEF Latest
<1>6. ASSUME NEW k \in 1 .. Len(Names)
      PROVE  Latest(k) = Latest(k - 1) \union {NameAt(k)} /\ NameAt(k) \notin Latest(k - 1)
  <2>1. 1 .. k = (1 .. (k - 1)) \union {k} /\ 1 .. (k - 1) \subseteq 1 .. Len(Names)
    BY <1>1
  <2>2. ASSUME NEW j \in 1 .. (k - 1)
        PROVE  NameAt(j) # NameAt(k)
    <3>1. Len(Names) - j + 1 # Len(Names) - k + 1
      BY <1>1
    <3> QED BY <1>1, <1>3, <2>1, <3>1, RequestAssumption DEF NameAt
  <2> QED BY <2>1, <2>2 DEF Latest
<1>7. Latest(Len(Names)) = ToSet(Names)
  <2>1. ASSUME NEW i \in 1 .. Len(Names)
        PROVE  Names[i] \in Latest(Len(Names))
    <3>1. Len(Names) - i + 1 \in 1 .. Len(Names) /\ Len(Names) - (Len(Names) - i + 1) + 1 = i
      BY <1>1
    <3> QED BY <3>1 DEF Latest, NameAt
  <2> QED BY <1>2, <1>4, <2>1 DEF Latest
<1>8. \A k \in 1 .. Len(Names) : Latest(k) \subseteq ToSet(Names)
  <2>1. \A k \in 1 .. Len(Names) : 1 .. k \subseteq 1 .. Len(Names)
    BY <1>1
  <2> QED BY <1>4, <2>1 DEF Latest
<1> QED BY <1>1, <1>4, <1>5, <1>6, <1>7, <1>8

(* What a fingerprint is written with.                                     *)
LEMMA GlyphsContain ==
  /\ Pieces \subseteq Glyphs /\ Seq(Pieces) \subseteq Seq(Glyphs)
  /\ ToSet(Names) \subseteq Pieces /\ NewLine \in Pieces /\ Colon \in Pieces
  /\ "v2" \in Glyphs /\ \A n \in 0 .. MaxMessage : Decimal(n) \in Glyphs
<1>1. Pieces \subseteq Glyphs
  BY DEF Glyphs
<1>2. Seq(Pieces) \subseteq Seq(Glyphs)
  BY <1>1, SeqMonotonic
<1> QED BY <1>1, <1>2 DEF Glyphs, Pieces

(* Two of a kind of parts that agree on the later names.                   *)
Agree(h, g, n) ==
  /\ n \in DOMAIN h <=> n \in DOMAIN g
  /\ n \in DOMAIN h => h[n] = g[n]

(* Headers that agree on every name are equal.                             *)
LEMMA AgreeEqual ==
  ASSUME NEW h, NEW g, Proper(h), Proper(g), \A n \in ToSet(Names) : Agree(h, g, n)
  PROVE  h = g
<1>1. PICK D \in SUBSET ToSet(Names) : h \in [D -> Seq(Pieces)]
  BY DEF Proper
<1>2. PICK E \in SUBSET ToSet(Names) : g \in [E -> Seq(Pieces)]
  BY DEF Proper
<1>3. D = E
  BY <1>1, <1>2 DEF Agree
<1> QED BY <1>1, <1>2, <1>3 DEF Agree

(* One line.                                                               *)
LEMMA LineTyped ==
  ASSUME NEW h, NEW n, Proper(h), n \in DOMAIN h
  PROVE  /\ n \in ToSet(Names) /\ n \in Pieces
         /\ h[n] \in Seq(Pieces) /\ h[n] \in Seq(Glyphs)
         /\ \A i \in 1 .. Len(h[n]) : h[n][i] # NewLine
         /\ Size(h[n]) <= MaxMessage
         /\ Lines(h)[n] \in Seq(Glyphs) /\ DOMAIN Lines(h) = DOMAIN h
<1>1. /\ n \in ToSet(Names) /\ h[n] \in Seq(Pieces) /\ Size(h[n]) <= MaxMessage
      /\ \A i \in 1 .. Len(h[n]) : h[n][i] # NewLine
  BY DEF Proper
<1>2. h[n] \in Seq(Glyphs) /\ <<n, Colon>> \in Seq(Glyphs) /\ <<NewLine>> \in Seq(Glyphs)
  BY <1>1, GlyphsContain
<1>3. <<n, Colon>> \o h[n] \o <<NewLine>> \in Seq(Glyphs)
  BY <1>2, ConcatProperties
<1> QED BY <1>1, <1>2, <1>3, GlyphsContain DEF Lines

(* A line begins with its name.                                            *)
LEMMA LineHead ==
  ASSUME NEW h, NEW n, NEW x \in Seq(Glyphs), Proper(h), n \in DOMAIN h
  PROVE  Lines(h)[n] \o x # <<>> /\ (Lines(h)[n] \o x)[1] = n
<1> DEFINE s == h[n] \o <<NewLine>>
<1>1. h[n] \in Seq(Glyphs) /\ n \in Glyphs /\ Colon \in Glyphs /\ NewLine \in Glyphs
  BY LineTyped, GlyphsContain
<1>2. s \in Seq(Glyphs) /\ s \o x \in Seq(Glyphs)
  BY <1>1, ConcatProperties
<1>3. Lines(h)[n] \o x = <<n, Colon>> \o (s \o x)
  <2>1. <<n, Colon>> \in Seq(Glyphs) /\ <<NewLine>> \in Seq(Glyphs)
    BY <1>1
  <2>2. Lines(h)[n] = (<<n, Colon>> \o h[n]) \o <<NewLine>>
    BY DEF Lines
  <2>3. Lines(h)[n] = <<n, Colon>> \o s
    BY <1>1, <2>1, <2>2, ConcatAssociative
  <2> HIDE DEF s
  <2> QED BY <1>2, <2>1, <2>3, ConcatAssociative
<1> HIDE DEF s
<1>4. <<n, Colon>> \in Seq(Glyphs) /\ Len(<<n, Colon>>) = 2 /\ <<n, Colon>>[1] = n
  BY <1>1
<1> DEFINE t == s \o x
<1>5. t \in Seq(Glyphs)
  BY <1>2
<1> HIDE DEF t
<1>6. Len(t) \in Nat
  BY <1>5, LenProperties
<1>7. Len(<<n, Colon>> \o t) = 2 + Len(t) /\ (<<n, Colon>> \o t)[1] = n
  BY <1>4, <1>5, <1>6, ConcatProperties
<1> QED BY <1>3, <1>6, <1>7, EmptySeq DEF t

(* The line of a name ends with its first newline: the values in two texts *)
(* that begin with it are equal, and so is what follows.                   *)
LEMMA LineSplits ==
  ASSUME NEW h, NEW g, NEW n, NEW x \in Seq(Glyphs), NEW y \in Seq(Glyphs),
         Proper(h), Proper(g), n \in DOMAIN h, n \in DOMAIN g, Lines(h)[n] \o x = Lines(g)[n] \o y
  PROVE  h[n] = g[n] /\ x = y
<1> DEFINE v == <<n, Colon>> \o h[n]
           w == <<n, Colon>> \o g[n]
<1>1. /\ h[n] \in Seq(Glyphs) /\ g[n] \in Seq(Glyphs) /\ NewLine \in Glyphs
      /\ n \in ToSet(Names) /\ <<n, Colon>> \in Seq(Glyphs)
      /\ \A i \in 1 .. Len(h[n]) : h[n][i] # NewLine
      /\ \A i \in 1 .. Len(g[n]) : g[n][i] # NewLine
  BY LineTyped, GlyphsContain
<1>2. n # NewLine /\ Colon # NewLine
  BY <1>1, RequestAssumption DEF NewLine, Colon
<1>3. ASSUME NEW z \in Seq(Glyphs), \A i \in 1 .. Len(z) : z[i] # NewLine
      PROVE  <<n, Colon>> \o z \in Seq(Glyphs)
             /\ \A i \in 1 .. Len(<<n, Colon>> \o z) : (<<n, Colon>> \o z)[i] # NewLine
  <2>1. Len(z) \in Nat /\ Len(<<n, Colon>>) = 2
    BY LenProperties
  <2>2. /\ <<n, Colon>> \o z \in Seq(Glyphs) /\ Len(<<n, Colon>> \o z) = 2 + Len(z)
        /\ \A i \in 1 .. 2 + Len(z) :
             (<<n, Colon>> \o z)[i] = IF i <= 2 THEN <<n, Colon>>[i] ELSE z[i - 2]
    BY <1>1, <2>1, ConcatProperties
  <2>3. ASSUME NEW i \in 1 .. 2 + Len(z)
        PROVE  (<<n, Colon>> \o z)[i] # NewLine
    <3>1. CASE i <= 2
      <4>1. i = 1 \/ i = 2
        BY <2>1, <3>1
      <4> QED BY <1>2, <2>2, <3>1, <4>1
    <3>2. CASE ~ (i <= 2)
      <4>1. i - 2 \in 1 .. Len(z)
        BY <2>1, <3>2
      <4> QED BY <1>3, <2>2, <3>2, <4>1
    <3> QED BY <3>1, <3>2
  <2> QED BY <2>2, <2>3
<1>4. /\ v \in Seq(Glyphs) /\ \A i \in 1 .. Len(v) : v[i] # NewLine
      /\ w \in Seq(Glyphs) /\ \A i \in 1 .. Len(w) : w[i] # NewLine
  BY <1>1, <1>3
<1>5. (v \o <<NewLine>>) \o x = (w \o <<NewLine>>) \o y
  BY DEF Lines
<1> HIDE DEF v, w
<1>6. v = w /\ x = y
  <2>1. /\ Without(v, NewLine) /\ Without(w, NewLine)
        /\ Closed(v, NewLine, x) = Closed(w, NewLine, y)
    BY <1>4, <1>5 DEF Without, Closed
  <2> QED BY <1>1, <1>4, <2>1, SplitAt
<1>7. h[n] = g[n]
  <2>1. Len(<<n, Colon>>) = Len(<<n, Colon>>)
    OBVIOUS
  <2>2. <<n, Colon>> \o h[n] = <<n, Colon>> \o g[n]
    BY <1>6 DEF v, w
  <2> QED BY <1>1, <2>1, <2>2, Split
<1> QED BY <1>6, <1>7

-----------------------------------------------------------------------------
(* The lines of the later headers begin with no other name, and neither    *)
(* does what follows them.                                                 *)
Headed(s, names) == s = <<>> \/ s[1] \notin ToSet(Names) \ names

(* Joined lines of later headers begin with one of their names or are what *)
(* follows.                                                                *)
LEMMA LinesHeaded ==
  ASSUME NEW h, NEW x \in Seq(Glyphs), NEW e, Proper(h), Nameless(x), Joins(e, Lines(h), x)
  PROVE  \A k \in 0 .. Len(Names) : Headed(e[k], Latest(k))
<1> DEFINE T == {k \in Nat : k <= Len(Names) => Headed(e[k], Latest(k))}
<1>1. 0 \in T
  BY DEF Headed, Nameless, Joins
<1>2. ASSUME NEW k \in Nat, k \in T
      PROVE  k + 1 \in T
  <2> SUFFICES ASSUME k + 1 <= Len(Names) PROVE Headed(e[k + 1], Latest(k + 1))
    OBVIOUS
  <2> DEFINE n == NameAt(k + 1)
  <2>1. k + 1 \in 1 .. Len(Names) /\ (k + 1) - 1 = k /\ k \in 0 .. Len(Names)
    BY NamesTyped
  <2>2. /\ Headed(e[k], Latest(k)) /\ e[k] \in Seq(Glyphs)
        /\ Latest(k + 1) = Latest(k) \union {n}
    BY <1>2, <2>1, NamesTyped DEF Joins
  <2>3. e[k + 1] = IF n \in DOMAIN Lines(h) THEN Lines(h)[n] \o e[k] ELSE e[k]
    BY <2>1 DEF Joins
  <2>4. DOMAIN Lines(h) = DOMAIN h
    BY DEF Lines
  <2> HIDE DEF n
  <2>5. CASE n \in DOMAIN h
    BY <2>2, <2>3, <2>4, <2>5, LineHead DEF Headed
  <2>6. CASE n \notin DOMAIN h
    BY <2>2, <2>3, <2>4, <2>6 DEF Headed
  <2> QED BY <2>5, <2>6 DEF n
<1> HIDE DEF T
<1>3. Nat \subseteq T
  BY <1>1, <1>2, Induction
<1> QED BY <1>3, NamesTyped DEF T

(* They are joined step by step.                                           *)
LEMMA LinesJoin ==
  ASSUME NEW h, NEW x \in Seq(Glyphs), Proper(h)
  PROVE  \E e : Joins(e, Lines(h), x) /\ Joined(Lines(h), x) = e[Len(Names)]
<1> DEFINE parts == Lines(h)
<1>1. \A n \in DOMAIN parts : n \in DOMAIN h
  BY DEF Lines
<1>2. \A n \in DOMAIN parts : parts[n] \in Seq(Glyphs)
  BY <1>1, LineTyped
<1> HIDE DEF parts
<1>3. \E e : Joins(e, parts, x) /\ Joined(parts, x) = e[Len(Names)]
  BY <1>2, JoinedSteps
<1> QED BY <1>3 DEF parts

(* Lines of the same headers alone join to the same text.                  *)
LEMMA LinesTell ==
  ASSUME NEW h, NEW g, NEW x \in Seq(Glyphs), NEW y \in Seq(Glyphs), Proper(h), Proper(g),
         Nameless(x), Nameless(y), Joined(Lines(h), x) = Joined(Lines(g), y)
  PROVE  h = g /\ x = y
<1>1. PICK e : Joins(e, Lines(h), x) /\ Joined(Lines(h), x) = e[Len(Names)]
  BY LinesJoin
<1>2. PICK f : Joins(f, Lines(g), y) /\ Joined(Lines(g), y) = f[Len(Names)]
  BY LinesJoin
<1>3. \A k \in 0 .. Len(Names) : Headed(e[k], Latest(k)) /\ Headed(f[k], Latest(k))
  BY <1>1, <1>2, LinesHeaded
<1> DEFINE T == {k \in Nat : k <= Len(Names) /\ e[k] = f[k] =>
                   x = y /\ \A n \in Latest(k) : Agree(h, g, n)}
<1>4. 0 \in T
  BY <1>1, <1>2, NamesTyped DEF Joins
<1>5. ASSUME NEW k \in Nat, k \in T
      PROVE  k + 1 \in T
  <2> SUFFICES ASSUME k + 1 <= Len(Names), e[k + 1] = f[k + 1]
               PROVE  x = y /\ \A m \in Latest(k + 1) : Agree(h, g, m)
    OBVIOUS
  <2> DEFINE n == NameAt(k + 1)
  <2>1. k + 1 \in 1 .. Len(Names) /\ (k + 1) - 1 = k /\ k \in 0 .. Len(Names)
    BY NamesTyped
  <2>2. /\ Latest(k + 1) = Latest(k) \union {n} /\ n \notin Latest(k) /\ n \in ToSet(Names)
        /\ e[k] \in Seq(Glyphs) /\ f[k] \in Seq(Glyphs)
        /\ Headed(e[k], Latest(k)) /\ Headed(f[k], Latest(k))
    BY <1>1, <1>2, <1>3, <2>1, NamesTyped DEF Joins
  <2>3. /\ e[k + 1] = IF n \in DOMAIN h THEN Lines(h)[n] \o e[k] ELSE e[k]
        /\ f[k + 1] = IF n \in DOMAIN g THEN Lines(g)[n] \o f[k] ELSE f[k]
    BY <1>1, <1>2, <2>1 DEF Joins, Lines
  <2> DEFINE p == e[k]
             q == f[k]
  <2> HIDE DEF n, p, q
  <2>4. p \in Seq(Glyphs) /\ q \in Seq(Glyphs)
    BY <2>2 DEF p, q
  <2>5. CASE n \in DOMAIN h /\ n \in DOMAIN g
    <3>1. Lines(h)[n] \o p = Lines(g)[n] \o q
      BY <2>3, <2>5 DEF p, q
    <3>2. h[n] = g[n] /\ p = q
      <4>1. n \in DOMAIN h /\ n \in DOMAIN g
        BY <2>5
      <4>2. p = q
        BY <2>4, <4>1, <3>1, LineSplits
      <4>3. h[n] = g[n]
        BY <2>4, <4>1, <3>1, LineSplits
      <4> QED BY <4>2, <4>3
    <3>3. h[n] = g[n] /\ e[k] = f[k]
      BY <3>2 DEF p, q
    <3> QED BY <1>5, <2>2, <2>5, <3>3 DEF Agree
  <2>6. CASE n \in DOMAIN h /\ n \notin DOMAIN g
    <3>1. Lines(h)[n] \o p # <<>> /\ (Lines(h)[n] \o p)[1] = n
      BY <2>4, <2>6, LineHead
    <3>2. f[k] # <<>> /\ f[k][1] = n
      BY <2>3, <2>6, <3>1 DEF p
    <3> QED BY <2>2, <3>2 DEF Headed
  <2>7. CASE n \notin DOMAIN h /\ n \in DOMAIN g
    <3>1. Lines(g)[n] \o q # <<>> /\ (Lines(g)[n] \o q)[1] = n
      BY <2>4, <2>7, LineHead
    <3>2. e[k] # <<>> /\ e[k][1] = n
      BY <2>3, <2>7, <3>1 DEF q
    <3> QED BY <2>2, <3>2 DEF Headed
  <2>8. CASE n \notin DOMAIN h /\ n \notin DOMAIN g
    <3>1. e[k] = f[k] /\ k <= Len(Names)
      <4>1. e[k] = f[k]
        BY <2>3, <2>8
      <4>2. k <= Len(Names)
        BY NamesTyped
      <4> QED BY <4>1, <4>2
    <3> QED BY <1>5, <2>2, <2>8, <3>1 DEF Agree
  <2> QED BY <2>5, <2>6, <2>7, <2>8
<1> HIDE DEF T
<1>6. Nat \subseteq T
  BY <1>4, <1>5, Induction
<1>7. x = y /\ \A n \in ToSet(Names) : Agree(h, g, n)
  <2>1. Len(Names) \in T /\ Len(Names) <= Len(Names) /\ e[Len(Names)] = f[Len(Names)]
    <3>1. Len(Names) \in Nat
      BY NamesTyped
    <3>2. Len(Names) \in T
      BY <1>6, <3>1
    <3>3. Len(Names) <= Len(Names)
      BY <3>1
    <3>4. e[Len(Names)] = f[Len(Names)]
      BY <1>1, <1>2
    <3> QED BY <3>2, <3>3, <3>4
  <2> QED BY <2>1, NamesTyped DEF T
<1> QED BY <1>7, AgreeEqual

-----------------------------------------------------------------------------
(* A field tells where it ends.                                            *)

(* A field is written with glyphs, as its size is a number that has a text.*)
LEMMA FieldTyped ==
  ASSUME NEW v \in Seq(Pieces), Size(v) <= MaxMessage
  PROVE  Size(v) \in 0 .. MaxMessage /\ <<Decimal(Size(v)), Colon>> \in Seq(Glyphs)
         /\ v \in Seq(Glyphs) /\ Field(v) \in Seq(Glyphs)
<1>1. Size(v) \in Nat
  <2>1. PICK f \in [0 .. Len(v) -> Nat] : Size(v) = f[Len(v)]
    BY SizeSums
  <2>2. Len(v) \in 0 .. Len(v)
    BY LenProperties
  <2> QED BY <2>1, <2>2
<1>2. Size(v) \in 0 .. MaxMessage
  BY <1>1, RequestAssumption
<1>3. Decimal(Size(v)) \in Glyphs /\ Colon \in Glyphs /\ v \in Seq(Glyphs)
  BY <1>2, GlyphsContain
<1>4. <<Decimal(Size(v)), Colon>> \in Seq(Glyphs)
  BY <1>3
<1> QED BY <1>2, <1>3, <1>4, ConcatProperties DEF Field

(* Two texts that begin with fields and are equal begin with one field:    *)
(* the size, up to the colon, says where it ends.                          *)
LEMMA FieldSplits ==
  ASSUME NEW v \in Seq(Pieces), NEW w \in Seq(Pieces), NEW x \in Seq(Glyphs), NEW y \in Seq(Glyphs),
         Size(v) <= MaxMessage, Size(w) <= MaxMessage, Field(v) \o x = Field(w) \o y
  PROVE  v = w /\ x = y
<1> DEFINE a == <<Decimal(Size(v)), Colon>>
           b == <<Decimal(Size(w)), Colon>>
<1>1. /\ a \in Seq(Glyphs) /\ b \in Seq(Glyphs) /\ v \in Seq(Glyphs) /\ w \in Seq(Glyphs)
      /\ v \o x \in Seq(Glyphs) /\ w \o y \in Seq(Glyphs)
      /\ Len(a) = 2 /\ Len(b) = 2 /\ a[1] = Decimal(Size(v)) /\ b[1] = Decimal(Size(w))
  BY FieldTyped, ConcatProperties
<1>2. Field(v) = a \o v /\ Field(w) = b \o w
  BY DEF Field
<1> HIDE DEF a, b
<1>3. a \o (v \o x) = b \o (w \o y)
  <2>1. a \in Seq(Glyphs) /\ v \in Seq(Glyphs) /\ b \in Seq(Glyphs) /\ w \in Seq(Glyphs)
    BY <1>1
  <2>2. (a \o v) \o x = a \o (v \o x)
    BY <2>1, ConcatAssociative, SMTT(20)
  <2>3. (b \o w) \o y = b \o (w \o y)
    BY <2>1, ConcatAssociative, SMTT(20)
  <2>4. (a \o v) \o x = a \o (v \o x) /\ (b \o w) \o y = b \o (w \o y)
    BY <2>2, <2>3
  <2> QED BY <1>2, <2>4
<1> DEFINE s == v \o x
           t == w \o y
<1>4. s \in Seq(Glyphs) /\ t \in Seq(Glyphs) /\ a \o s = b \o t
  BY <1>1, <1>3
<1> HIDE DEF s, t
<1>5. a = b /\ s = t
  <2>1. Len(a) = Len(b)
    BY <1>1
  <2> QED BY <1>1, <1>4, <2>1, Split
<1>6. Size(v) = Size(w)
  BY <1>1, <1>5, FieldTyped, RequestAssumption
<1>7. Len(v) \in Nat /\ Len(w) \in Nat /\ Len(x) \in Nat /\ Len(y) \in Nat
  BY LenProperties
<1>8. /\ \A i \in 1 .. Len(v) : s[i] = v[i]
      /\ \A i \in 1 .. Len(w) : t[i] = w[i]
  BY <1>1, <1>7, ConcatProperties DEF s, t
<1>9. ~ (Len(v) < Len(w))
  <2> SUFFICES ASSUME Len(v) < Len(w) PROVE FALSE
    OBVIOUS
  <2>1. \A i \in 1 .. Len(v) : v[i] = w[i]
    BY <1>5, <1>7, <1>8
  <2>2. Size(v) < Size(w)
    BY <2>1, SizeOfMore
  <2> QED BY <1>6, <2>2, FieldTyped
<1>10. ~ (Len(w) < Len(v))
  <2> SUFFICES ASSUME Len(w) < Len(v) PROVE FALSE
    OBVIOUS
  <2>1. \A i \in 1 .. Len(w) : w[i] = v[i]
    BY <1>5, <1>7, <1>8
  <2>2. Size(w) < Size(v)
    BY <2>1, SizeOfMore
  <2> QED BY <1>6, <2>2, FieldTyped
<1>11. Len(v) = Len(w)
  BY <1>7, <1>9, <1>10
<1> QED BY <1>1, <1>5, <1>11, Split DEF s, t

-----------------------------------------------------------------------------
(* The two fields of one header.                                           *)

(* The parts of a header in the binary form have their types.              *)
LEMMA HeaderTyped ==
  ASSUME NEW h, NEW n, Proper(h), n \in DOMAIN h
  PROVE  /\ n \in ToSet(Names)
         /\ <<n>> \in Seq(Pieces) /\ Size(<<n>>) <= MaxMessage
         /\ h[n] \in Seq(Pieces) /\ Size(h[n]) <= MaxMessage
         /\ Field(<<n>>) \in Seq(Glyphs) /\ Field(h[n]) \in Seq(Glyphs)
         /\ Fields(h)[n] = Field(<<n>>) \o Field(h[n]) /\ Fields(h)[n] \in Seq(Glyphs)
<1>1. /\ n \in ToSet(Names) /\ n \in Pieces
      /\ h[n] \in Seq(Pieces) /\ Size(h[n]) <= MaxMessage
  BY LineTyped
<1>2. <<n>> \in Seq(Pieces)
  BY <1>1
<1>3. Size(<<n>>) <= MaxMessage
  BY <1>1, SizeOfOne, RequestAssumption
<1>4. Field(<<n>>) \in Seq(Glyphs)
  BY <1>2, <1>3, FieldTyped
<1>5. Field(h[n]) \in Seq(Glyphs)
  BY <1>1, FieldTyped
<1>6. Fields(h)[n] = Field(<<n>>) \o Field(h[n])
  BY DEF Fields
<1>7. Fields(h)[n] \in Seq(Glyphs)
  BY <1>4, <1>5, <1>6, ConcatProperties
<1> QED BY <1>1, <1>2, <1>3, <1>4, <1>5, <1>6, <1>7

(* A header in the binary form begins with the field of its name.          *)
LEMMA HeaderBegins ==
  ASSUME NEW h, NEW n, NEW x \in Seq(Glyphs), Proper(h), n \in DOMAIN h
  PROVE  /\ Field(h[n]) \o x \in Seq(Glyphs)
         /\ Fields(h)[n] \o x = Field(<<n>>) \o (Field(h[n]) \o x)
<1> DEFINE a == Field(<<n>>)
           b == Field(h[n])
<1>1. a \in Seq(Glyphs) /\ b \in Seq(Glyphs) /\ Fields(h)[n] = a \o b
  BY HeaderTyped
<1> HIDE DEF a, b
<1>2. (a \o b) \o x = a \o (b \o x)
  BY <1>1, ConcatAssociative
<1>3. b \o x \in Seq(Glyphs)
  BY <1>1, ConcatProperties
<1> QED BY <1>1, <1>2, <1>3 DEF a, b

(* Two headers that begin alike are one.                                   *)
LEMMA HeadersSplit ==
  ASSUME NEW h, NEW g, NEW m, NEW n, NEW x \in Seq(Glyphs), NEW y \in Seq(Glyphs),
         Proper(h), Proper(g), m \in DOMAIN h, n \in DOMAIN g,
         Fields(h)[m] \o x = Fields(g)[n] \o y
  PROVE  m = n /\ h[m] = g[n] /\ x = y
<1> DEFINE s == Field(h[m]) \o x
           t == Field(g[n]) \o y
<1>1. s \in Seq(Glyphs) /\ Fields(h)[m] \o x = Field(<<m>>) \o s
  BY HeaderBegins
<1>2. t \in Seq(Glyphs) /\ Fields(g)[n] \o y = Field(<<n>>) \o t
  BY HeaderBegins
<1>3. /\ <<m>> \in Seq(Pieces) /\ Size(<<m>>) <= MaxMessage
      /\ h[m] \in Seq(Pieces) /\ Size(h[m]) <= MaxMessage
  BY HeaderTyped
<1>4. /\ <<n>> \in Seq(Pieces) /\ Size(<<n>>) <= MaxMessage
      /\ g[n] \in Seq(Pieces) /\ Size(g[n]) <= MaxMessage
  BY HeaderTyped
<1> HIDE DEF s, t
<1>5. Field(<<m>>) \o s = Field(<<n>>) \o t
  BY <1>1, <1>2
<1>6. <<m>> = <<n>> /\ s = t
  BY <1>1, <1>2, <1>3, <1>4, <1>5, FieldSplits
<1>7. m = n
  BY <1>6
<1>8. Field(h[m]) \o x = Field(g[n]) \o y
  BY <1>6 DEF s, t
<1>9. h[m] = g[n] /\ x = y
  <2> DEFINE v == h[m]
             w == g[n]
  <2>1. v \in Seq(Pieces) /\ w \in Seq(Pieces) /\ Size(v) <= MaxMessage /\ Size(w) <= MaxMessage
    BY <1>3, <1>4
  <2>2. Field(v) \o x = Field(w) \o y
    BY <1>8
  <2> HIDE DEF v, w
  <2>3. v = w /\ x = y
    BY <2>1, <2>2, FieldSplits
  <2> QED BY <2>3 DEF v, w
<1> QED BY <1>7, <1>9

(* Fields, too, are joined step by step.                                   *)
LEMMA FieldsJoin ==
  ASSUME NEW h, NEW x \in Seq(Glyphs), Proper(h)
  PROVE  \E e : Joins(e, Fields(h), x) /\ Joined(Fields(h), x) = e[Len(Names)]
<1> DEFINE parts == Fields(h)
<1>1. \A n \in DOMAIN parts : n \in DOMAIN h
  BY DEF Fields
<1>2. \A n \in DOMAIN parts : parts[n] \in Seq(Glyphs)
  BY <1>1, HeaderTyped
<1> HIDE DEF parts
<1>3. \E e : Joins(e, parts, x) /\ Joined(parts, x) = e[Len(Names)]
  BY <1>2, JoinedSteps
<1> QED BY <1>3 DEF parts

(* What is joined of later headers, if there are any, begins with one.     *)
Begun(h, k, s) ==
  DOMAIN h \intersect Latest(k) # {} =>
    \E m \in DOMAIN h \intersect Latest(k), z \in Seq(Glyphs) : s = Fields(h)[m] \o z

(* Joined fields begin with a header if there is any.                      *)
LEMMA FieldsBegun ==
  ASSUME NEW h, NEW x \in Seq(Glyphs), NEW e, Proper(h), Joins(e, Fields(h), x)
  PROVE  \A k \in 0 .. Len(Names) : Begun(h, k, e[k])
<1> DEFINE T == {k \in Nat : k <= Len(Names) => Begun(h, k, e[k])}
<1>1. 0 \in T
  BY NamesTyped DEF Begun
<1>2. ASSUME NEW k \in Nat, k \in T
      PROVE  k + 1 \in T
  <2> SUFFICES ASSUME k + 1 <= Len(Names) PROVE Begun(h, k + 1, e[k + 1])
    OBVIOUS
  <2> DEFINE n == NameAt(k + 1)
  <2>1. k + 1 \in 1 .. Len(Names) /\ (k + 1) - 1 = k /\ k \in 0 .. Len(Names)
    BY NamesTyped
  <2>2. Begun(h, k, e[k]) /\ e[k] \in Seq(Glyphs) /\ Latest(k + 1) = Latest(k) \union {n}
    <3>1. Begun(h, k, e[k])
      BY <1>2, <2>1
    <3>2. e[k] \in Seq(Glyphs)
      BY <2>1 DEF Joins
    <3>3. Latest(k + 1) = Latest(k) \union {n}
      BY <2>1, NamesTyped
    <3> QED BY <3>1, <3>2, <3>3
  <2>3. e[k + 1] = IF n \in DOMAIN h THEN Fields(h)[n] \o e[k] ELSE e[k]
    BY <2>1 DEF Joins, Fields
  <2> HIDE DEF n
  <2>4. CASE n \in DOMAIN h
    BY <2>2, <2>3, <2>4 DEF Begun
  <2>5. CASE n \notin DOMAIN h
    BY <2>2, <2>3, <2>5 DEF Begun
  <2> QED BY <2>4, <2>5
<1> HIDE DEF T
<1>3. Nat \subseteq T
  BY <1>1, <1>2, Induction
<1> QED BY <1>3, NamesTyped DEF T

(* Fields of as many headers are of the same headers when they join to the *)
(* same text.                                                              *)
Later(h, k) == Cardinality(DOMAIN h \intersect Latest(k))

(* The last k names are k at most.                                         *)
LEMMA LatestCounted ==
  ASSUME NEW k \in Nat
  PROVE  IsFiniteSet(Latest(k)) /\ Cardinality(Latest(k)) <= k
<1> DEFINE m == [j \in 1 .. k |-> NameAt(j)]
<1>1. IsFiniteSet(1 .. k) /\ Cardinality(1 .. k) = k
  BY FS_Interval
<1>2. m \in Surjection(1 .. k, Latest(k))
  BY DEF Surjection, Latest
<1> HIDE DEF m
<1> QED BY <1>1, <1>2, FS_Surjection

(* There are finitely many names.                                          *)
LEMMA NamesFinite == IsFiniteSet(ToSet(Names))
BY NamesTyped, LatestCounted

(* One name more counts one header more, if there is one of that name.     *)
LEMMA LaterCounts ==
  ASSUME NEW h, NEW k \in Nat, k + 1 <= Len(Names), Proper(h)
  PROVE  /\ Later(h, k) \in Nat
         /\ DOMAIN h \intersect Latest(k) = {} => Later(h, k) = 0
         /\ Later(h, k + 1) = IF NameAt(k + 1) \in DOMAIN h THEN Later(h, k) + 1 ELSE Later(h, k)
<1> DEFINE n == NameAt(k + 1)
           A == DOMAIN h \intersect Latest(k)
           B == DOMAIN h \intersect Latest(k + 1)
<1>1. k + 1 \in 1 .. Len(Names) /\ (k + 1) - 1 = k
  BY NamesTyped
<1>2. Latest(k + 1) = Latest(k) \union {n} /\ n \notin Latest(k)
  BY <1>1, NamesTyped
<1>3. IsFiniteSet(A)
  <2>1. IsFiniteSet(Latest(k))
    BY LatestCounted
  <2> QED BY <2>1, FS_Subset
<1>4. IF n \in DOMAIN h THEN B = A \union {n} /\ n \notin A ELSE B = A
  BY <1>2
<1> HIDE DEF n, A, B
<1>5. Cardinality(A) \in Nat /\ (A = {} => Cardinality(A) = 0)
  BY <1>3, FS_CardinalityType, FS_EmptySet
<1>6. n \notin A => Cardinality(A \union {n}) = Cardinality(A) + 1
  BY <1>3, FS_AddElement
<1>7. Cardinality(B) = IF n \in DOMAIN h THEN Cardinality(A) + 1 ELSE Cardinality(A)
  BY <1>4, <1>6
<1> QED BY <1>5, <1>7 DEF A, B, n, Later

(* Fields of as many headers join to the same text only when they are of   *)
(* the same headers, and the same follows.                                 *)
LEMMA FieldsTell ==
  ASSUME NEW h, NEW g, NEW x \in Seq(Glyphs), NEW y \in Seq(Glyphs), Proper(h), Proper(g),
         Cardinality(DOMAIN h) = Cardinality(DOMAIN g), Joined(Fields(h), x) = Joined(Fields(g), y)
  PROVE  h = g /\ x = y
<1>1. PICK e : Joins(e, Fields(h), x) /\ Joined(Fields(h), x) = e[Len(Names)]
  BY FieldsJoin
<1>2. PICK f : Joins(f, Fields(g), y) /\ Joined(Fields(g), y) = f[Len(Names)]
  BY FieldsJoin
<1>3. \A k \in 0 .. Len(Names) : Begun(h, k, e[k])
  BY <1>1, FieldsBegun
<1>4. \A k \in 0 .. Len(Names) : Begun(g, k, f[k])
  BY <1>2, FieldsBegun
<1> DEFINE T == {k \in Nat : k <= Len(Names) /\ e[k] = f[k] /\ Later(h, k) = Later(g, k) =>
                   x = y /\ \A n \in Latest(k) : Agree(h, g, n)}
<1>5. 0 \in T
  BY <1>1, <1>2, NamesTyped DEF Joins
<1>6. ASSUME NEW k \in Nat, k \in T
      PROVE  k + 1 \in T
  <2> SUFFICES ASSUME k + 1 <= Len(Names), e[k + 1] = f[k + 1], Later(h, k + 1) = Later(g, k + 1)
               PROVE  x = y /\ \A m \in Latest(k + 1) : Agree(h, g, m)
    OBVIOUS
  <2> DEFINE n == NameAt(k + 1)
             p == e[k]
             q == f[k]
  <2>1. k + 1 \in 1 .. Len(Names) /\ (k + 1) - 1 = k /\ k \in 0 .. Len(Names) /\ k <= Len(Names)
    BY NamesTyped
  <2>2. Latest(k + 1) = Latest(k) \union {n} /\ n \notin Latest(k)
    BY <2>1, NamesTyped
  <2>3. p \in Seq(Glyphs) /\ q \in Seq(Glyphs)
    BY <1>1, <1>2, <2>1 DEF Joins
  <2>4. Begun(h, k, p) /\ Begun(g, k, q)
    BY <1>3, <1>4, <2>1
  <2>5. e[k + 1] = IF n \in DOMAIN h THEN Fields(h)[n] \o p ELSE p
    BY <1>1, <2>1 DEF Joins, Fields
  <2>6. f[k + 1] = IF n \in DOMAIN g THEN Fields(g)[n] \o q ELSE q
    BY <1>2, <2>1 DEF Joins, Fields
  <2>7. /\ Later(h, k) \in Nat
        /\ DOMAIN h \intersect Latest(k) = {} => Later(h, k) = 0
        /\ Later(h, k + 1) = IF n \in DOMAIN h THEN Later(h, k) + 1 ELSE Later(h, k)
    BY LaterCounts
  <2>8. /\ Later(g, k) \in Nat
        /\ DOMAIN g \intersect Latest(k) = {} => Later(g, k) = 0
        /\ Later(g, k + 1) = IF n \in DOMAIN g THEN Later(g, k) + 1 ELSE Later(g, k)
    BY LaterCounts
  <2>9. p = q /\ Later(h, k) = Later(g, k) => x = y /\ \A m \in Latest(k) : Agree(h, g, m)
    BY <1>6, <2>1
  <2> HIDE DEF n, p, q
  <2>10. CASE n \in DOMAIN h /\ n \in DOMAIN g
    <3>1. Fields(h)[n] \o p = Fields(g)[n] \o q
      BY <2>5, <2>6, <2>10
    <3>2. n \in DOMAIN h /\ n \in DOMAIN g
      BY <2>10
    <3>3. h[n] = g[n] /\ p = q
      BY <2>3, <3>1, <3>2, HeadersSplit
    <3>4. Later(h, k) = Later(g, k)
      BY <2>7, <2>8, <3>2
    <3>5. Agree(h, g, n)
      BY <3>2, <3>3 DEF Agree
    <3> QED BY <2>2, <2>9, <3>3, <3>4, <3>5
  <2>11. CASE n \in DOMAIN h /\ n \notin DOMAIN g
    <3>1. DOMAIN g \intersect Latest(k) # {}
      BY <2>7, <2>8, <2>11
    <3>2. PICK m \in DOMAIN g \intersect Latest(k), z \in Seq(Glyphs) : q = Fields(g)[m] \o z
      BY <2>4, <3>1 DEF Begun
    <3>3. Fields(h)[n] \o p = Fields(g)[m] \o z
      BY <2>5, <2>6, <2>11, <3>2
    <3>4. n \in DOMAIN h /\ m \in DOMAIN g /\ m \in Latest(k)
      BY <2>11
    <3>5. n = m
      BY <2>3, <3>3, <3>4, HeadersSplit
    <3> QED BY <2>2, <3>4, <3>5
  <2>12. CASE n \notin DOMAIN h /\ n \in DOMAIN g
    <3>1. DOMAIN h \intersect Latest(k) # {}
      BY <2>7, <2>8, <2>12
    <3>2. PICK m \in DOMAIN h \intersect Latest(k), z \in Seq(Glyphs) : p = Fields(h)[m] \o z
      BY <2>4, <3>1 DEF Begun
    <3>3. Fields(h)[m] \o z = Fields(g)[n] \o q
      BY <2>5, <2>6, <2>12, <3>2
    <3>4. m \in DOMAIN h /\ n \in DOMAIN g /\ m \in Latest(k)
      BY <2>12
    <3>5. m = n
      BY <2>3, <3>3, <3>4, HeadersSplit
    <3> QED BY <2>2, <3>4, <3>5
  <2>13. CASE n \notin DOMAIN h /\ n \notin DOMAIN g
    <3>1. p = q
      BY <2>5, <2>6, <2>13
    <3>2. Later(h, k) = Later(g, k)
      BY <2>7, <2>8, <2>13
    <3>3. Agree(h, g, n)
      BY <2>13 DEF Agree
    <3> QED BY <2>2, <2>9, <3>1, <3>2, <3>3
  <2> QED BY <2>10, <2>11, <2>12, <2>13
<1> HIDE DEF T
<1>7. Nat \subseteq T
  BY <1>5, <1>6, Induction
<1>8. Later(h, Len(Names)) = Cardinality(DOMAIN h) /\ Later(g, Len(Names)) = Cardinality(DOMAIN g)
  <2>1. DOMAIN h \subseteq ToSet(Names) /\ DOMAIN g \subseteq ToSet(Names)
    BY LineTyped
  <2>2. Latest(Len(Names)) = ToSet(Names)
    BY NamesTyped
  <2>3. DOMAIN h \intersect Latest(Len(Names)) = DOMAIN h
    BY <2>1, <2>2
  <2>4. DOMAIN g \intersect Latest(Len(Names)) = DOMAIN g
    BY <2>1, <2>2
  <2> QED BY <2>3, <2>4 DEF Later
<1>9. x = y /\ \A n \in ToSet(Names) : Agree(h, g, n)
  <2>1. Len(Names) \in Nat /\ Latest(Len(Names)) = ToSet(Names)
    BY NamesTyped
  <2>2. Len(Names) \in T
    BY <1>7, <2>1
  <2>3. Len(Names) <= Len(Names)
    BY <2>1
  <2>4. e[Len(Names)] = f[Len(Names)]
    BY <1>1, <1>2
  <2>5. Later(h, Len(Names)) = Later(g, Len(Names))
    BY <1>8
  <2> QED BY <2>1, <2>2, <2>3, <2>4, <2>5 DEF T
<1> QED BY <1>9, AgreeEqual

-----------------------------------------------------------------------------
(* Headers joined.                                                         *)

(* Lines join to a text.                                                   *)
LEMMA LinesJoined ==
  ASSUME NEW h, NEW x \in Seq(Glyphs), Proper(h)
  PROVE  Joined(Lines(h), x) \in Seq(Glyphs)
<1>1. PICK e : Joins(e, Lines(h), x) /\ Joined(Lines(h), x) = e[Len(Names)]
  BY LinesJoin
<1>2. Len(Names) \in 0 .. Len(Names)
  BY NamesTyped
<1> QED BY <1>1, <1>2 DEF Joins

(* Fields join to a text.                                                  *)
LEMMA FieldsJoined ==
  ASSUME NEW h, NEW x \in Seq(Glyphs), Proper(h)
  PROVE  Joined(Fields(h), x) \in Seq(Glyphs)
<1>1. PICK e : Joins(e, Fields(h), x) /\ Joined(Fields(h), x) = e[Len(Names)]
  BY FieldsJoin
<1>2. Len(Names) \in 0 .. Len(Names)
  BY NamesTyped
<1> QED BY <1>1, <1>2 DEF Joins

(* A normalized request.                                                   *)
Sound(r) ==
  /\ \E names \in SUBSET ToSet(Names) : r \in Requests(names)
  /\ Proper(r.headers) /\ Size(r.body) <= MaxBody

Counted(r) == Cardinality(DOMAIN r.headers)

(* The parts of a normalized request, and its numbers, have their types.   *)
LEMMA SoundTyped ==
  ASSUME NEW r, Sound(r)
  PROVE  /\ Proper(r.headers) /\ r.body \in Seq(Pieces) /\ r.body \in Seq(Glyphs)
         /\ Size(r.body) <= MaxMessage /\ Field(r.body) \in Seq(Glyphs)
         /\ r.attempts \in 0 .. MaxMessage /\ Counted(r) \in 0 .. MaxMessage
<1>1. PICK names \in SUBSET ToSet(Names) : r \in Requests(names)
  BY DEF Sound
<1>2. /\ r.body \in Seq(Pieces) /\ r.headers \in [names -> Seq(Pieces)]
      /\ r.attempts \in 1 .. MaxAttempts
  BY <1>1 DEF Requests
<1>3. MaxMessage \in Nat /\ MaxBody \in 0 .. MaxMessage /\ MaxAttempts \in 0 .. MaxMessage
  BY RequestAssumption
<1>4. r.body \in Seq(Glyphs)
  BY <1>2, GlyphsContain
<1>5. Size(r.body) <= MaxMessage
  <2>1. Size(r.body) <= MaxBody
    BY DEF Sound
  <2>2. PICK f \in [0 .. Len(r.body) -> Nat] : Size(r.body) = f[Len(r.body)]
    BY <1>2, SizeSums
  <2>3. Len(r.body) \in 0 .. Len(r.body)
    BY <1>2, LenProperties
  <2>4. Size(r.body) \in Nat
    BY <2>2, <2>3
  <2> QED BY <1>3, <2>1, <2>4
<1>6. Field(r.body) \in Seq(Glyphs)
  BY <1>2, <1>5, FieldTyped
<1>7. r.attempts \in 0 .. MaxMessage
  BY <1>2, <1>3
<1>8. Counted(r) \in 0 .. MaxMessage
  <2>1. PICK D \in SUBSET ToSet(Names) :
          r.headers \in [D -> Seq(Pieces)] /\ Cardinality(D) <= MaxMessage
    BY DEF Sound, Proper
  <2>2. DOMAIN r.headers = D
    BY <2>1
  <2>3. IsFiniteSet(D)
    BY NamesFinite, FS_Subset
  <2>4. Cardinality(D) \in Nat
    BY <2>3, FS_CardinalityType
  <2> QED BY <1>3, <2>1, <2>2, <2>4 DEF Counted
<1> QED BY <1>2, <1>4, <1>5, <1>6, <1>7, <1>8 DEF Sound

(* A request is its parts.                                                 *)
LEMMA SoundEqual ==
  ASSUME NEW r, NEW q, Sound(r), Sound(q), r.body = q.body, r.headers = q.headers,
         r.attempts = q.attempts
  PROVE  r = q
<1>1. r = [body |-> r.body, headers |-> r.headers, attempts |-> r.attempts]
  BY DEF Sound, Requests
<1>2. q = [body |-> q.body, headers |-> q.headers, attempts |-> q.attempts]
  BY DEF Sound, Requests
<1> QED BY <1>1, <1>2

(* The body that ends a form of lines begins with no name.                 *)
ByLines(r) == r.body = <<>> \/ IsJSON(r.body)

(* A text of JSON, or nothing, does not begin with a name.                 *)
LEMMA ByLinesNameless ==
  ASSUME NEW r, Sound(r), ByLines(r)
  PROVE  Nameless(r.body)
<1>1. CASE r.body = <<>>
  BY <1>1 DEF Nameless
<1>2. CASE r.body # <<>> /\ IsJSON(r.body)
  <2>1. r.body \in Seq(Pieces)
    BY SoundTyped
  <2>2. 1 \in DOMAIN r.body
    BY <1>2, <2>1, EmptySeq, LenProperties
  <2>3. r.body[1] \in Texts \/ r.body[1] = NewLine
    BY <1>2, <2>2 DEF IsJSON
  <2> QED BY <2>3, RequestAssumption DEF Nameless
<1> QED BY <1>1, <1>2 DEF ByLines

(* The form of lines tells requests without other bytes apart.             *)
LEMMA LineFormTells ==
  ASSUME NEW r, NEW q, Sound(r), Sound(q), ByLines(r), ByLines(q), LineForm(r) = LineForm(q)
  PROVE  r = q
<1> DEFINE a == <<Decimal(r.attempts), NewLine>>
           b == <<Decimal(q.attempts), NewLine>>
           s == Joined(Lines(r.headers), r.body)
           t == Joined(Lines(q.headers), q.body)
<1>1. /\ Proper(r.headers) /\ r.body \in Seq(Glyphs) /\ Nameless(r.body)
      /\ r.attempts \in 0 .. MaxMessage
  BY SoundTyped, ByLinesNameless
<1>2. /\ Proper(q.headers) /\ q.body \in Seq(Glyphs) /\ Nameless(q.body)
      /\ q.attempts \in 0 .. MaxMessage
  BY SoundTyped, ByLinesNameless
<1>3. a \in Seq(Glyphs) /\ b \in Seq(Glyphs) /\ Len(a) = Len(b)
  <2>1. Decimal(r.attempts) \in Glyphs /\ Decimal(q.attempts) \in Glyphs /\ NewLine \in Glyphs
    BY <1>1, <1>2, GlyphsContain
  <2> QED BY <2>1
<1>4. s \in Seq(Glyphs)
  BY <1>1, LinesJoined
<1>5. t \in Seq(Glyphs)
  BY <1>2, LinesJoined
<1>6. LineForm(r) = a \o s /\ LineForm(q) = b \o t
  BY DEF LineForm, Lines
<1>7. a[1] = Decimal(r.attempts) /\ b[1] = Decimal(q.attempts)
  OBVIOUS
<1> HIDE DEF a, b, s, t
<1>8. a = b /\ s = t
  <2>1. a \o s = b \o t
    BY <1>6
  <2> QED BY <1>3, <1>4, <1>5, <2>1, Split
<1>9. r.attempts = q.attempts
  BY <1>1, <1>2, <1>7, <1>8, RequestAssumption
<1>10. r.headers = q.headers /\ r.body = q.body
  <2> DEFINE h == r.headers
             g == q.headers
             x == r.body
             y == q.body
  <2>1. Joined(Lines(h), x) = Joined(Lines(g), y)
    BY <1>8 DEF s, t
  <2>2. Proper(h) /\ Proper(g) /\ x \in Seq(Glyphs) /\ y \in Seq(Glyphs) /\ Nameless(x) /\ Nameless(y)
    BY <1>1, <1>2
  <2> HIDE DEF h, g, x, y
  <2>3. h = g /\ x = y
    BY <2>1, <2>2, LinesTell
  <2> QED BY <2>3 DEF h, g, x, y
<1> QED BY <1>9, <1>10, SoundEqual

(* The binary form tells all requests apart.                               *)
LEMMA BinaryFormTells ==
  ASSUME NEW r, NEW q, Sound(r), Sound(q), BinaryForm(r) = BinaryForm(q)
  PROVE  r = q
<1> DEFINE a == <<"v2", Decimal(r.attempts), Decimal(Counted(r))>>
           b == <<"v2", Decimal(q.attempts), Decimal(Counted(q))>>
           s == Joined(Fields(r.headers), Field(r.body))
           t == Joined(Fields(q.headers), Field(q.body))
<1>1. /\ Proper(r.headers) /\ r.body \in Seq(Pieces) /\ Size(r.body) <= MaxMessage
      /\ Field(r.body) \in Seq(Glyphs)
      /\ r.attempts \in 0 .. MaxMessage /\ Counted(r) \in 0 .. MaxMessage
  BY SoundTyped
<1>2. /\ Proper(q.headers) /\ q.body \in Seq(Pieces) /\ Size(q.body) <= MaxMessage
      /\ Field(q.body) \in Seq(Glyphs)
      /\ q.attempts \in 0 .. MaxMessage /\ Counted(q) \in 0 .. MaxMessage
  BY SoundTyped
<1>3. a \in Seq(Glyphs) /\ b \in Seq(Glyphs) /\ Len(a) = Len(b)
  <2>1. /\ Decimal(r.attempts) \in Glyphs /\ Decimal(q.attempts) \in Glyphs /\ "v2" \in Glyphs
        /\ Decimal(Counted(r)) \in Glyphs /\ Decimal(Counted(q)) \in Glyphs
    BY <1>1, <1>2, GlyphsContain
  <2> QED BY <2>1
<1>4. s \in Seq(Glyphs)
  BY <1>1, FieldsJoined
<1>5. t \in Seq(Glyphs)
  BY <1>2, FieldsJoined
<1>6. BinaryForm(r) = a \o s /\ BinaryForm(q) = b \o t
  BY DEF BinaryForm, Fields, Counted
<1>7. /\ a[2] = Decimal(r.attempts) /\ b[2] = Decimal(q.attempts)
      /\ a[3] = Decimal(Counted(r)) /\ b[3] = Decimal(Counted(q))
  OBVIOUS
<1> HIDE DEF a, b, s, t
<1>8. a = b /\ s = t
  <2>1. a \o s = b \o t
    BY <1>6
  <2> QED BY <1>3, <1>4, <1>5, <2>1, Split
<1>9. r.attempts = q.attempts
  BY <1>1, <1>2, <1>7, <1>8, RequestAssumption
<1>10. Counted(r) = Counted(q)
  BY <1>1, <1>2, <1>7, <1>8, RequestAssumption
<1>11. r.headers = q.headers /\ r.body = q.body
  <2> DEFINE h == r.headers
             g == q.headers
             v == r.body
             w == q.body
             x == Field(v)
             y == Field(w)
  <2>1. Joined(Fields(h), x) = Joined(Fields(g), y) /\ Cardinality(DOMAIN h) = Cardinality(DOMAIN g)
    BY <1>8, <1>10 DEF s, t, Counted
  <2>2. /\ Proper(h) /\ Proper(g) /\ x \in Seq(Glyphs) /\ y \in Seq(Glyphs)
        /\ v \in Seq(Pieces) /\ w \in Seq(Pieces) /\ Size(v) <= MaxMessage /\ Size(w) <= MaxMessage
    BY <1>1, <1>2
  <2> HIDE DEF h, g, v, w
  <2>3. h = g /\ x = y
    <3> HIDE DEF x, y
    <3> QED BY <2>1, <2>2, FieldsTell
  <2>4. v = w
    <3>1. <<>> \in Seq(Glyphs) /\ x \o <<>> = y \o <<>>
      BY <2>3
    <3> QED BY <2>2, <3>1, FieldSplits
  <2> QED BY <2>3, <2>4 DEF h, g, v, w
<1> QED BY <1>9, <1>11, SoundEqual

(* The two forms, and which is whose.                                      *)
LEMMA FormsTyped ==
  ASSUME NEW p, Sound(p)
  PROVE  /\ ByLines(p) => Fingerprint(p) = LineForm(p)
         /\ ~ ByLines(p) => Fingerprint(p) = BinaryForm(p)
         /\ LineForm(p) \in Seq(Glyphs) /\ LineForm(p)[1] = Decimal(p.attempts)
         /\ BinaryForm(p) \in Seq(Glyphs) /\ BinaryForm(p)[1] = "v2"
         /\ Decimal(p.attempts) # "v2"
<1> DEFINE a == <<Decimal(p.attempts), NewLine>>
           b == <<"v2", Decimal(p.attempts), Decimal(Counted(p))>>
           s == Joined(Lines(p.headers), p.body)
           t == Joined(Fields(p.headers), Field(p.body))
<1>1. /\ Proper(p.headers) /\ p.body \in Seq(Glyphs) /\ Field(p.body) \in Seq(Glyphs)
      /\ p.attempts \in 0 .. MaxMessage /\ Counted(p) \in 0 .. MaxMessage
  BY SoundTyped
<1>2. Decimal(p.attempts) \in Glyphs /\ Decimal(Counted(p)) \in Glyphs /\ NewLine \in Glyphs /\ "v2" \in Glyphs
  BY <1>1, GlyphsContain
<1>3. a \in Seq(Glyphs) /\ b \in Seq(Glyphs) /\ Len(a) = 2 /\ Len(b) = 3
      /\ a[1] = Decimal(p.attempts) /\ b[1] = "v2"
  BY <1>2
<1>4. s \in Seq(Glyphs)
  BY <1>1, LinesJoined
<1>5. t \in Seq(Glyphs)
  BY <1>1, FieldsJoined
<1>6. LineForm(p) = a \o s /\ BinaryForm(p) = b \o t
  BY DEF LineForm, Lines, BinaryForm, Fields, Counted
<1>7. /\ ByLines(p) => Fingerprint(p) = LineForm(p)
      /\ ~ ByLines(p) => Fingerprint(p) = BinaryForm(p)
  BY DEF Fingerprint, ByLines
<1>8. Decimal(p.attempts) # "v2"
  BY <1>1, RequestAssumption
<1> HIDE DEF a, b, s, t
<1>9. a \o s \in Seq(Glyphs) /\ (a \o s)[1] = a[1]
  <2>1. Len(s) \in Nat
    BY <1>4, LenProperties
  <2>2. 1 \in 1 .. Len(a) + Len(s) /\ 1 <= Len(a)
    BY <1>3, <2>1
  <2> QED BY <1>3, <1>4, <2>2, ConcatProperties
<1>10. b \o t \in Seq(Glyphs) /\ (b \o t)[1] = b[1]
  <2>1. Len(t) \in Nat
    BY <1>5, LenProperties
  <2>2. 1 \in 1 .. Len(b) + Len(t) /\ 1 <= Len(b)
    BY <1>3, <2>1
  <2> QED BY <1>3, <1>5, <2>2, ConcatProperties
<1> QED BY <1>3, <1>6, <1>7, <1>8, <1>9, <1>10

(* The fingerprint of delivery.go tells any two normalized requests apart. *)
THEOREM FingerprintTells ==
  ASSUME NEW r, NEW q, Sound(r), Sound(q), Fingerprint(r) = Fingerprint(q)
  PROVE  r = q
<1>1. CASE ByLines(r) /\ ByLines(q)
  BY FormsTyped, <1>1, LineFormTells
<1>2. CASE ~ ByLines(r) /\ ~ ByLines(q)
  BY FormsTyped, <1>2, BinaryFormTells
<1>3. CASE ByLines(r) /\ ~ ByLines(q)
  BY FormsTyped, <1>3
<1>4. CASE ~ ByLines(r) /\ ByLines(q)
  BY FormsTyped, <1>4
<1> QED BY <1>1, <1>2, <1>3, <1>4

-----------------------------------------------------------------------------
(* Bodies of JSON, and the journal.                                        *)

(* A body of JSON has a value.                                             *)
LEMMA ValueTyped ==
  ASSUME NEW b, IsJSON(b)
  PROVE  ValueOf(b) \in Texts /\ Tidied(b) = <<Tidy(ValueOf(b))>>
<1>1. \E t \in Texts : \E i \in DOMAIN b : b[i] = t
  BY DEF IsJSON
<1> QED BY <1>1 DEF ValueOf, Tidied

(* A text alone is a body of JSON.                                         *)
LEMMA TextAlone ==
  ASSUME NEW t \in Texts
  PROVE  /\ IsJSON(<<t>>) /\ <<t>> # <<>> /\ <<t>> \in Seq(Pieces)
         /\ Tidy(t) \in Texts /\ Tidied(<<t>>) = <<Tidy(t)>>
<1>1. DOMAIN <<t>> = {1} /\ <<t>>[1] = t
  OBVIOUS
<1>2. IsJSON(<<t>>)
  BY <1>1 DEF IsJSON
<1>3. ValueOf(<<t>>) = t
  BY <1>1 DEF ValueOf
<1>4. <<t>> \in Seq(Pieces)
  BY DEF Pieces
<1> QED BY <1>2, <1>3, <1>4, RequestAssumption DEF Tidied

(* An empty body is not JSON.                                              *)
LEMMA EmptyNoJSON == ~ IsJSON(<<>>)
<1>1. DOMAIN <<>> = {}
  OBVIOUS
<1> QED BY <1>1 DEF IsJSON

(* The journal keeps a body, a text of JSON as its tidy one, and what was  *)
(* read from it is written as it was.                                      *)
LEMMA BodySurvives ==
  ASSUME NEW b \in Seq(Pieces)
  PROVE  /\ Marshaled(b) \in Encoded
         /\ Unmarshaled(Marshaled(b)) \in Seq(Pieces)
         /\ Tidied(Unmarshaled(Marshaled(b))) = Tidied(b)
         /\ Marshaled(Unmarshaled(Marshaled(b))) = Marshaled(b)
<1>1. CASE IsJSON(b)
  <2> DEFINE t == Tidy(ValueOf(b))
  <2>1. t \in Texts /\ Tidied(b) = <<t>> /\ Tidy(t) = t
    BY <1>1, ValueTyped, RequestAssumption
  <2>2. Marshaled(b) = [body |-> <<t>>, base64 |-> <<>>]
    BY <1>1, <2>1 DEF Marshaled
  <2> HIDE DEF t
  <2>3. IsJSON(<<t>>) /\ <<t>> \in Seq(Pieces) /\ Tidied(<<t>>) = <<t>>
    BY <2>1, TextAlone
  <2>4. Unmarshaled(Marshaled(b)) = <<t>>
    BY <2>2 DEF Unmarshaled
  <2>5. Marshaled(<<t>>) = [body |-> <<t>>, base64 |-> <<>>]
    BY <2>3 DEF Marshaled
  <2>6. <<>> \in Seq(Pieces)
    OBVIOUS
  <2>7. Marshaled(b) \in Encoded
    BY <2>2, <2>3, <2>6 DEF Encoded
  <2> QED BY <2>1, <2>2, <2>3, <2>4, <2>5, <2>7
<1>2. CASE ~ IsJSON(b)
  <2>1. Marshaled(b) = [body |-> <<>>, base64 |-> b]
    BY <1>2 DEF Marshaled
  <2>2. Unmarshaled(Marshaled(b)) = b
    BY <2>1 DEF Unmarshaled
  <2>3. <<>> \in Seq(Pieces)
    OBVIOUS
  <2>4. Marshaled(b) \in Encoded
    BY <2>1, <2>3 DEF Encoded
  <2> QED BY <2>2, <2>4
<1> QED BY <1>1, <1>2

(* Bodies that are tidied to the same are alike to send.                   *)
LEMMA TidiedAlike ==
  ASSUME NEW v \in Seq(Pieces), NEW w \in Seq(Pieces), Tidied(v) = Tidied(w)
  PROVE  (IsJSON(v) <=> IsJSON(w)) /\ (v = <<>> <=> w = <<>>)
<1>1. ASSUME NEW x \in Seq(Pieces), NEW y \in Seq(Pieces), Tidied(x) = Tidied(y), IsJSON(x)
      PROVE  IsJSON(y)
  <2> SUFFICES ASSUME ~ IsJSON(y) PROVE FALSE
    OBVIOUS
  <2> DEFINE t == Tidy(ValueOf(x))
  <2>1. t \in Texts /\ Tidied(x) = <<t>>
    BY <1>1, ValueTyped, RequestAssumption
  <2>2. y = <<t>>
    BY <1>1, <2>1 DEF Tidied
  <2> HIDE DEF t
  <2> QED BY <2>1, <2>2, TextAlone
<1>2. IsJSON(v) <=> IsJSON(w)
  BY <1>1
<1>3. v = <<>> <=> w = <<>>
  <2>1. CASE IsJSON(v)
    BY <1>2, <2>1, EmptyNoJSON
  <2>2. CASE ~ IsJSON(v)
    BY <1>2, <2>2 DEF Tidied
  <2> QED BY <2>1, <2>2
<1> QED BY <1>2, <1>3

-----------------------------------------------------------------------------
(* Submissions and the requests they become.                               *)

(* The canonical form of headers fits, and has no newline more.            *)
LEMMA CanonicalFitting ==
  ASSUME NEW h, Fitting(h)
  PROVE  /\ Fitting(CanonicalHeaders(h))
         /\ ~ HeaderWithNewLine(h) => ~ HeaderWithNewLine(CanonicalHeaders(h))
<1>1. PICK names \in SUBSET ToSet(Names) :
        /\ h \in [names -> Seq(Pieces)] /\ Cardinality(names) <= MaxMessage
        /\ \A n \in names : Size(h[n]) <= MaxMessage
  BY DEF Fitting
<1> DEFINE D == {Canonical(n) : n \in names}
           at == [c \in D |-> CHOOSE n \in names : Canonical(n) = c]
           g == CanonicalHeaders(h)
<1>2. D \in SUBSET ToSet(Names)
  BY RequestAssumption
<1>3. \A c \in D : at[c] \in names
  OBVIOUS
<1>4. DOMAIN h = names
  BY <1>1
<1>5. g = [c \in D |-> h[at[c]]]
  BY <1>4 DEF CanonicalHeaders
<1> HIDE DEF at, D, g
<1>6. g \in [D -> Seq(Pieces)] /\ \A c \in D : Size(g[c]) <= MaxMessage
  BY <1>1, <1>3, <1>5
<1>7. Cardinality(D) <= MaxMessage
  <2> DEFINE m == [n \in names |-> Canonical(n)]
  <2>1. IsFiniteSet(names)
    BY NamesFinite, FS_Subset
  <2>2. m \in Surjection(names, D)
    BY DEF Surjection, D
  <2> HIDE DEF m
  <2>3. Cardinality(D) <= Cardinality(names) /\ IsFiniteSet(D)
    BY <2>1, <2>2, FS_Surjection
  <2>4. Cardinality(D) \in Nat /\ Cardinality(names) \in Nat /\ MaxMessage \in Nat
    BY <2>1, <2>3, FS_CardinalityType, RequestAssumption
  <2> QED BY <1>1, <2>3, <2>4
<1>8. Fitting(g)
  BY <1>2, <1>6, <1>7 DEF Fitting
<1>9. ~ HeaderWithNewLine(h) => ~ HeaderWithNewLine(g)
  BY <1>3, <1>4, <1>5 DEF HeaderWithNewLine
<1> QED BY <1>8, <1>9 DEF g

(* Without newlines they are as normalize leaves them.                     *)
LEMMA FittingProper ==
  ASSUME NEW h, Fitting(h), ~ HeaderWithNewLine(h)
  PROVE  Proper(h)
<1>1. PICK names \in SUBSET ToSet(Names) :
        /\ h \in [names -> Seq(Pieces)] /\ Cardinality(names) <= MaxMessage
        /\ \A n \in names : Size(h[n]) <= MaxMessage
  BY DEF Fitting
<1>2. ASSUME NEW n \in names
      PROVE  \A i \in 1 .. Len(h[n]) : h[n][i] # NewLine
  <2>1. NewLine \notin ToSet(h[n])
    BY <1>1 DEF HeaderWithNewLine
  <2>2. DOMAIN h[n] = 1 .. Len(h[n])
    BY <1>1, LenProperties
  <2> QED BY <2>1, <2>2 DEF ToSet
<1> QED BY <1>1, <1>2 DEF Proper
=============================================================================
