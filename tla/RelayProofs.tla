---------------------------- MODULE RelayProofs -----------------------------
(***************************************************************************)
(* Proofs about Relay, for any clients and submissions, any addresses and  *)
(* redirects, any delays and widths of durations: RelayInv is inductive,   *)
(* ReachInv is beside it, and every safety property of the module follows. *)
(***************************************************************************)
EXTENDS Relay, RequestProofs

(* What is sent, as create decodes it.                                     *)
LEMMA MessageTyped ==
  ASSUME NEW s \in Submissions
  PROVE  /\ Message(s).body \in Seq(Pieces) /\ Message(s).base64 \in Seq(Pieces)
         /\ Fitting(Message(s).headers) /\ Message(s).attempts \in Nat
<1>1. PICK names \in SUBSET ToSet(Names) : s \in Asked(names) /\ Fitting(s.headers)
  BY RelayAssumption
<1>2. /\ s.body \in Seq(Pieces) /\ s.headers \in [names -> Seq(Pieces)] /\ s.attempts \in Nat
      /\ s.way \in Ways
  BY <1>1 DEF Asked
<1>3. Fitting(s.headers)
  BY <1>1
<1>4. Fitting(CanonicalHeaders(s.headers))
  BY <1>3, CanonicalFitting
<1>5. Tidied(s.body) \in Seq(Pieces)
  <2>1. CASE IsJSON(s.body)
    <3>1. Tidy(ValueOf(s.body)) \in Texts
      BY <2>1, ValueTyped, RequestAssumption
    <3> QED BY <2>1, <3>1, TextAlone, ValueTyped
  <2>2. CASE ~ IsJSON(s.body)
    BY <1>2, <2>2 DEF Tidied
  <2> QED BY <2>1, <2>2
<1>6. <<>> \in Seq(Pieces)
  OBVIOUS
<1>7. Message(s).body \in Seq(Pieces)
  BY <1>2, <1>5, <1>6 DEF Message
<1>8. Message(s).base64 \in Seq(Pieces)
  BY <1>2, <1>6 DEF Message
<1>9. Fitting(Message(s).headers)
  BY <1>3, <1>4 DEF Message
<1>10. Message(s).attempts \in Nat
  BY <1>2 DEF Message
<1> QED BY <1>7, <1>8, <1>9, <1>10

(* What create accepts is sound once it is normalized.                     *)
LEMMA RequestSound ==
  ASSUME NEW s \in Submissions, ~ Undecodable(Message(s)), ~ Invalid(Received(Message(s)))
  PROVE  Sound(Normalized(Received(Message(s))))
<1> DEFINE m == Message(s)
           r == Received(m)
           q == Normalized(r)
<1>1. /\ m.body \in Seq(Pieces) /\ m.base64 \in Seq(Pieces)
      /\ Fitting(m.headers) /\ m.attempts \in Nat
  BY MessageTyped
<1>2. m.body = <<>> \/ IsJSON(m.body)
  BY DEF Undecodable
<1> HIDE DEF m
<1>3. r.headers = m.headers /\ r.attempts = m.attempts
      /\ r.body = IF m.body = <<>> THEN m.base64 ELSE <<ValueOf(m.body)>>
  BY DEF Received
<1>4. r.body \in Seq(Pieces)
  <2>1. CASE m.body = <<>>
    BY <1>1, <1>3, <2>1
  <2>2. CASE m.body # <<>>
    <3>1. ValueOf(m.body) \in Texts
      BY <1>2, <2>2, ValueTyped
    <3> QED BY <1>3, <2>2, <3>1, TextAlone
  <2> QED BY <2>1, <2>2
<1>5. /\ ~ HeaderWithNewLine(r.headers) /\ ~ (Size(r.body) > MaxBody)
      /\ ~ (r.attempts > MaxAttempts)
  BY DEF Invalid, m
<1> HIDE DEF r
<1>6. q.body = r.body /\ q.headers = CanonicalHeaders(r.headers)
      /\ q.attempts = IF r.attempts = 0 THEN DefaultAttempts ELSE r.attempts
  BY DEF Normalized
<1>7. q.attempts \in 1 .. MaxAttempts
  <2>1. DefaultAttempts \in 1 .. MaxAttempts /\ MaxAttempts \in Nat /\ r.attempts \in Nat
    BY <1>1, <1>3, RequestAssumption
  <2> QED BY <1>5, <1>6, <2>1
<1>8. Fitting(q.headers) /\ ~ HeaderWithNewLine(q.headers)
  BY <1>1, <1>3, <1>5, <1>6, CanonicalFitting
<1>9. Proper(q.headers)
  BY <1>8, FittingProper
<1>10. Size(q.body) <= MaxBody
  <2>1. PICK f \in [0 .. Len(r.body) -> Nat] : Size(r.body) = f[Len(r.body)]
    BY <1>4, SizeSums
  <2>2. Len(r.body) \in 0 .. Len(r.body)
    BY <1>4, LenProperties
  <2>3. Size(r.body) \in Nat /\ MaxBody \in Nat
    BY <2>1, <2>2, RequestAssumption
  <2> QED BY <1>5, <1>6, <2>3
<1>11. PICK names \in SUBSET ToSet(Names) : q.headers \in [names -> Seq(Pieces)]
  BY <1>8 DEF Fitting
<1>12. q = [body |-> q.body, headers |-> q.headers, attempts |-> q.attempts]
  BY DEF Normalized
<1> HIDE DEF q
<1>13. q \in Requests(names)
  BY <1>4, <1>6, <1>7, <1>11, <1>12 DEF Requests
<1> QED BY <1>9, <1>10, <1>13 DEF Sound, q, r, m

-----------------------------------------------------------------------------
(* Backoff.                                                                *)

(* TwoTo, a recursive function, has the powers of two.                     *)
LEMMA TwoToDoubles ==
  /\ TwoTo[0] = 1 /\ \A n \in Nat : TwoTo[n] \in Nat /\ TwoTo[n + 1] = 2 * TwoTo[n]
<1> DEFINE g == [n \in Nat |-> [x \in Nat |-> 2 * x]]
<1>1. g \in [Nat -> [Nat -> Nat]]
  OBVIOUS
<1>2. PICK f \in [Nat -> Nat] : \A n \in Nat : Steps(f, n, 1, g)
  <2> HIDE DEF g
  <2> QED BY <1>1, EndlessSteps
<1>3. f[0] = 1 /\ \A n \in Nat : n # 0 => f[n] = 2 * f[n - 1]
  <2>1. f[0] = 1
    BY <1>2 DEF Steps
  <2>2. ASSUME NEW n \in Nat, n # 0
        PROVE  f[n] = 2 * f[n - 1]
    <3>1. n \in 1 .. n /\ n - 1 \in Nat
      BY <2>2
    <3>2. f[n] = g[n][f[n - 1]]
      BY <1>2, <3>1 DEF Steps
    <3> QED BY <3>1, <3>2
  <2> QED BY <2>1, <2>2
<1>4. f = [n \in Nat |-> IF n = 0 THEN 1 ELSE 2 * f[n - 1]]
  BY <1>3
<1>5. TwoTo = [n \in Nat |-> IF n = 0 THEN 1 ELSE 2 * TwoTo[n - 1]]
  BY <1>4 DEF TwoTo
<1>6. TwoTo[0] = 1 /\ \A n \in Nat : TwoTo[n + 1] = 2 * TwoTo[n]
  <2>1. TwoTo[0] = 1
    BY <1>5
  <2>2. ASSUME NEW n \in Nat
        PROVE  TwoTo[n + 1] = 2 * TwoTo[n]
    <3>1. n + 1 \in Nat /\ n + 1 # 0 /\ (n + 1) - 1 = n
      OBVIOUS
    <3> QED BY <1>5, <3>1
  <2> QED BY <2>1, <2>2
<1> DEFINE T == {n \in Nat : TwoTo[n] \in Nat}
<1>7. 0 \in T
  BY <1>6
<1>8. ASSUME NEW n \in Nat, n \in T
      PROVE  n + 1 \in T
  BY <1>6, <1>8
<1> HIDE DEF T
<1>9. Nat \subseteq T
  BY <1>7, <1>8, Induction
<1> QED BY <1>6, <1>9 DEF T

(* A number below the largest is as it is in the bits of a duration.       *)
LEMMA WrappedSame ==
  ASSUME NEW n \in Nat, n < TwoTo[DurationBits - 1]
  PROVE  Wrapped(n) = n
<1> DEFINE h == TwoTo[DurationBits - 1]
           w == TwoTo[DurationBits]
<1>1. DurationBits - 1 \in Nat /\ (DurationBits - 1) + 1 = DurationBits
  BY AttemptAssumption
<1>2. h \in Nat /\ w = 2 * h
  BY <1>1, TwoToDoubles
<1>3. Wrapped(n) = ((n + h) % w) - h
  BY DEF Wrapped
<1>4. n < h
  OBVIOUS
<1> HIDE DEF h, w
<1>5. (n + h) % w = n + h
  <2>1. n + h \in Nat /\ n + h < w /\ w > 0
    BY <1>2, <1>4
  <2> QED BY <1>2, <2>1
<1> QED BY <1>2, <1>3, <1>5

(* A round of the loop yields a number, whatever overflows.                *)
LEMMA DoubledTyped ==
  ASSUME NEW wait \in Int, NEW max \in Nat \ {0}
  PROVE  Doubled(wait, max) \in Int
<1>1. DurationBits \in Nat /\ DurationBits - 1 \in Nat /\ (DurationBits - 1) + 1 = DurationBits
  BY AttemptAssumption
<1>2. TwoTo[DurationBits] \in Nat /\ TwoTo[DurationBits - 1] \in Nat /\ TwoTo[DurationBits] # 0
  <2> DEFINE T == {n \in Nat : TwoTo[n] # 0}
  <2>1. 0 \in T
    BY TwoToDoubles
  <2>2. ASSUME NEW n \in Nat, n \in T
        PROVE  n + 1 \in T
    BY <2>2, TwoToDoubles
  <2> HIDE DEF T
  <2>3. Nat \subseteq T
    BY <2>1, <2>2, Induction
  <2> QED BY <1>1, <2>3, TwoToDoubles DEF T
<1>3. ASSUME NEW w \in Nat, NEW h \in Nat, w # 0
      PROVE  ((2 * wait + h) % w) - h \in Int
  <2>1. 2 * wait + h \in Int
    OBVIOUS
  <2>2. (2 * wait + h) % w \in Int
    BY <1>3, <2>1
  <2> QED BY <2>2
<1>4. Wrapped(2 * wait) \in Int
  BY <1>2, <1>3 DEF Wrapped
<1> QED BY <1>4 DEF Doubled

(* One round of the loop, next to doubling without a limit.                *)
LEMMA DoubledDoubles ==
  ASSUME NEW wait \in Nat, NEW plain \in Nat, NEW max \in Nat, max < TwoTo[DurationBits - 1],
         Least(wait, max) = Least(plain, max)
  PROVE  /\ Doubled(wait, max) \in Nat
         /\ Least(Doubled(wait, max), max) = Least(2 * plain, max)
<1>1. CASE wait >= max
  BY <1>1 DEF Doubled, Least
<1>2. CASE wait < max /\ wait > max \div 2
  <2>1. plain = wait
    BY <1>2 DEF Least
  <2>2. 2 * wait >= max
    BY <1>2
  <2>3. Doubled(wait, max) = max
    BY <1>2 DEF Doubled
  <2> QED BY <2>1, <2>2, <2>3 DEF Least
<1>3. CASE wait < max /\ ~ (wait > max \div 2)
  <2>1. plain = wait
    BY <1>3 DEF Least
  <2>2. 2 * wait <= max
    BY <1>3
  <2>3. 2 * wait \in Nat /\ 2 * wait < TwoTo[DurationBits - 1]
    <3>1. TwoTo[DurationBits - 1] \in Nat
      BY TwoToDoubles, AttemptAssumption
    <3> QED BY <2>2, <3>1
  <2>4. Wrapped(2 * wait) = 2 * wait
    BY <2>3, WrappedSame
  <2>5. Doubled(wait, max) = 2 * wait
    BY <1>3, <2>4 DEF Doubled
  <2> QED BY <2>1, <2>3, <2>5
<1> QED BY <1>1, <1>2, <1>3

(* Backoff doubles the base with every attempt but the first, up to the    *)
(* maximum, and is off by a fifth at most.                                 *)
LEMMA BackoffDoubles ==
  ASSUME NEW d \in Delays, NEW attempt \in Nat \ {0}, NEW jitter \in Jitters
  PROVE  LET plain == Least(d.max, d.base * TwoTo[attempt - 1])
         IN  /\ Backoff(d, attempt, jitter) \in Nat
             /\ (plain * 8) \div 10 <= Backoff(d, attempt, jitter)
             /\ Backoff(d, attempt, jitter) <= (plain * 12) \div 10
             /\ Backoff(d, attempt, jitter) <= d.max
<1> DEFINE base == d.base
           max == d.max
           g == [i \in Nat |-> [x \in Int |-> Doubled(x, max)]]
           wait == CHOOSE wait : wait = [n \in 1 .. attempt |->
                                             IF n = 1 THEN base ELSE Doubled(wait[n - 1], max)]
           spread(m) == Least(max, (m * (800 + jitter)) \div 1000)
<1>1. /\ base \in Nat \ {0} /\ max \in Nat \ {0} /\ max < TwoTo[DurationBits - 1]
      /\ jitter \in 0 .. 400
  <2>1. d.base \in Nat \ {0} /\ d.max \in Nat \ {0} /\ 6 * d.max < 5 * TwoTo[DurationBits - 1]
    BY AttemptAssumption
  <2>2. TwoTo[DurationBits - 1] \in Nat
    BY TwoToDoubles, AttemptAssumption
  <2>3. jitter \in 0 .. 400
    BY AttemptAssumption
  <2> QED BY <2>1, <2>2, <2>3
<1>2. Backoff(d, attempt, jitter) = spread(Least(wait[attempt], max))
  BY DEF Backoff
<1> HIDE DEF base, max
<1>3. wait = [n \in 1 .. attempt |-> IF n = 1 THEN base ELSE Doubled(wait[n - 1], max)]
  <2>1. g \in [Nat -> [Int -> Int]]
    BY <1>1, DoubledTyped
  <2>2. PICK f \in [0 .. (attempt - 1) -> Int] : Steps(f, attempt - 1, base, g)
    <3>1. base \in Int /\ attempt - 1 \in Nat
      BY <1>1
    <3> HIDE DEF g
    <3> QED BY <2>1, <3>1, StepsDefine
  <2> DEFINE e == [n \in 1 .. attempt |-> f[n - 1]]
  <2>3. ASSUME NEW n \in 1 .. attempt
        PROVE  e[n] = IF n = 1 THEN base ELSE Doubled(e[n - 1], max)
    <3>1. CASE n = 1
      BY <2>2, <3>1 DEF Steps
    <3>2. CASE n # 1
      <4>1. n - 1 \in 1 .. (attempt - 1) /\ n - 1 \in 1 .. attempt /\ (n - 1) - 1 \in 0 .. (attempt - 1)
            /\ n - 1 \in Nat
        BY <3>2
      <4>2. f[n - 1] = g[n - 1][f[(n - 1) - 1]]
        BY <2>2, <4>1 DEF Steps
      <4>3. f[(n - 1) - 1] \in Int
        BY <2>2, <4>1
      <4>4. f[n - 1] = Doubled(f[(n - 1) - 1], max)
        BY <4>1, <4>2, <4>3
      <4> QED BY <3>2, <4>1, <4>4
    <3> QED BY <3>1, <3>2
  <2>4. e = [n \in 1 .. attempt |-> IF n = 1 THEN base ELSE Doubled(e[n - 1], max)]
    BY <2>3
  <2> HIDE DEF e
  <2> QED BY <2>4
<1> HIDE DEF wait
<1> DEFINE plain(n) == base * TwoTo[n]
           T == {n \in Nat : n + 1 <= attempt =>
                   wait[n + 1] \in Nat /\ Least(wait[n + 1], max) = Least(plain(n), max)}
<1>4. \A n \in Nat : plain(n) \in Nat /\ plain(n + 1) = 2 * plain(n)
  <2>1. ASSUME NEW n \in Nat
        PROVE  plain(n) \in Nat /\ plain(n + 1) = 2 * plain(n)
    <3>1. TwoTo[n] \in Nat /\ TwoTo[n + 1] = 2 * TwoTo[n]
      BY TwoToDoubles
    <3> QED BY <1>1, <3>1
  <2> QED BY <2>1
<1>5. plain(0) = base
  BY <1>1, TwoToDoubles
<1> HIDE DEF plain
<1>6. 0 \in T
  <2>1. 1 \in 1 .. attempt /\ 0 + 1 = 1
    OBVIOUS
  <2>2. wait[1] = base
    BY <1>3, <2>1
  <2> QED BY <1>1, <1>5, <2>1, <2>2
<1>7. ASSUME NEW n \in Nat, n \in T
      PROVE  n + 1 \in T
  <2> SUFFICES ASSUME (n + 1) + 1 <= attempt
               PROVE  /\ wait[(n + 1) + 1] \in Nat
                      /\ Least(wait[(n + 1) + 1], max) = Least(plain(n + 1), max)
    OBVIOUS
  <2>1. (n + 1) + 1 \in 1 .. attempt /\ (n + 1) + 1 # 1 /\ ((n + 1) + 1) - 1 = n + 1 /\ n + 1 <= attempt
    OBVIOUS
  <2>2. wait[(n + 1) + 1] = Doubled(wait[n + 1], max)
    BY <1>3, <2>1
  <2>3. wait[n + 1] \in Nat /\ Least(wait[n + 1], max) = Least(plain(n), max)
    BY <1>7, <2>1
  <2>4. Doubled(wait[n + 1], max) \in Nat /\ Least(Doubled(wait[n + 1], max), max) = Least(2 * plain(n), max)
    <3> DEFINE x == wait[n + 1]
               p == plain(n)
    <3>1. x \in Nat /\ p \in Nat /\ max \in Nat /\ Least(x, max) = Least(p, max)
      BY <1>1, <1>4, <2>3
    <3> HIDE DEF x, p
    <3>2. Doubled(x, max) \in Nat /\ Least(Doubled(x, max), max) = Least(2 * p, max)
      BY <1>1, <3>1, DoubledDoubles
    <3> QED BY <3>2 DEF x, p
  <2>5. plain(n + 1) = 2 * plain(n)
    BY <1>4
  <2> QED BY <2>2, <2>4, <2>5
<1> HIDE DEF T
<1>8. Nat \subseteq T
  BY <1>6, <1>7, Induction
<1> DEFINE m == Least(max, plain(attempt - 1))
<1>9. Least(wait[attempt], max) = m
  <2>1. attempt - 1 \in T /\ (attempt - 1) + 1 = attempt /\ (attempt - 1) + 1 <= attempt /\ attempt - 1 \in Nat
    BY <1>8
  <2>2. Least(wait[attempt], max) = Least(plain(attempt - 1), max)
    BY <2>1 DEF T
  <2>3. plain(attempt - 1) \in Nat
    BY <1>4, <2>1
  <2> QED BY <1>1, <2>2, <2>3 DEF Least
<1>10. m \in Nat /\ m <= max
  <2>1. plain(attempt - 1) \in Nat
    BY <1>4
  <2> QED BY <1>1, <2>1 DEF Least
<1> HIDE DEF m
<1>11. /\ (m * 8) \div 10 \in Nat /\ (m * 12) \div 10 \in Nat
       /\ (m * 8) \div 10 <= m
       /\ (m * (800 + jitter)) \div 1000 \in (m * 8) \div 10 .. (m * 12) \div 10
  <2> DEFINE a == m * (800 + jitter)
  <2>1. m * jitter \in Nat /\ m * jitter <= 400 * m /\ a = 800 * m + m * jitter
    <3>1. m * (400 - jitter) \in Nat /\ m * (400 - jitter) = 400 * m - m * jitter
      BY <1>1, <1>10
    <3>2. m * jitter \in Nat /\ a = 800 * m + m * jitter
      BY <1>1, <1>10
    <3> QED BY <1>10, <3>1, <3>2
  <2>2. a \in Nat /\ a >= 800 * m /\ a <= 1200 * m
    BY <1>10, <2>1
  <2> HIDE DEF a
  <2>3. (m * 8) \div 10 <= a \div 1000 /\ a \div 1000 \in Nat
    BY <1>10, <2>2
  <2>4. a \div 1000 <= (m * 12) \div 10
    BY <1>10, <2>2
  <2>5. (m * 8) \div 10 <= m /\ (m * 8) \div 10 \in Nat /\ (m * 12) \div 10 \in Nat
    BY <1>10
  <2> QED BY <2>3, <2>4, <2>5 DEF a
<1>12. /\ spread(m) \in Nat /\ spread(m) <= max
       /\ (m * 8) \div 10 <= spread(m) /\ spread(m) <= (m * 12) \div 10
  <2> DEFINE a == (m * (800 + jitter)) \div 1000
             b == (m * 8) \div 10
             c == (m * 12) \div 10
  <2>1. a \in Nat /\ b \in Nat /\ c \in Nat /\ b <= a /\ a <= c /\ b <= m
    BY <1>11
  <2>2. spread(m) = Least(max, a)
    OBVIOUS
  <2> HIDE DEF a, b, c, spread
  <2>3. spread(m) \in Nat /\ b <= spread(m) /\ spread(m) <= c /\ spread(m) <= max
    BY <1>1, <1>10, <2>1, <2>2 DEF Least
  <2> QED BY <2>3 DEF b, c
<1> HIDE DEF spread
<1> QED BY <1>2, <1>9, <1>12 DEF m, plain, base, max

-----------------------------------------------------------------------------
(* Every client that asked has a submission.                               *)
AsksOK ==
  /\ asks \in [Clients -> Submissions \union {Nothing}]
  /\ answer \in [Clients -> Told \union {"none", "waiting"}]
  /\ strays \subseteq Clients
  /\ \A c \in Clients : answer[c] # "none" \/ c \in strays => asks[c] \in Submissions /\ answer[c] # "none"

(* Memory and the journal hold the request that was first, or a tidied one.*)
Made(d, r) ==
  /\ \E names \in SUBSET ToSet(Names) : d \in Deliveries(names, Seq(Pieces))
  /\ d.headers = r.headers /\ d.limit = r.attempts /\ d.hash = Fingerprint(r)
  /\ Tidied(d.body) = Tidied(r.body)

StoredOK ==
  /\ item # Nothing <=> record # Nothing
  /\ item # Nothing <=> first # Nothing
  /\ item # Nothing =>
       Sound(first) /\ Made(item, first) /\ record = [item EXCEPT !.body = Marshaled(item.body)]

(* The worker holds what memory holds, and sends it.                       *)
WorkOK ==
  /\ claimed # Nothing <=> step # "none"
  /\ claimed # Nothing => claimed = item /\ item.status = "in_flight"
  /\ posted # Nothing =>
       claimed # Nothing /\ posted = [body |-> claimed.body, type |-> ContentType(claimed)]
  /\ delay # NoDelay =>
       /\ item # Nothing /\ item.attempts # 0
       /\ \E d \in Delays, j \in Jitters :
            delay = [base |-> d.base, max |-> d.max, length |-> Backoff(d, item.attempts, j)]
  /\ claimed # Nothing => item.attempts # 0

(* An attempt, and how far it is.                                          *)
AttemptOK ==
  /\ step \in {"none", "resolving", "dialing", "requesting", "ended"} /\ hop \in 0 .. Redirects
  /\ found \in Seq(Addresses) /\ next \in 1 .. (Len(found) + 1)
  /\ step # "dialing" => next = 1
  /\ \A i \in 1 .. (next - 1) : found[i] \in dialed \/ (found[i] \in Blocked /\ ~ allowPrivate)
  /\ peer # NoAddress <=> step = "requesting"
  /\ outcome.status \in {0} \union Statuses /\ outcome.error \in BOOLEAN
  /\ step = "ended" /\ outcome.status = 0 => outcome.error

RelayInv == AsksOK /\ StoredOK /\ WorkOK /\ AttemptOK /\ AnswersTrue /\ EndsForReason

-----------------------------------------------------------------------------
(* Attempts.                                                               *)

(* A hop, and the end of an attempt, leave nothing to dial.                *)
LEMMA DialOverKeeps ==
  ASSUME DialOver
  PROVE  /\ found' \in Seq(Addresses) /\ next' \in 1 .. (Len(found') + 1) /\ next' = 1
         /\ \A i \in 1 .. (next' - 1) : found'[i] \in dialed' \/ (found'[i] \in Blocked /\ ~ allowPrivate')
<1>1. found' = <<>> /\ next' = 1
  BY DEF DialOver
<1>2. <<>> \in Seq(Addresses) /\ Len(<<>>) = 0 /\ 1 .. (1 - 1) = {}
  OBVIOUS
<1> QED BY <1>1, <1>2

(* The end of an attempt has an outcome.                                   *)
LEMMA EndedKeeps ==
  ASSUME NEW status \in {0} \union Statuses, NEW error \in BOOLEAN, AttemptOK,
         status = 0 => error, Ended(status, error)
  PROVE  AttemptOK' /\ step' = "ended"
<1>1. /\ step' = "ended" /\ outcome' = [status |-> status, error |-> error]
      /\ DialOver /\ peer' = NoAddress /\ hop' = 0 /\ allowPrivate' = allowPrivate
  BY DEF Ended
<1>2. Redirects \in Nat /\ NoAddress \notin Blocked
  BY AttemptAssumption
<1>3. /\ found' \in Seq(Addresses) /\ next' \in 1 .. (Len(found') + 1) /\ next' = 1
      /\ \A i \in 1 .. (next' - 1) : found'[i] \in dialed' \/ (found'[i] \in Blocked /\ ~ allowPrivate')
  BY <1>1, DialOverKeeps
<1>4. outcome'.status = status /\ outcome'.error = error
  BY <1>1
<1>5. hop' \in 0 .. Redirects
  BY <1>1, <1>2
<1> QED BY <1>1, <1>2, <1>3, <1>4, <1>5 DEF AttemptOK

(* A hop begins with nothing dialed.                                       *)
LEMMA NewHopKeeps ==
  ASSUME NEW n \in 1 .. Redirects, AttemptOK, NewHop(n)
  PROVE  AttemptOK' /\ step' = "resolving"
<1>1. /\ step' = "resolving" /\ hop' = n /\ DialOver /\ peer' = NoAddress
      /\ allowPrivate' = allowPrivate /\ outcome' = outcome
  BY DEF NewHop
<1>2. Redirects \in Nat /\ NoAddress \notin Blocked
  BY AttemptAssumption
<1>3. /\ found' \in Seq(Addresses) /\ next' \in 1 .. (Len(found') + 1) /\ next' = 1
      /\ \A i \in 1 .. (next' - 1) : found'[i] \in dialed' \/ (found'[i] \in Blocked /\ ~ allowPrivate')
  BY <1>1, DialOverKeeps
<1>4. hop' \in 0 .. Redirects
  BY <1>1, <1>2
<1>5. outcome'.status \in {0} \union Statuses /\ outcome'.error \in BOOLEAN
  BY <1>1 DEF AttemptOK
<1> QED BY <1>1, <1>2, <1>3, <1>4, <1>5 DEF AttemptOK

(* An attempt begins with a hop.                                           *)
LEMMA BeginKeeps ==
  ASSUME AttemptOK, Begin
  PROVE  AttemptOK' /\ step' = "resolving" /\ step = "none"
<1>1. NewHop(1) /\ step = "none"
  BY DEF Begin
<1>2. 1 \in 1 .. Redirects
  BY AttemptAssumption
<1> QED BY <1>1, <1>2, NewHopKeeps

(* After an attempt there is none.                                         *)
LEMMA FinishKeeps ==
  ASSUME AttemptOK, Finish
  PROVE  AttemptOK' /\ step' = "none"
<1>1. /\ step' = "none" /\ hop' = 0 /\ DialOver /\ peer' = NoAddress
      /\ allowPrivate' = allowPrivate /\ outcome' = [status |-> 0, error |-> FALSE]
  BY DEF Finish, NoOutcome
<1>2. Redirects \in Nat /\ NoAddress \notin Blocked
  BY AttemptAssumption
<1>3. /\ found' \in Seq(Addresses) /\ next' \in 1 .. (Len(found') + 1) /\ next' = 1
      /\ \A i \in 1 .. (next' - 1) : found'[i] \in dialed' \/ (found'[i] \in Blocked /\ ~ allowPrivate')
  BY <1>1, DialOverKeeps
<1>4. hop' \in 0 .. Redirects
  BY <1>1, <1>2
<1>5. outcome'.status = 0 /\ outcome'.error = FALSE
  BY <1>1
<1> QED BY <1>1, <1>2, <1>3, <1>4, <1>5 DEF AttemptOK

(* A connection is to an address that is tried.                            *)
LEMMA ConnectKeeps ==
  ASSUME AttemptOK, Connect
  PROVE  AttemptOK' /\ step' = "requesting"
<1>1. /\ step = "dialing" /\ next <= Len(found) /\ Tries(found[next])
      /\ peer' = found[next] /\ step' = "requesting" /\ DialOver
      /\ allowPrivate' = allowPrivate /\ hop' = hop /\ outcome' = outcome
  BY DEF Connect
<1>2. /\ found' \in Seq(Addresses) /\ next' \in 1 .. (Len(found') + 1) /\ next' = 1
      /\ \A i \in 1 .. (next' - 1) : found'[i] \in dialed' \/ (found'[i] \in Blocked /\ ~ allowPrivate')
  BY <1>1, DialOverKeeps
<1>3. peer' \in Addresses
  <2>1. found \in Seq(Addresses) /\ next \in 1 .. (Len(found) + 1) /\ Len(found) \in Nat
    BY LenProperties DEF AttemptOK
  <2>2. next \in 1 .. Len(found)
    BY <1>1, <2>1
  <2> QED BY <1>1, <2>1, <2>2, ElementOfSeq
<1>4. peer' # NoAddress
  BY <1>3, AttemptAssumption
<1>5. hop' \in 0 .. Redirects /\ outcome'.status \in {0} \union Statuses /\ outcome'.error \in BOOLEAN
  BY <1>1 DEF AttemptOK
<1> QED BY <1>1, <1>2, <1>4, <1>5 DEF AttemptOK

(* The other steps of an attempt: an address is passed over when it was    *)
(* dialed in vain or may not be.                                           *)
LEMMA ProceedKeeps ==
  ASSUME AttemptOK, Proceed
  PROVE  AttemptOK' /\ step' # "none"
<1>1. CASE Resolve
  <2>1. /\ step = "resolving" /\ found' \in Resolutions /\ step' = "dialing"
        /\ allowPrivate' = allowPrivate /\ hop' = hop /\ next' = next /\ dialed' = dialed
        /\ peer' = peer /\ outcome' = outcome
    BY <1>1 DEF Resolve
  <2>2. next = 1 /\ 1 .. (1 - 1) = {}
    BY <2>1 DEF AttemptOK
  <2>3. found' \in Seq(Addresses) /\ Len(found') \in Nat
    BY <2>1, AttemptAssumption, LenProperties
  <2>4. next' \in 1 .. (Len(found') + 1)
    BY <2>1, <2>2, <2>3
  <2> QED BY <2>1, <2>2, <2>3, <2>4 DEF AttemptOK
<1>2. CASE Skip \/ DialFails
  <2>1. /\ step = "dialing" /\ next <= Len(found) /\ next' = next + 1
        /\ dialed \subseteq dialed'
        /\ found[next] \in dialed' \/ (found[next] \in Blocked /\ ~ allowPrivate)
        /\ allowPrivate' = allowPrivate /\ step' = step /\ hop' = hop /\ found' = found
        /\ peer' = peer /\ outcome' = outcome
    BY <1>2 DEF Skip, DialFails, Tries
  <2>2. found \in Seq(Addresses) /\ next \in 1 .. (Len(found) + 1) /\ Len(found) \in Nat
    BY LenProperties DEF AttemptOK
  <2>3. next' \in 1 .. (Len(found') + 1)
    BY <2>1, <2>2
  <2>4. ASSUME NEW i \in 1 .. (next' - 1)
        PROVE  found'[i] \in dialed' \/ (found'[i] \in Blocked /\ ~ allowPrivate')
    <3>1. i = next \/ i \in 1 .. (next - 1)
      BY <2>1, <2>2
    <3> QED BY <2>1, <3>1 DEF AttemptOK
  <2> QED BY <2>1, <2>2, <2>3, <2>4 DEF AttemptOK
<1>3. CASE DialGivesUp \/ RedirectRefused \/ Interrupted
  <2>1. Ended(0, TRUE)
    BY <1>3 DEF DialGivesUp, RedirectRefused, Interrupted
  <2> QED BY <2>1, EndedKeeps
<1>4. CASE Respond
  <2>1. PICK status \in Statuses, broken \in BOOLEAN : Ended(status, broken \/ status \notin 200 .. 299)
    BY <1>4 DEF Respond
  <2>2. status # 0
    BY AttemptAssumption
  <2> DEFINE error == broken \/ status \notin 200 .. 299
  <2>3. error \in BOOLEAN /\ Ended(status, error) /\ (status = 0 => error)
    BY <2>1, <2>2
  <2> HIDE DEF error
  <2> QED BY <2>3, EndedKeeps
<1>5. CASE Redirect
  <2>1. NewHop(hop + 1) /\ hop < Redirects
    BY <1>5 DEF Redirect
  <2>2. hop + 1 \in 1 .. Redirects
    BY <2>1, AttemptAssumption DEF AttemptOK
  <2> QED BY <2>1, <2>2, NewHopKeeps
<1> QED BY <1>1, <1>2, <1>3, <1>4, <1>5 DEF Proceed

-----------------------------------------------------------------------------
(* Clients.                                                                *)

(* A request at the daemon is of a submission; one it accepts is sound.    *)
LEMMA ArrivedSound ==
  ASSUME NEW c \in Clients, AsksOK, Arrives(c), Acceptable(c)
  PROVE  Sound(Normalized(RequestOf(c)))
<1>1. asks[c] \in Submissions
  BY DEF AsksOK, Arrives
<1>2. ~ Undecodable(Message(asks[c])) /\ ~ Invalid(Received(Message(asks[c])))
  BY DEF Acceptable, RequestOf
<1> QED BY <1>1, <1>2, RequestSound DEF RequestOf

(* An answer is the one told, or lost.                                     *)
LEMMA AnswersKeep ==
  ASSUME NEW c \in Clients, NEW told \in Told, NEW d, AsksOK, Arrives(c), Answers(c, told, d)
  PROVE  /\ AsksOK' /\ asks' = asks
         /\ \A b \in Clients : \/ answer'[b] \in {answer[b], "unknown"}
                               \/ (b = c /\ answer'[b] = told)
<1>1. PICK say \in {told, "unknown"} :
        /\ answer' = answer \/ answer' = [answer EXCEPT ![c] = say]
        /\ strays' = strays \/ strays' = strays \ {c}
  <2>1. CASE /\ answer[c] = "waiting"
             /\ answer' = [answer EXCEPT ![c] = IF d # Nothing /\ TooLong(c, d) THEN "unknown" ELSE told]
             /\ UNCHANGED strays
    <3>1. CASE d # Nothing /\ TooLong(c, d)
      BY <2>1, <3>1
    <3>2. CASE ~ (d # Nothing /\ TooLong(c, d))
      BY <2>1, <3>2
    <3> QED BY <3>1, <3>2
  <2>2. CASE answer' = [answer EXCEPT ![c] = "unknown"] /\ UNCHANGED strays
    BY <2>2
  <2>3. CASE strays' = strays \ {c} /\ UNCHANGED answer
    BY <2>3
  <2> QED BY <2>1, <2>2, <2>3 DEF Answers
<1>2. asks' = asks
  BY DEF Answers
<1>3. say \in Told
  BY DEF Told
<1>4. answer \in [Clients -> Told \union {"none", "waiting"}]
  BY DEF AsksOK
<1>5. /\ answer' \in [Clients -> Told \union {"none", "waiting"}]
      /\ \A b \in Clients : answer'[b] = answer[b] \/ (b = c /\ answer'[b] = say)
  <2>1. CASE answer' = answer
    BY <1>4, <2>1
  <2>2. CASE answer' = [answer EXCEPT ![c] = say]
    <3>1. say \in Told \union {"none", "waiting"}
      BY <1>3
    <3> QED BY <1>4, <2>2, <3>1
  <2> QED BY <1>1, <2>1, <2>2
<1>6. "none" \notin Told
  BY DEF Told
<1>7. answer[c] # "none"
  BY DEF AsksOK, Arrives
<1>8. \A b \in Clients : answer'[b] = "none" <=> answer[b] = "none"
  BY <1>3, <1>5, <1>6, <1>7
<1>9. AsksOK'
  BY <1>1, <1>2, <1>5, <1>8 DEF AsksOK
<1> QED BY <1>2, <1>5, <1>9

(* What is true of the first request stays true while it is the first.     *)
LEMMA TruthKept ==
  ASSUME AnswersTrue, NEW c \in Clients, asks'[c] = asks[c], first' = first,
         record # Nothing => record' # Nothing,
         answer'[c] \in {answer[c], "refused", "invalid", "waiting", "unknown"}
  PROVE  /\ answer'[c] \in {"queued", "existing"} =>
              record' # Nothing /\ first' = Normalized(RequestOf(c)')
         /\ answer'[c] = "conflict" =>
              record' # Nothing /\ first' # Normalized(RequestOf(c)')
<1>1. RequestOf(c)' = RequestOf(c)
  BY DEF RequestOf
<1>2. answer'[c] \in {"queued", "existing", "conflict"} => answer'[c] = answer[c]
  OBVIOUS
<1> QED BY <1>1, <1>2 DEF AnswersTrue

(* A client that asks, or asks again, is told nothing yet.                 *)
LEMMA AskKeeps ==
  ASSUME RelayInv, NEW c \in Clients, Ask(c)
  PROVE  RelayInv'
<1>1. /\ UNCHANGED <<strays, storeVars, workVars, attemptVars>>
      /\ \/ answer[c] = "none" /\ \E s \in Submissions : asks' = [asks EXCEPT ![c] = s]
         \/ answer[c] = "unknown" /\ asks' = asks
  BY DEF Ask
<1>2. PICK say \in {"refused", "waiting"} : answer' = [answer EXCEPT ![c] = say]
  BY DEF Ask
<1>3. AsksOK /\ StoredOK /\ WorkOK /\ AttemptOK /\ AnswersTrue /\ EndsForReason
  BY DEF RelayInv
<1>4. /\ asks \in [Clients -> Submissions \union {Nothing}]
      /\ answer \in [Clients -> Told \union {"none", "waiting"}]
  BY <1>3 DEF AsksOK
<1>5. /\ asks' \in [Clients -> Submissions \union {Nothing}] /\ asks'[c] \in Submissions
      /\ \A b \in Clients : b # c => asks'[b] = asks[b] /\ answer'[b] = answer[b]
      /\ answer' \in [Clients -> Told \union {"none", "waiting"}] /\ answer'[c] = say
  BY <1>1, <1>2, <1>3, <1>4 DEF AsksOK, Told
<1>6. AsksOK'
  <2>1. ASSUME NEW b \in Clients, answer'[b] # "none" \/ b \in strays'
        PROVE  asks'[b] \in Submissions /\ answer'[b] # "none"
    <3>1. CASE b = c
      BY <1>5, <3>1
    <3>2. CASE b # c
      BY <1>1, <1>3, <1>5, <2>1, <3>2 DEF AsksOK
    <3> QED BY <3>1, <3>2
  <2> QED BY <1>1, <1>3, <1>5, <2>1 DEF AsksOK
<1>7. item' = item /\ record' = record /\ first' = first
  BY <1>1 DEF storeVars
<1>8. AnswersTrue'
  <2>1. ASSUME NEW b \in Clients
        PROVE  /\ answer'[b] \in {"queued", "existing"} =>
                    record' # Nothing /\ first' = Normalized(RequestOf(b)')
               /\ answer'[b] = "conflict" =>
                    record' # Nothing /\ first' # Normalized(RequestOf(b)')
    <3>1. CASE b = c
      BY <1>5, <3>1
    <3>2. CASE b # c
      BY <1>3, <1>5, <1>7, <3>2, TruthKept
    <3> QED BY <3>1, <3>2
  <2> QED BY <2>1 DEF AnswersTrue
<1>9. StoredOK'
  BY <1>3, <1>7 DEF StoredOK
<1>10. WorkOK' /\ EndsForReason'
  BY <1>1, <1>3, <1>7 DEF WorkOK, EndsForReason, workVars, attemptVars
<1>11. AttemptOK'
  BY <1>1, <1>3 DEF AttemptOK, attemptVars, dialVars
<1> QED BY <1>6, <1>8, <1>9, <1>10, <1>11 DEF RelayInv

(* Nor is one that gives up.                                               *)
LEMMA GiveUpKeeps ==
  ASSUME RelayInv, NEW c \in Clients, GiveUp(c)
  PROVE  RelayInv'
<1>1. /\ asks' = asks /\ answer' = [answer EXCEPT ![c] = "unknown"] /\ answer[c] = "waiting"
      /\ strays' = strays \union {c} /\ UNCHANGED <<storeVars, workVars, attemptVars>>
  BY DEF GiveUp
<1>2. AsksOK /\ StoredOK /\ WorkOK /\ AttemptOK /\ AnswersTrue /\ EndsForReason
  BY DEF RelayInv
<1>3. answer \in [Clients -> Told \union {"none", "waiting"}]
  BY <1>2 DEF AsksOK
<1>4. /\ answer' \in [Clients -> Told \union {"none", "waiting"}] /\ answer'[c] = "unknown"
      /\ \A b \in Clients : b # c => answer'[b] = answer[b]
  BY <1>1, <1>3 DEF Told
<1>5. AsksOK'
  <2>1. ASSUME NEW b \in Clients, answer'[b] # "none" \/ b \in strays'
        PROVE  asks'[b] \in Submissions /\ answer'[b] # "none"
    <3>1. CASE b = c
      BY <1>1, <1>2, <1>4, <3>1 DEF AsksOK
    <3>2. CASE b # c
      BY <1>1, <1>2, <1>4, <2>1, <3>2 DEF AsksOK
    <3> QED BY <3>1, <3>2
  <2> QED BY <1>1, <1>2, <1>4, <2>1 DEF AsksOK
<1>6. item' = item /\ record' = record /\ first' = first
  BY <1>1 DEF storeVars
<1>7. AnswersTrue'
  <2>1. ASSUME NEW b \in Clients
        PROVE  /\ answer'[b] \in {"queued", "existing"} =>
                    record' # Nothing /\ first' = Normalized(RequestOf(b)')
               /\ answer'[b] = "conflict" =>
                    record' # Nothing /\ first' # Normalized(RequestOf(b)')
    <3>1. answer'[b] \in {answer[b], "unknown"} /\ asks'[b] = asks[b]
      BY <1>1, <1>4
    <3> QED BY <1>2, <1>6, <3>1, TruthKept
  <2> QED BY <2>1 DEF AnswersTrue
<1>8. StoredOK'
  BY <1>2, <1>6 DEF StoredOK
<1>9. WorkOK' /\ EndsForReason'
  BY <1>1, <1>2, <1>6 DEF WorkOK, EndsForReason, workVars, attemptVars
<1>10. AttemptOK'
  BY <1>1, <1>2 DEF AttemptOK, attemptVars, dialVars
<1> QED BY <1>5, <1>7, <1>8, <1>9, <1>10 DEF RelayInv

-----------------------------------------------------------------------------
(* The store.                                                              *)

(* A delivery made of a sound request, and its record, have their types.   *)
LEMMA MadeTyped ==
  ASSUME NEW d, NEW r, Sound(r), Made(d, r)
  PROVE  /\ d # Nothing /\ r # Nothing /\ [d EXCEPT !.body = Marshaled(d.body)] # Nothing
         /\ d.body \in Seq(Pieces) /\ r.body \in Seq(Pieces)
         /\ d.status \in {"pending", "in_flight", "succeeded", "failed"}
         /\ d.attempts \in 0 .. ClaimBound /\ d.limit \in 1 .. MaxAttempts
<1>1. PICK names \in SUBSET ToSet(Names) : d \in Deliveries(names, Seq(Pieces))
  BY DEF Made
<1>2. PICK others \in SUBSET ToSet(Names) : r \in Requests(others)
  BY DEF Sound
<1>3. d.body \in Seq(Pieces) /\ r.body \in Seq(Pieces)
  BY <1>1, <1>2 DEF Deliveries, Requests
<1>4. Marshaled(d.body) \in Encoded
  BY <1>3, BodySurvives
<1>5. [d EXCEPT !.body = Marshaled(d.body)] \in Deliveries(names, Encoded)
  BY <1>1, <1>4 DEF Deliveries
<1>6. d # Nothing
  BY <1>1, RelayAssumption
<1>7. r # Nothing
  BY <1>2, RelayAssumption
<1>8. [d EXCEPT !.body = Marshaled(d.body)] # Nothing
  BY <1>5, RelayAssumption
<1>9. /\ d.status \in {"pending", "in_flight", "succeeded", "failed"}
      /\ d.attempts \in 0 .. ClaimBound /\ d.limit \in 1 .. MaxAttempts
  BY <1>1 DEF Deliveries
<1> QED BY <1>3, <1>6, <1>7, <1>8, <1>9

(* What is written is of the same request.                                 *)
LEMMA WriteKeeps ==
  ASSUME NEW status \in {"pending", "in_flight", "succeeded", "failed"}, NEW n \in 0 .. ClaimBound,
         StoredOK, item # Nothing, Write([item EXCEPT !.status = status, !.attempts = n])
  PROVE  /\ StoredOK' /\ item' # Nothing /\ record' # Nothing /\ first' = first
         /\ item'.status = status /\ item'.attempts = n /\ item'.limit = item.limit
<1>1. /\ item' = [item EXCEPT !.status = status, !.attempts = n]
      /\ record' = [item' EXCEPT !.body = Marshaled(item'.body)]
      /\ first' = first
  BY DEF Write
<1>2. Sound(first) /\ Made(item, first) /\ first # Nothing
  BY DEF StoredOK
<1>3. PICK names \in SUBSET ToSet(Names) : item \in Deliveries(names, Seq(Pieces))
  BY <1>2 DEF Made
<1>4. item' \in Deliveries(names, Seq(Pieces))
  BY <1>1, <1>3 DEF Deliveries
<1>5. /\ item'.body = item.body /\ item'.headers = item.headers /\ item'.limit = item.limit
      /\ item'.hash = item.hash /\ item'.status = status /\ item'.attempts = n
  BY <1>1, <1>3 DEF Deliveries
<1>6. Made(item', first')
  BY <1>1, <1>2, <1>4, <1>5 DEF Made
<1>7. Sound(first')
  BY <1>1, <1>2
<1>8. item' # Nothing /\ record' # Nothing /\ first' # Nothing
  BY <1>1, <1>6, <1>7, MadeTyped
<1>9. StoredOK'
  BY <1>1, <1>6, <1>7, <1>8 DEF StoredOK
<1> QED BY <1>1, <1>5, <1>8, <1>9

(* What is replayed is too, and would be written as it was.                *)
LEMMA ReplayKeeps ==
  ASSUME StoredOK, record # Nothing, item' = Replayed(record), UNCHANGED <<record, first>>
  PROVE  /\ StoredOK' /\ item' # Nothing
         /\ item'.status = item.status /\ item'.attempts = item.attempts /\ item'.limit = item.limit
<1>1. /\ item # Nothing /\ Sound(first) /\ Made(item, first)
      /\ record = [item EXCEPT !.body = Marshaled(item.body)]
  BY DEF StoredOK
<1>2. PICK names \in SUBSET ToSet(Names) : item \in Deliveries(names, Seq(Pieces))
  BY <1>1 DEF Made
<1> DEFINE b == item.body
           u == Unmarshaled(Marshaled(b))
<1>3. /\ b \in Seq(Pieces) /\ u \in Seq(Pieces)
      /\ Tidied(u) = Tidied(b) /\ Marshaled(u) = Marshaled(b)
  BY <1>1, MadeTyped, BodySurvives
<1> HIDE DEF u
<1>4. record.body = Marshaled(b)
  BY <1>1, <1>2 DEF Deliveries
<1>5. item' = [record EXCEPT !.body = u]
  BY <1>4 DEF Replayed, u
<1>6. item' = [item EXCEPT !.body = u]
  BY <1>1, <1>2, <1>5 DEF Deliveries
<1>7. item' \in Deliveries(names, Seq(Pieces))
  BY <1>2, <1>3, <1>6 DEF Deliveries
<1>8. /\ item'.body = u /\ item'.headers = item.headers /\ item'.limit = item.limit
      /\ item'.hash = item.hash /\ item'.status = item.status /\ item'.attempts = item.attempts
  BY <1>2, <1>6 DEF Deliveries
<1>9. Made(item', first')
  BY <1>1, <1>3, <1>7, <1>8 DEF Made
<1>10. record' = [item' EXCEPT !.body = Marshaled(item'.body)]
  <2>1. record = [item EXCEPT !.body = Marshaled(u)]
    BY <1>1, <1>3
  <2>2. [item' EXCEPT !.body = Marshaled(u)] = [item EXCEPT !.body = Marshaled(u)]
    BY <1>2, <1>6 DEF Deliveries
  <2> QED BY <1>8, <2>1, <2>2
<1>11. Sound(first')
  BY <1>1
<1>12. item' # Nothing /\ record' # Nothing /\ first' # Nothing
  BY <1>9, <1>10, <1>11, MadeTyped
<1>13. StoredOK'
  BY <1>9, <1>10, <1>11, <1>12 DEF StoredOK
<1> QED BY <1>8, <1>12, <1>13

-----------------------------------------------------------------------------
(* create.                                                                 *)

(* An answer tells nothing untrue while the delivery stays.                *)
LEMMA AnsweredKeeps ==
  ASSUME RelayInv, NEW c \in Clients, NEW told \in Told, NEW d,
         Arrives(c), Answers(c, told, d), UNCHANGED storeVars,
         told \in {"queued", "existing"} => record # Nothing /\ first = Normalized(RequestOf(c)),
         told = "conflict" => record # Nothing /\ first # Normalized(RequestOf(c))
  PROVE  RelayInv'
<1>1. AsksOK /\ StoredOK /\ WorkOK /\ AttemptOK /\ AnswersTrue /\ EndsForReason
  BY DEF RelayInv
<1>2. /\ AsksOK' /\ asks' = asks
      /\ \A b \in Clients : answer'[b] \in {answer[b], "unknown"} \/ (b = c /\ answer'[b] = told)
  BY <1>1, AnswersKeep
<1>3. item' = item /\ record' = record /\ first' = first
  BY DEF storeVars
<1>4. UNCHANGED <<workVars, attemptVars>>
  BY DEF Answers
<1>5. AnswersTrue'
  <2>1. ASSUME NEW b \in Clients
        PROVE  /\ answer'[b] \in {"queued", "existing"} =>
                    record' # Nothing /\ first' = Normalized(RequestOf(b)')
               /\ answer'[b] = "conflict" =>
                    record' # Nothing /\ first' # Normalized(RequestOf(b)')
    <3>1. CASE answer'[b] \in {answer[b], "unknown"}
      BY <1>1, <1>2, <1>3, <3>1, TruthKept
    <3>2. CASE b = c /\ answer'[b] = told
      <4>1. RequestOf(c)' = RequestOf(c)
        BY <1>2 DEF RequestOf
      <4> QED BY <1>3, <3>2, <4>1
    <3> QED BY <1>2, <3>1, <3>2
  <2> QED BY <2>1 DEF AnswersTrue
<1>6. StoredOK'
  BY <1>1, <1>3 DEF StoredOK
<1>7. WorkOK' /\ EndsForReason'
  BY <1>1, <1>3, <1>4 DEF WorkOK, EndsForReason, workVars, attemptVars
<1>8. AttemptOK'
  BY <1>1, <1>4 DEF AttemptOK, attemptVars, dialVars
<1> QED BY <1>2, <1>5, <1>6, <1>7, <1>8 DEF RelayInv

(* A request refused leaves everything as it was.                          *)
LEMMA CreateRefusedKeeps ==
  ASSUME RelayInv, NEW c \in Clients, CreateRefused(c)
  PROVE  RelayInv'
<1>1. Arrives(c) /\ Answers(c, "invalid", Nothing) /\ UNCHANGED storeVars
  BY DEF CreateRefused
<1>2. "invalid" \in Told
  BY DEF Told
<1> QED BY <1>1, <1>2, AnsweredKeeps

(* A second request is answered by the fingerprint, which tells.           *)
LEMMA CreateAgainKeeps ==
  ASSUME RelayInv, NEW c \in Clients, CreateAgain(c)
  PROVE  RelayInv'
<1> DEFINE q == Normalized(RequestOf(c))
<1>1. Arrives(c) /\ Acceptable(c) /\ item # Nothing /\ UNCHANGED storeVars
  BY DEF CreateAgain
<1>2. AsksOK /\ StoredOK
  BY DEF RelayInv
<1>3. Sound(q)
  BY <1>1, <1>2, ArrivedSound
<1>4. record # Nothing /\ Sound(first) /\ item.hash = Fingerprint(first)
  BY <1>1, <1>2 DEF StoredOK, Made
<1>5. "existing" \in Told /\ "conflict" \in Told
  BY DEF Told
<1>6. CASE Fingerprint(q) = item.hash
  <2>1. Answers(c, "existing", item)
    BY <1>6 DEF CreateAgain
  <2>2. first = q
    <3> HIDE DEF q
    <3> QED BY <1>3, <1>4, <1>6, FingerprintTells
  <2> QED BY <1>1, <1>4, <1>5, <2>1, <2>2, AnsweredKeeps
<1>7. CASE Fingerprint(q) # item.hash
  <2>1. Answers(c, "conflict", Nothing)
    BY <1>7 DEF CreateAgain
  <2>2. first # q
    BY <1>4, <1>7
  <2> QED BY <1>1, <1>4, <1>5, <2>1, <2>2, AnsweredKeeps
<1> QED BY <1>6, <1>7

(* The first request makes the delivery.                                   *)
LEMMA CreateNewKeeps ==
  ASSUME RelayInv, NEW c \in Clients, CreateNew(c)
  PROVE  RelayInv'
<1> DEFINE r == Normalized(RequestOf(c))
           d == [body |-> r.body, headers |-> r.headers, limit |-> r.attempts,
                 hash |-> Fingerprint(r), status |-> "pending", attempts |-> 0]
<1>1. /\ Arrives(c) /\ Acceptable(c) /\ item = Nothing
      /\ item' = d /\ record' = [d EXCEPT !.body = Marshaled(d.body)] /\ first' = r
      /\ Answers(c, "queued", d)
  BY DEF CreateNew
<1>2. AsksOK /\ StoredOK /\ WorkOK /\ AttemptOK /\ AnswersTrue /\ EndsForReason
  BY DEF RelayInv
<1>3. Sound(r)
  BY <1>1, <1>2, ArrivedSound
<1>4. "queued" \in Told
  BY DEF Told
<1>5. /\ AsksOK' /\ asks' = asks
      /\ \A b \in Clients : answer'[b] \in {answer[b], "unknown"} \/ (b = c /\ answer'[b] = "queued")
  <2> HIDE DEF d
  <2> QED BY <1>1, <1>2, <1>4, AnswersKeep
<1>6. UNCHANGED <<workVars, attemptVars>>
  BY <1>1 DEF Answers
<1>7. record = Nothing /\ first = Nothing
  BY <1>1, <1>2 DEF StoredOK
<1>8. RequestOf(c)' = RequestOf(c)
  BY <1>5 DEF RequestOf
<1>9. Made(d, r)
  <2>1. PICK names \in SUBSET ToSet(Names) : r \in Requests(names)
    BY <1>3 DEF Sound
  <2>2. Fingerprint(r) \in Seq(Glyphs)
    <3> HIDE DEF r
    <3> QED BY <1>3, FormsTyped
  <2>3. ClaimBound \in Nat
    BY RelayAssumption
  <2> HIDE DEF r
  <2>4. d \in Deliveries(names, Seq(Pieces))
    BY <2>1, <2>2, <2>3 DEF Deliveries, Requests
  <2> QED BY <2>4 DEF Made
<1>10. d # Nothing /\ r # Nothing /\ [d EXCEPT !.body = Marshaled(d.body)] # Nothing
  <2> HIDE DEF d, r
  <2> QED BY <1>3, <1>9, MadeTyped
<1>11. item' # Nothing /\ record' # Nothing /\ first' # Nothing /\ item'.status = "pending" /\ item'.attempts = 0
  <2>1. d.status = "pending" /\ d.attempts = 0
    OBVIOUS
  <2> HIDE DEF d
  <2> QED BY <1>1, <1>10, <2>1
<1>12. StoredOK'
  <2>1. Sound(first') /\ Made(item', first')
    <3> HIDE DEF d, r
    <3> QED BY <1>1, <1>3, <1>9
  <2>2. record' = [item' EXCEPT !.body = Marshaled(item'.body)]
    <3> HIDE DEF d, r
    <3> QED BY <1>1
  <2> QED BY <1>11, <2>1, <2>2 DEF StoredOK
<1>13. AnswersTrue'
  <2>1. ASSUME NEW b \in Clients
        PROVE  /\ answer'[b] \in {"queued", "existing"} =>
                    record' # Nothing /\ first' = Normalized(RequestOf(b)')
               /\ answer'[b] = "conflict" =>
                    record' # Nothing /\ first' # Normalized(RequestOf(b)')
    <3>1. answer[b] \notin {"queued", "existing", "conflict"}
      BY <1>2, <1>7 DEF AnswersTrue
    <3>2. CASE answer'[b] \in {answer[b], "unknown"}
      BY <3>1, <3>2
    <3>3. CASE b = c /\ answer'[b] = "queued"
      BY <1>1, <1>8, <1>11, <3>3
    <3> QED BY <1>5, <3>2, <3>3
  <2> QED BY <2>1 DEF AnswersTrue
<1>14. claimed = Nothing /\ posted = Nothing /\ delay = NoDelay
  BY <1>1, <1>2 DEF WorkOK
<1>15. WorkOK'
  BY <1>2, <1>6, <1>14 DEF WorkOK, workVars, attemptVars
<1>16. EndsForReason'
  BY <1>11 DEF EndsForReason
<1>17. AttemptOK'
  BY <1>2, <1>6 DEF AttemptOK, attemptVars, dialVars
<1> QED BY <1>5, <1>12, <1>13, <1>15, <1>16, <1>17 DEF RelayInv

-----------------------------------------------------------------------------
(* The worker.                                                             *)

(* Clients learn nothing from it, and their answers stay true.             *)
LEMMA ClientsKeep ==
  ASSUME RelayInv, UNCHANGED clientVars, first' = first, record # Nothing => record' # Nothing
  PROVE  AsksOK' /\ AnswersTrue'
<1>1. AsksOK /\ AnswersTrue
  BY DEF RelayInv
<1>2. asks' = asks /\ answer' = answer /\ strays' = strays
  BY DEF clientVars
<1>3. AsksOK'
  BY <1>1, <1>2 DEF AsksOK
<1>4. ASSUME NEW b \in Clients
      PROVE  /\ answer'[b] \in {"queued", "existing"} =>
                  record' # Nothing /\ first' = Normalized(RequestOf(b)')
             /\ answer'[b] = "conflict" =>
                  record' # Nothing /\ first' # Normalized(RequestOf(b)')
  <2>1. answer'[b] \in {answer[b], "unknown"} /\ asks'[b] = asks[b]
    BY <1>2
  <2> QED BY <1>1, <2>1, TruthKept
<1> QED BY <1>3, <1>4 DEF AnswersTrue

(* A claim is written before the attempt begins.                           *)
LEMMA ClaimKeeps ==
  ASSUME RelayInv, Claim
  PROVE  RelayInv'
<1> DEFINE n == item.attempts + 1
           d == [item EXCEPT !.status = "in_flight", !.attempts = n]
<1>1. AsksOK /\ StoredOK /\ WorkOK /\ AttemptOK /\ AnswersTrue /\ EndsForReason
  BY DEF RelayInv
<1>2. /\ item # Nothing /\ item.attempts < ClaimBound /\ Write(d) /\ claimed' = d
      /\ posted' = Nothing /\ delay' = NoDelay /\ Begin /\ UNCHANGED clientVars
  <2>1. [item EXCEPT !.status = "in_flight", !.attempts = @ + 1] = d
    OBVIOUS
  <2> QED BY <2>1 DEF Claim
<1>3. item.attempts \in 0 .. ClaimBound /\ record # Nothing /\ ClaimBound \in Nat
  BY <1>1, <1>2, MadeTyped, RelayAssumption DEF StoredOK
<1>4. n \in 0 .. ClaimBound /\ n # 0
  BY <1>2, <1>3
<1> HIDE DEF n
<1>5. /\ StoredOK' /\ item' # Nothing /\ record' # Nothing /\ first' = first
      /\ item'.status = "in_flight" /\ item'.attempts = n
  BY <1>1, <1>2, <1>4, WriteKeeps
<1>6. item' = d
  BY <1>2 DEF Write
<1> HIDE DEF d
<1>7. AttemptOK' /\ step' = "resolving"
  BY <1>1, <1>2, BeginKeeps
<1>8. AsksOK' /\ AnswersTrue'
  BY <1>2, <1>5, ClientsKeep
<1>9. WorkOK'
  BY <1>2, <1>4, <1>5, <1>6, <1>7 DEF WorkOK
<1>10. EndsForReason'
  BY <1>5 DEF EndsForReason
<1> QED BY <1>5, <1>7, <1>8, <1>9, <1>10 DEF RelayInv

(* What is sent is what is claimed.                                        *)
LEMMA SendKeeps ==
  ASSUME RelayInv, Send
  PROVE  RelayInv'
<1>1. AsksOK /\ StoredOK /\ WorkOK /\ AttemptOK /\ AnswersTrue /\ EndsForReason
  BY DEF RelayInv
<1>2. /\ claimed # Nothing /\ Connect
      /\ posted' = IF carries THEN [body |-> claimed.body, type |-> ContentType(claimed)] ELSE posted
      /\ UNCHANGED <<clientVars, storeVars, claimed, delay, last>>
  BY DEF Send
<1>3. item' = item /\ record' = record /\ first' = first
  BY <1>2 DEF storeVars
<1>4. AttemptOK' /\ step' = "requesting"
  BY <1>1, <1>2, ConnectKeeps
<1>5. AsksOK' /\ AnswersTrue'
  BY <1>2, <1>3, ClientsKeep
<1>6. StoredOK'
  BY <1>1, <1>3 DEF StoredOK
<1>7. EndsForReason'
  BY <1>1, <1>2, <1>3 DEF EndsForReason
<1>8. WorkOK'
  <2>1. posted' # Nothing => posted' = [body |-> claimed.body, type |-> ContentType(claimed)]
    BY <1>1, <1>2 DEF WorkOK
  <2>2. ContentType(claimed)' = ContentType(claimed)
    BY <1>2 DEF ContentType
  <2>3. claimed' = claimed /\ delay' = delay
    BY <1>2
  <2> QED BY <1>1, <1>2, <1>3, <1>4, <2>1, <2>2, <2>3 DEF WorkOK
<1> QED BY <1>4, <1>5, <1>6, <1>7, <1>8 DEF RelayInv

(* The steps of an attempt leave memory and journal alone.                 *)
LEMMA WorkKeeps ==
  ASSUME RelayInv, Work
  PROVE  RelayInv'
<1>1. AsksOK /\ StoredOK /\ WorkOK /\ AttemptOK /\ AnswersTrue /\ EndsForReason
  BY DEF RelayInv
<1>2. claimed # Nothing /\ Proceed /\ UNCHANGED <<clientVars, storeVars, workVars>>
  BY DEF Work
<1>3. /\ item' = item /\ record' = record /\ first' = first
      /\ claimed' = claimed /\ posted' = posted /\ delay' = delay /\ last' = last
  BY <1>2 DEF storeVars, workVars
<1>4. AttemptOK' /\ step' # "none"
  BY <1>1, <1>2, ProceedKeeps
<1>5. AsksOK' /\ AnswersTrue'
  BY <1>2, <1>3, ClientsKeep
<1>6. StoredOK'
  BY <1>1, <1>3 DEF StoredOK
<1>7. EndsForReason'
  BY <1>1, <1>3 DEF EndsForReason
<1>8. WorkOK'
  <2>1. ContentType(claimed)' = ContentType(claimed)
    BY <1>3 DEF ContentType
  <2> QED BY <1>1, <1>2, <1>3, <1>4, <2>1 DEF WorkOK
<1> QED BY <1>4, <1>5, <1>6, <1>7, <1>8 DEF RelayInv

(* An attempt that ended ends the delivery only for its reason.            *)
LEMMA OutcomeReasons ==
  ASSUME AttemptOK, step = "ended"
  PROVE  /\ Succeeds(outcome) => outcome.status \in Success /\ ~ outcome.error
         /\ ~ Succeeds(outcome) /\ ~ RetryableOutcome(outcome) =>
              outcome.status \in 300 .. 499 \ {408, 425, 429}
         /\ RetryableOutcome(outcome) =>
              outcome.status \in {0, 408, 425, 429} \union Success \union 500 .. 599
<1>1. /\ outcome.status \in {0} \union Statuses /\ outcome.error \in BOOLEAN
      /\ outcome.status = 0 => outcome.error
  BY DEF AttemptOK
<1>2. outcome.status = 0 \/ outcome.status \in 200 .. 599
  <2>1. Statuses \subseteq 200 .. 599
    BY AttemptAssumption
  <2> QED BY <1>1, <2>1
<1> QED BY <1>1, <1>2 DEF Succeeds, RetryableOutcome, RetryableStatus, Success

(* The record of an outcome ends the delivery or dates the next attempt.   *)
LEMMA RecordKeeps ==
  ASSUME RelayInv, Record
  PROVE  RelayInv'
<1>1. AsksOK /\ StoredOK /\ WorkOK /\ AttemptOK /\ AnswersTrue /\ EndsForReason
  BY DEF RelayInv
<1>2. /\ claimed # Nothing /\ step = "ended" /\ last' = outcome
      /\ claimed' = Nothing /\ posted' = Nothing /\ Finish /\ UNCHANGED clientVars
  BY DEF Record
<1>3. claimed = item /\ item # Nothing /\ item.attempts # 0
  BY <1>1, <1>2 DEF WorkOK
<1>4. record # Nothing /\ item.attempts \in 0 .. ClaimBound
  BY <1>1, <1>3, MadeTyped DEF StoredOK
<1>5. AttemptOK' /\ step' = "none"
  BY <1>1, <1>2, FinishKeeps
<1>6. /\ Succeeds(outcome) => outcome.status \in Success /\ ~ outcome.error
      /\ ~ Succeeds(outcome) /\ ~ RetryableOutcome(outcome) =>
           outcome.status \in 300 .. 499 \ {408, 425, 429}
      /\ RetryableOutcome(outcome) =>
           outcome.status \in {0, 408, 425, 429} \union Success \union 500 .. 599
  BY <1>1, <1>2, OutcomeReasons
<1>7. ASSUME NEW status \in {"pending", "in_flight", "succeeded", "failed"},
             Write([item EXCEPT !.status = status])
      PROVE  /\ StoredOK' /\ item' # Nothing /\ record' # Nothing /\ first' = first
             /\ item'.status = status /\ item'.attempts = item.attempts /\ item'.limit = item.limit
  <2> DEFINE n == item.attempts
  <2>1. [item EXCEPT !.status = status] = [item EXCEPT !.status = status, !.attempts = n]
    <3>1. PICK names \in SUBSET ToSet(Names) : item \in Deliveries(names, Seq(Pieces))
      BY <1>1, <1>3 DEF StoredOK, Made
    <3> QED BY <3>1 DEF Deliveries
  <2>2. n \in 0 .. ClaimBound /\ Write([item EXCEPT !.status = status, !.attempts = n])
    BY <1>4, <1>7, <2>1
  <2> HIDE DEF n
  <2>3. /\ StoredOK' /\ item' # Nothing /\ record' # Nothing /\ first' = first
        /\ item'.status = status /\ item'.attempts = n /\ item'.limit = item.limit
    BY <1>1, <1>3, <2>2, WriteKeeps
  <2> QED BY <2>3 DEF n
<1>8. /\ StoredOK' /\ item' # Nothing /\ record' # Nothing /\ first' = first
      /\ item'.attempts = item.attempts /\ item'.limit = item.limit
      /\ \/ /\ item'.status = "succeeded" /\ delay' = NoDelay
            /\ Succeeds(outcome)
         \/ /\ item'.status = "failed" /\ delay' = NoDelay
            /\ ~ Succeeds(outcome)
            /\ ~ RetryableOutcome(outcome) \/ item.attempts >= item.limit
         \/ /\ item'.status = "pending" /\ RetryableOutcome(outcome)
            /\ \E d \in Delays, j \in Jitters :
                 delay' = [base |-> d.base, max |-> d.max, length |-> Backoff(d, item.attempts, j)]
  <2>1. CASE Succeeds(outcome)
    <3>1. Write([item EXCEPT !.status = "succeeded"]) /\ delay' = NoDelay
      BY <2>1 DEF Record
    <3> QED BY <1>7, <2>1, <3>1
  <2>2. CASE ~ Succeeds(outcome) /\ (~ RetryableOutcome(outcome) \/ claimed.attempts >= claimed.limit)
    <3>1. Write([item EXCEPT !.status = "failed"]) /\ delay' = NoDelay
      BY <2>2 DEF Record
    <3> QED BY <1>3, <1>7, <2>2, <3>1
  <2>3. CASE ~ Succeeds(outcome) /\ ~ (~ RetryableOutcome(outcome) \/ claimed.attempts >= claimed.limit)
    <3>1. /\ Write([item EXCEPT !.status = "pending"])
          /\ \E d \in Delays, j \in Jitters :
               delay' = [base |-> d.base, max |-> d.max, length |-> Backoff(d, claimed.attempts, j)]
      BY <2>3 DEF Record
    <3> QED BY <1>3, <1>7, <2>3, <3>1
  <2> QED BY <2>1, <2>2, <2>3
<1>9. AsksOK' /\ AnswersTrue'
  BY <1>2, <1>8, ClientsKeep
<1>10. WorkOK'
  BY <1>2, <1>3, <1>5, <1>8 DEF WorkOK
<1>11. EndsForReason'
  <2>1. item.attempts \in Nat /\ item.limit \in Nat
    <3>1. item.limit \in 1 .. MaxAttempts
      BY <1>1, <1>3, MadeTyped DEF StoredOK
    <3> QED BY <1>4, <3>1
  <2>2. CASE item'.status = "succeeded" /\ Succeeds(outcome)
    BY <1>2, <1>6, <2>2 DEF EndsForReason
  <2>3. CASE /\ item'.status = "failed" /\ ~ Succeeds(outcome)
             /\ ~ RetryableOutcome(outcome) \/ item.attempts >= item.limit
    <3>1. item'.attempts < item'.limit => ~ RetryableOutcome(outcome)
      BY <1>8, <2>1, <2>3
    <3> QED BY <1>2, <1>6, <2>3, <3>1 DEF EndsForReason
  <2>4. CASE item'.status = "pending" /\ RetryableOutcome(outcome)
    BY <1>2, <1>6, <2>4 DEF EndsForReason
  <2> QED BY <1>8, <2>2, <2>3, <2>4
<1> QED BY <1>5, <1>8, <1>9, <1>10, <1>11 DEF RelayInv

(* A restart brings back what the journal holds, and no attempt.           *)
LEMMA RestartKeeps ==
  ASSUME RelayInv, Restart
  PROVE  RelayInv'
<1>1. AsksOK /\ StoredOK /\ WorkOK /\ AttemptOK /\ AnswersTrue /\ EndsForReason
  BY DEF RelayInv
<1>2. /\ record # Nothing /\ item' = Replayed(record) /\ claimed' = Nothing /\ posted' = Nothing
      /\ Finish /\ UNCHANGED clientVars /\ record' = record /\ first' = first
      /\ delay' = delay /\ last' = last
  BY DEF Restart
<1>3. /\ StoredOK' /\ item' # Nothing
      /\ item'.status = item.status /\ item'.attempts = item.attempts /\ item'.limit = item.limit
  BY <1>1, <1>2, ReplayKeeps
<1>4. item # Nothing
  BY <1>1, <1>2 DEF StoredOK
<1>5. AttemptOK' /\ step' = "none"
  BY <1>1, <1>2, FinishKeeps
<1>6. AsksOK' /\ AnswersTrue'
  BY <1>2, ClientsKeep
<1>7. WorkOK'
  BY <1>1, <1>2, <1>3, <1>5 DEF WorkOK
<1>8. EndsForReason'
  BY <1>1, <1>2, <1>3, <1>4 DEF EndsForReason
<1> QED BY <1>3, <1>5, <1>6, <1>7, <1>8 DEF RelayInv

-----------------------------------------------------------------------------
(* The whole.                                                              *)

(* The invariant holds at first.                                           *)
LEMMA InitRelayInv == Init => RelayInv
<1> SUFFICES ASSUME Init PROVE RelayInv
  OBVIOUS
<1>1. AsksOK
  BY DEF Init, AsksOK
<1>2. StoredOK /\ WorkOK
  BY DEF Init, AttemptInit, StoredOK, WorkOK
<1>3. AttemptOK
  <2>1. Redirects \in Nat /\ NoAddress \notin Blocked
    BY AttemptAssumption
  <2>2. <<>> \in Seq(Addresses) /\ Len(<<>>) = 0 /\ 1 .. (1 - 1) = {}
    OBVIOUS
  <2>3. /\ allowPrivate \in BOOLEAN /\ step = "none" /\ hop = 0 /\ found = <<>> /\ next = 1
        /\ peer = NoAddress /\ outcome = [status |-> 0, error |-> FALSE]
    BY DEF Init, AttemptInit, NoOutcome
  <2>4. outcome.status = 0 /\ outcome.error = FALSE
    BY <2>3
  <2> QED BY <2>1, <2>2, <2>3, <2>4 DEF AttemptOK
<1>4. AnswersTrue /\ EndsForReason
  BY DEF Init, AnswersTrue, EndsForReason
<1> QED BY <1>1, <1>2, <1>3, <1>4 DEF RelayInv

(* Every step keeps it.                                                    *)
LEMMA NextRelayInv == RelayInv /\ [Next]_vars => RelayInv'
<1> SUFFICES ASSUME RelayInv, [Next]_vars PROVE RelayInv'
  OBVIOUS
<1>1. CASE \E c \in Clients : Client(c)
  <2>1. PICK c \in Clients : Client(c)
    BY <1>1
  <2> QED BY <2>1, AskKeeps, GiveUpKeeps, CreateRefusedKeeps, CreateNewKeeps, CreateAgainKeeps DEF Client
<1>2. CASE Claim
  BY <1>2, ClaimKeeps
<1>3. CASE Send
  BY <1>3, SendKeeps
<1>4. CASE Work
  BY <1>4, WorkKeeps
<1>5. CASE Record
  BY <1>5, RecordKeeps
<1>6. CASE Restart
  BY <1>6, RestartKeeps
<1>7. CASE UNCHANGED vars
  <2>1. UNCHANGED <<clientVars, storeVars, workVars, attemptVars>>
    BY <1>7 DEF vars
  <2>2. AsksOK /\ StoredOK /\ WorkOK /\ AttemptOK /\ AnswersTrue /\ EndsForReason
    BY DEF RelayInv
  <2>3. AsksOK' /\ AnswersTrue'
    BY <2>1, ClientsKeep DEF storeVars
  <2>4. StoredOK' /\ EndsForReason'
    BY <2>1, <2>2 DEF StoredOK, EndsForReason, storeVars, workVars
  <2>5. WorkOK'
    <3>1. ContentType(claimed)' = ContentType(claimed)
      BY <2>1 DEF ContentType, workVars
    <3> QED BY <2>1, <2>2, <3>1 DEF WorkOK, storeVars, workVars, attemptVars
  <2>6. AttemptOK'
    BY <2>1, <2>2 DEF AttemptOK, attemptVars, dialVars
  <2> QED BY <2>3, <2>4, <2>5, <2>6 DEF RelayInv
<1> QED BY <1>1, <1>2, <1>3, <1>4, <1>5, <1>6, <1>7 DEF Next
(* The inductive invariant, with the two of the properties it contains.    *)
LEMMA RelayInvariant == Spec => []RelayInv
<1>1. Init => RelayInv
  BY InitRelayInv
<1>2. RelayInv /\ [Next]_vars => RelayInv'
  BY NextRelayInv
<1> QED BY <1>1, <1>2, PTL DEF Spec

(* Every variable has its type, and the client's, the store's and the      *)
(* worker's view of a delivery agree (worker.go, store.go).                *)
THEOREM RelayTypeCorrect == Spec => []TypeOK
<1>1. RelayInv => TypeOK
  <2> SUFFICES ASSUME RelayInv PROVE TypeOK
    OBVIOUS
  <2>1. AsksOK /\ StoredOK /\ WorkOK /\ AttemptOK
    BY DEF RelayInv
  <2>2. item # Nothing =>
          /\ item.status \in {"pending", "in_flight", "succeeded", "failed"}
          /\ item.attempts \in 0 .. ClaimBound /\ item.limit \in 1 .. MaxAttempts
          /\ record = [item EXCEPT !.body = record.body]
    <3> SUFFICES ASSUME item # Nothing
                 PROVE  /\ item.status \in {"pending", "in_flight", "succeeded", "failed"}
                        /\ item.attempts \in 0 .. ClaimBound /\ item.limit \in 1 .. MaxAttempts
                        /\ record = [item EXCEPT !.body = record.body]
      OBVIOUS
    <3>1. /\ Sound(first) /\ Made(item, first)
          /\ record = [item EXCEPT !.body = Marshaled(item.body)]
      BY <2>1 DEF StoredOK
    <3>2. PICK names \in SUBSET ToSet(Names) : item \in Deliveries(names, Seq(Pieces))
      BY <3>1 DEF Made
    <3>3. record.body = Marshaled(item.body)
      BY <3>1, <3>2 DEF Deliveries
    <3>4. record = [item EXCEPT !.body = record.body]
      BY <3>1, <3>3
    <3> QED BY <3>1, <3>4, MadeTyped
  <2>3. /\ item # Nothing <=> record # Nothing
        /\ item # Nothing <=> first # Nothing
    BY <2>1 DEF StoredOK
  <2>4. /\ claimed # Nothing <=> step # "none"
        /\ claimed # Nothing => claimed.attempts = item.attempts /\ item.status = "in_flight"
    BY <2>1 DEF WorkOK
  <2>5. /\ step \in {"none", "resolving", "dialing", "requesting", "ended"}
        /\ hop \in 0 .. Redirects /\ next \in 1 .. (Len(found) + 1)
        /\ peer # NoAddress <=> step = "requesting"
    BY <2>1 DEF AttemptOK
  <2>6. /\ asks \in [Clients -> Submissions \union {Nothing}]
        /\ answer \in [Clients -> Told \union {"none", "waiting"}]
        /\ strays \subseteq Clients
    BY <2>1 DEF AsksOK
  <2> QED BY <2>2, <2>3, <2>4, <2>5, <2>6 DEF TypeOK
<1> QED BY <1>1, RelayInvariant, PTL

(* "queued" and "existing" are told of the very request the client makes,  *)
(* "conflict" of another, however both are encoded and replayed.           *)
THEOREM AnswersAreTrue == Spec => []AnswersTrue
<1>1. RelayInv => AnswersTrue
  BY DEF RelayInv
<1> QED BY <1>1, RelayInvariant, PTL

(* The body and the content type sent are those submitted.                 *)
THEOREM BodiesAreKept == Spec => []BodyKept
<1>1. RelayInv => BodyKept
  <2> SUFFICES ASSUME RelayInv, posted # Nothing
               PROVE  Tidied(posted.body) = Tidied(first.body) /\ posted.type = ContentType(first)
    BY DEF BodyKept
  <2>1. StoredOK /\ WorkOK
    BY DEF RelayInv
  <2>2. /\ claimed = item /\ item # Nothing
        /\ posted = [body |-> item.body, type |-> ContentType(item)]
    BY <2>1 DEF WorkOK
  <2>3. Sound(first) /\ Made(item, first)
    BY <2>1, <2>2 DEF StoredOK
  <2>4. /\ item.body \in Seq(Pieces) /\ first.body \in Seq(Pieces)
        /\ Tidied(item.body) = Tidied(first.body) /\ item.headers = first.headers
    BY <2>3, MadeTyped DEF Made
  <2>5. (IsJSON(item.body) <=> IsJSON(first.body)) /\ (item.body = <<>> <=> first.body = <<>>)
    BY <2>4, TidiedAlike
  <2>6. ContentType(item) = ContentType(first)
    BY <2>4, <2>5 DEF ContentType
  <2>7. posted.body = item.body /\ posted.type = ContentType(item)
    BY <2>2
  <2> QED BY <2>4, <2>6, <2>7
<1> QED BY <1>1, RelayInvariant, PTL

(* A delivery ends for the reason documented.                              *)
THEOREM DeliveriesEndForReason == Spec => []EndsForReason
<1>1. RelayInv => EndsForReason
  BY DEF RelayInv
<1> QED BY <1>1, RelayInvariant, PTL

(* Every delay is the base doubled, capped and spread, in durations of any *)
(* width.                                                                  *)
THEOREM DelaysAreDoubled == Spec => []DelaysDouble
<1>1. RelayInv => DelaysDouble
  <2> SUFFICES ASSUME RelayInv, delay # NoDelay
               PROVE  LET plain == Least(delay.max, delay.base * TwoTo[item.attempts - 1])
                      IN  /\ delay.length \in (plain * 8) \div 10 .. (plain * 12) \div 10
                          /\ delay.length <= delay.max
    BY DEF DelaysDouble
  <2>1. StoredOK /\ WorkOK
    BY DEF RelayInv
  <2>2. item # Nothing /\ item.attempts # 0
    BY <2>1 DEF WorkOK
  <2>3. PICK d \in Delays, j \in Jitters :
          delay = [base |-> d.base, max |-> d.max, length |-> Backoff(d, item.attempts, j)]
    BY <2>1 DEF WorkOK
  <2> DEFINE n == item.attempts
  <2>4. n \in Nat \ {0}
    BY <2>1, <2>2, MadeTyped DEF StoredOK
  <2>5. delay.base = d.base /\ delay.max = d.max /\ delay.length = Backoff(d, n, j)
    BY <2>3
  <2> HIDE DEF n
  <2>6. LET plain == Least(d.max, d.base * TwoTo[n - 1])
        IN  /\ Backoff(d, n, j) \in Nat
            /\ (plain * 8) \div 10 <= Backoff(d, n, j)
            /\ Backoff(d, n, j) <= (plain * 12) \div 10
            /\ Backoff(d, n, j) <= d.max
    BY <2>4, BackoffDoubles
  <2>7. (Least(d.max, d.base * TwoTo[n - 1]) * 8) \div 10 \in Int
        /\ (Least(d.max, d.base * TwoTo[n - 1]) * 12) \div 10 \in Int
    <3>1. d.max \in Nat /\ d.base \in Nat /\ TwoTo[n - 1] \in Nat
      <4>1. d.max \in Nat /\ d.base \in Nat
        BY <2>3, AttemptAssumption
      <4>2. n - 1 \in Nat
        BY <2>4
      <4> QED BY <4>1, <4>2, TwoToDoubles
    <3> DEFINE x == d.base * TwoTo[n - 1]
    <3>2. x \in Nat
      BY <3>1
    <3> HIDE DEF x
    <3>3. Least(d.max, x) \in Nat
      BY <3>1, <3>2 DEF Least
    <3> QED BY <3>3 DEF x
  <2> QED BY <2>5, <2>6, <2>7 DEF n
<1> QED BY <1>1, RelayInvariant, PTL

(* Where an attempt stands, and whom it has reached.                       *)
HopOK ==
  /\ step \in {"resolving", "dialing", "requesting"} <=> hop # 0
  /\ hop = 1 /\ step # "requesting" => carries
  /\ hop > 1 \/ step = "requesting" => sent
  /\ step = "ended" /\ outcome.status # 0 => sent

ReachInv == HopOK /\ TargetReached

(* The invariant of the relay has what the next lemmas need of it.         *)
LEMMA RelayHops ==
  ASSUME RelayInv
  PROVE  /\ hop \in 0 .. Redirects /\ hop \in Nat /\ Redirects \in Nat \ {0}
         /\ step \in {"none", "resolving", "dialing", "requesting", "ended"}
         /\ claimed # Nothing => item.status = "in_flight"
         /\ claimed # Nothing <=> step # "none"
<1>1. Redirects \in Nat \ {0}
  BY AttemptAssumption
<1> QED BY <1>1 DEF RelayInv, AttemptOK, WorkOK

(* A hop begins undialed, after a hop that was answered or with the body.  *)
LEMMA HopBegins ==
  ASSUME NEW n \in Nat \ {0}, NewHop(n), n = 1 => carries', n > 1 => sent'
  PROVE  HopOK' /\ dialed' = {} /\ peer' = NoAddress
BY DEF NewHop, DialOver, HopOK

(* An attempt ends with a status only where a request was sent.            *)
LEMMA HopEnds ==
  ASSUME NEW status, NEW error, Ended(status, error), status # 0 => sent'
  PROVE  HopOK' /\ dialed' = {} /\ peer' = NoAddress
<1>1. /\ step' = "ended" /\ outcome' = [status |-> status, error |-> error]
      /\ dialed' = {} /\ peer' = NoAddress /\ hop' = 0
  BY DEF Ended, DialOver
<1>2. outcome'.status = status
  BY <1>1
<1> QED BY <1>1, <1>2 DEF HopOK

(* Nothing dialed, nobody blocked.                                         *)
LEMMA UndialedAllowed ==
  ASSUME dialed' = {}, peer' = NoAddress
  PROVE  (dialed' \union {peer'}) \cap Blocked = {}
<1>1. NoAddress \notin Blocked
  BY AttemptAssumption
<1> QED BY <1>1

(* While the delivery is not decided there is nothing to have reached.     *)
LEMMA InFlightReached ==
  ASSUME RelayInv, ReachInv, claimed # Nothing, item' = item, HopOK',
         (dialed' \union {peer'}) \cap Blocked # {} => allowPrivate'
  PROVE  ReachInv'
<1>1. item.status = "in_flight"
  BY RelayHops
<1>2. ~ Decided'
  BY <1>1 DEF Decided
<1> QED BY <1>2 DEF ReachInv, TargetReached

(* Dialing an address, or passing it over, heeds the filter.               *)
LEMMA DialHeeds ==
  ASSUME RelayInv, ReachInv, Skip \/ DialFails, UNCHANGED <<item, claimed, sent>>
  PROVE  HopOK' /\ ((dialed' \union {peer'}) \cap Blocked # {} => allowPrivate')
<1>1. /\ step = "dialing" /\ step' = step /\ hop' = hop /\ carries' = carries /\ peer' = peer
      /\ outcome' = outcome /\ allowPrivate' = allowPrivate
      /\ \/ dialed' = dialed
         \/ dialed' = dialed \union {found[next]} /\ Tries(found[next])
  BY DEF Skip, DialFails
<1>2. HopOK'
  BY <1>1 DEF ReachInv, HopOK
<1>3. Tries(found[next]) => (found[next] \in Blocked => allowPrivate)
  BY DEF Tries
<1> QED BY <1>1, <1>2, <1>3 DEF ReachInv, TargetReached

(* The steps of an attempt but the one that sends the request.             *)
LEMMA WorkReaches ==
  ASSUME RelayInv, ReachInv, Work
  PROVE  ReachInv'
<1>1. claimed # Nothing /\ Proceed /\ item' = item /\ claimed' = claimed /\ sent' = sent
  BY DEF Work, storeVars, workVars
<1>2. CASE Resolve
  <2>1. /\ step = "resolving" /\ step' = "dialing" /\ hop' = hop /\ dialed' = dialed
        /\ peer' = peer /\ carries' = carries /\ allowPrivate' = allowPrivate
    BY <1>2 DEF Resolve
  <2>2. HopOK'
    BY <1>1, <2>1 DEF ReachInv, HopOK
  <2> QED BY <1>1, <2>1, <2>2, InFlightReached DEF ReachInv, TargetReached
<1>3. CASE Skip \/ DialFails
  BY <1>1, <1>3, DialHeeds, InFlightReached
<1>4. CASE DialGivesUp \/ RedirectRefused \/ Interrupted
  <2>1. Ended(0, TRUE)
    BY <1>4 DEF DialGivesUp, RedirectRefused, Interrupted
  <2> QED BY <1>1, <2>1, HopEnds, UndialedAllowed, InFlightReached
<1>5. CASE Respond
  <2>1. PICK status \in Statuses, broken \in BOOLEAN : Ended(status, broken \/ status \notin 200 .. 299)
    BY <1>5 DEF Respond
  <2>2. sent
    BY <1>5 DEF Respond, ReachInv, HopOK
  <2> QED BY <1>1, <2>1, <2>2, HopEnds, UndialedAllowed, InFlightReached
<1>6. CASE Redirect
  <2>1. NewHop(hop + 1) /\ step = "requesting"
    BY <1>6 DEF Redirect
  <2>2. sent /\ hop # 0
    BY <2>1 DEF ReachInv, HopOK
  <2>3. hop + 1 \in Nat \ {0} /\ hop + 1 # 1
    BY <2>2, RelayHops
  <2> QED BY <1>1, <2>1, <2>2, <2>3, HopBegins, UndialedAllowed, InFlightReached
<1> QED BY <1>1, <1>2, <1>3, <1>4, <1>5, <1>6 DEF Proceed

(* The request goes to an address that passed the filter, the first one    *)
(* with the body.                                                          *)
LEMMA SendReaches ==
  ASSUME RelayInv, ReachInv, Send
  PROVE  ReachInv'
<1>1. /\ claimed # Nothing /\ item' = item /\ sent' = (sent \/ carries)
      /\ step = "dialing" /\ Tries(found[next]) /\ peer' = found[next] /\ step' = "requesting"
      /\ dialed' = {} /\ hop' = hop /\ carries' = carries /\ allowPrivate' = allowPrivate
  BY DEF Send, Connect, DialOver, storeVars
<1>2. hop # 0 /\ hop \in Nat
  BY <1>1, RelayHops DEF ReachInv, HopOK
<1>3. hop = 1 \/ hop > 1
  BY <1>2
<1>4. sent'
  BY <1>1, <1>3 DEF ReachInv, HopOK
<1>5. HopOK'
  BY <1>1, <1>2, <1>4 DEF HopOK
<1>6. (dialed' \union {peer'}) \cap Blocked # {} => allowPrivate'
  BY <1>1 DEF Tries
<1> QED BY <1>1, <1>5, <1>6, InFlightReached

(* A claim begins an attempt that has reached nobody.                      *)
LEMMA ClaimReaches ==
  ASSUME RelayInv, ReachInv, Claim
  PROVE  ReachInv'
<1>1. NewHop(1) /\ carries' = TRUE
  BY DEF Claim, Begin
<1>2. HopOK' /\ dialed' = {} /\ peer' = NoAddress
  BY <1>1, HopBegins
<1>3. item'.status = "in_flight"
  <2>1. RelayInv' /\ claimed' # Nothing
    <3>1. RelayInv' /\ step' = "resolving"
      BY <1>1, ClaimKeeps DEF NewHop
    <3> QED BY <3>1 DEF RelayInv, WorkOK
  <2> QED BY <2>1 DEF RelayInv, WorkOK
<1>4. ~ Decided'
  BY <1>3 DEF Decided
<1> QED BY <1>2, <1>4, UndialedAllowed DEF ReachInv, TargetReached

(* What is recorded as decided was answered; what has no status is not.    *)
LEMMA RecordReaches ==
  ASSUME RelayInv, ReachInv, Record
  PROVE  ReachInv'
<1>1. /\ claimed # Nothing /\ step = "ended" /\ sent' = sent /\ last' = outcome
      /\ step' = "none" /\ hop' = 0 /\ dialed' = {} /\ peer' = NoAddress
  BY DEF Record, Finish, DialOver
<1>2. HopOK'
  BY <1>1 DEF HopOK
<1>3. RelayInv'
  BY RecordKeeps
<1>4. Decided' => last'.status # 0
  <2>1. EndsForReason'
    BY <1>3 DEF RelayInv
  <2>2. 0 \notin Success /\ 0 \notin 300 .. 499
    BY DEF Success
  <2> QED BY <2>1, <2>2 DEF EndsForReason, Decided
<1>5. Decided' => sent'
  BY <1>1, <1>4 DEF ReachInv, HopOK
<1> QED BY <1>1, <1>2, <1>5, UndialedAllowed DEF ReachInv, TargetReached

(* A restart forgets the attempt, not what became of it.                   *)
LEMMA RestartReaches ==
  ASSUME RelayInv, ReachInv, Restart
  PROVE  ReachInv'
<1>1. /\ sent' = sent /\ step' = "none" /\ hop' = 0 /\ dialed' = {} /\ peer' = NoAddress
  BY DEF Restart, Finish, DialOver
<1>2. HopOK'
  BY <1>1 DEF HopOK
<1>3. /\ StoredOK /\ record # Nothing /\ item' = Replayed(record)
      /\ UNCHANGED <<record, first>>
  BY DEF RelayInv, Restart
<1>4. /\ item'.status = item.status /\ item'.attempts = item.attempts /\ item'.limit = item.limit
      /\ item # Nothing
  BY <1>3, ReplayKeeps DEF StoredOK
<1>5. Decided' => Decided
  BY <1>4 DEF Decided
<1> QED BY <1>1, <1>2, <1>5, UndialedAllowed DEF ReachInv, TargetReached

(* Clients change nothing but a delivery from none to pending.             *)
LEMMA ClientReaches ==
  ASSUME RelayInv, ReachInv, NEW c \in Clients, Client(c)
  PROVE  ReachInv'
<1>1. UNCHANGED <<workVars, attemptVars>> /\ (item' = item \/ item'.status = "pending")
  BY DEF Client, Ask, GiveUp, CreateRefused, CreateNew, CreateAgain, Answers, storeVars
<1>2. HopOK'
  BY <1>1 DEF ReachInv, HopOK, workVars, attemptVars
<1>3. Decided' => Decided
  BY <1>1 DEF Decided
<1> QED BY <1>1, <1>2, <1>3 DEF ReachInv, TargetReached, workVars, attemptVars, dialVars

(* No blocked address is dialed, in vain or not, on any hop; a delivery    *)
(* that succeeded or was refused had its body sent to an allowed one       *)
(* (client.go, worker.go).                                                 *)
THEOREM TargetsAreReached == Spec => []TargetReached
<1>1. Init => ReachInv
  <2> SUFFICES ASSUME Init PROVE ReachInv
    OBVIOUS
  <2>1. step = "none" /\ hop = 0 /\ dialed = {} /\ peer = NoAddress /\ item = Nothing
    BY DEF Init, AttemptInit
  <2>2. NoAddress \notin Blocked
    BY AttemptAssumption
  <2> QED BY <2>1, <2>2 DEF ReachInv, HopOK, TargetReached, Decided
<1>2. RelayInv /\ ReachInv /\ [Next]_vars => ReachInv'
  <2> SUFFICES ASSUME RelayInv, ReachInv, [Next]_vars PROVE ReachInv'
    OBVIOUS
  <2>1. CASE UNCHANGED vars
    BY <2>1 DEF vars, storeVars, workVars, attemptVars, dialVars, ReachInv, HopOK, TargetReached, Decided
  <2> QED BY <2>1, ClientReaches, ClaimReaches, SendReaches, WorkReaches, RecordReaches,
             RestartReaches DEF Next
<1>3. ReachInv => TargetReached
  BY DEF ReachInv
<1> QED BY <1>1, <1>2, <1>3, RelayInvariant, PTL DEF Spec

(* An attempt gives up on addresses only after it tried each allowed one.  *)
THEOREM AllAllowedAreDialed == Spec => AllAllowedDialed
<1>1. RelayInv /\ [Next]_vars =>
        [DialGivesUp =>
           \A i \in DOMAIN found : found[i] \in dialed \/ (found[i] \in Blocked /\ ~ allowPrivate)]_vars
  <2> SUFFICES ASSUME RelayInv, DialGivesUp, NEW i \in DOMAIN found
               PROVE  found[i] \in dialed \/ (found[i] \in Blocked /\ ~ allowPrivate)
    OBVIOUS
  <2>1. AttemptOK
    BY DEF RelayInv
  <2>2. found \in Seq(Addresses) /\ next \in 1 .. (Len(found) + 1) /\ next > Len(found)
    BY <2>1 DEF AttemptOK, DialGivesUp
  <2>3. Len(found) \in Nat /\ DOMAIN found = 1 .. Len(found)
    BY <2>2, LenProperties
  <2>4. i \in 1 .. (next - 1)
    BY <2>2, <2>3
  <2> QED BY <2>1, <2>4 DEF AttemptOK
<1> QED BY <1>1, RelayInvariant, PTL DEF Spec, AllAllowedDialed
=============================================================================
