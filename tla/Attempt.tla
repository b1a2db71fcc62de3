------------------------------ MODULE Attempt ------------------------------
(***************************************************************************)
(* One attempt of a worker: client.Do with the client of                   *)
(* internal/target/client.go, hop by hop and address by address, and what  *)
(* send, deliver and Backoff (internal/worker/worker.go) make of its end.  *)
(*                                                                         *)
(* net/http is external: it resolves and dials on every hop (connections   *)
(* it keeps open and uses again were dialed before), asks CheckRedirect    *)
(* before it follows a redirect, turns a redirected request into a GET     *)
(* without a body unless the status is 307 or 308, and ends everything     *)
(* when the client's timeout or the context does.                          *)
(***************************************************************************)
EXTENDS Naturals, Integers, Sequences, FiniteSets

CONSTANTS
  Addresses,      \* addresses names resolve to
  Blocked,        \* those for which blocked holds
  Resolutions,    \* what LookupIPAddr may return: sequences of addresses
  Statuses,       \* statuses of a final response
  NoAddress,      \* not connected
  Redirects,      \* the responses client.Do follows, at most
  Delays,         \* pairs of Config.BaseBackoff and Config.MaxBackoff
  Jitters,        \* values of Sum32() % 401
  DurationBits    \* the width of a time.Duration

TwoTo[n \in Nat] == IF n = 0 THEN 1 ELSE 2 * TwoTo[n - 1]

(* Config.MaxBackoff is far from the largest duration: the one main leaves *)
(* in place is five minutes, of 292 years.                                 *)
ASSUME AttemptAssumption ==
  /\ Blocked \subseteq Addresses /\ NoAddress \notin Addresses
  /\ Resolutions \subseteq Seq(Addresses) \ {<<>>}
  /\ Statuses \subseteq 200..599 /\ Redirects \in Nat \ {0}
  /\ Jitters \subseteq 0..400 /\ DurationBits \in Nat \ {0}
  /\ \A d \in Delays : /\ d.base \in Nat \ {0} /\ d.max \in Nat \ {0}
                       /\ 6 * d.base < 5 * TwoTo[DurationBits - 1]
                       /\ 6 * d.max < 5 * TwoTo[DurationBits - 1]

VARIABLES
  allowPrivate,   \* the client was made without safeDialContext
  step,           \* what client.Do does next
  hop,            \* the requests made so far: len(via)
  found,          \* the addresses the hop's name resolved to
  next,           \* the position of the first that was not tried
  dialed,         \* history: those tried in vain on this hop
  peer,           \* the address it is connected to
  carries,        \* the hop's request has the delivery's method and body
  outcome         \* the status, 0 for none, and whether there is an error

dialVars == <<found, next, dialed>>
attemptVars == <<allowPrivate, step, hop, dialVars, peer, carries, outcome>>

NoOutcome == [status |-> 0, error |-> FALSE]

AttemptInit ==
  /\ allowPrivate \in BOOLEAN
  /\ step = "none" /\ hop = 0
  /\ found = <<>> /\ next = 1 /\ dialed = {} /\ peer = NoAddress
  /\ carries = FALSE /\ outcome = NoOutcome

(* safeDialContext has returned.                                           *)
DialOver == found' = <<>> /\ next' = 1 /\ dialed' = {}

(* A new hop: the transport asks for a connection.                         *)
NewHop(n) ==
  /\ step' = "resolving" /\ hop' = n
  /\ DialOver /\ peer' = NoAddress
  /\ UNCHANGED <<allowPrivate, outcome>>

Begin ==
  /\ step = "none"
  /\ NewHop(1) /\ carries' = TRUE

Ended(status, error) ==
  /\ step' = "ended" /\ outcome' = [status |-> status, error |-> error]
  /\ DialOver /\ peer' = NoAddress /\ hop' = 0 /\ carries' = FALSE
  /\ UNCHANGED allowPrivate

-----------------------------------------------------------------------------
(* resolve, then the loop of safeDialContext.                              *)
Resolve ==
  /\ step = "resolving"
  /\ found' \in Resolutions
  /\ step' = "dialing"
  /\ UNCHANGED <<allowPrivate, hop, next, dialed, peer, carries, outcome>>

(* Mutant: a name is allowed when one of its addresses is.                 *)
TriesNamesAllowed(address) ==
  allowPrivate \/ \E i \in DOMAIN found : found[i] \notin Blocked

Tries(address) == allowPrivate \/ address \notin Blocked

Skip ==
  /\ step = "dialing" /\ next <= Len(found) /\ ~Tries(found[next])
  /\ next' = next + 1
  /\ UNCHANGED <<allowPrivate, step, hop, found, dialed, peer, carries, outcome>>

DialFails ==
  /\ step = "dialing" /\ next <= Len(found) /\ Tries(found[next])
  /\ dialed' = dialed \union {found[next]}
  /\ next' = next + 1
  /\ UNCHANGED <<allowPrivate, step, hop, found, peer, carries, outcome>>

Connect ==
  /\ step = "dialing" /\ next <= Len(found) /\ Tries(found[next])
  /\ peer' = found[next]
  /\ step' = "requesting"
  /\ DialOver
  /\ UNCHANGED <<allowPrivate, hop, carries, outcome>>

(* Mutant: the first failure to connect ends the attempt.                  *)
DialGivesUpAtOnce ==
  /\ step = "dialing" /\ (next > Len(found) \/ dialed # {})
  /\ Ended(0, TRUE)

(* All addresses failed or are blocked.                                    *)
DialGivesUp ==
  /\ step = "dialing" /\ next > Len(found)
  /\ Ended(0, TRUE)

(* A response that is not followed; its body may break off.                *)
Respond ==
  /\ step = "requesting"
  /\ \E status \in Statuses, broken \in BOOLEAN :
       Ended(status, broken \/ status \notin 200..299)

(* CheckRedirect: the number of requests, and ValidateURL of the next.     *)
Redirect ==
  /\ step = "requesting" /\ hop < Redirects
  /\ NewHop(hop + 1)
  /\ carries' \in {carries, FALSE}

RedirectRefused ==
  /\ step = "requesting"
  /\ Ended(0, TRUE)

(* The timeout or the context ends, or the name does not resolve.          *)
Interrupted ==
  /\ step \in {"resolving", "dialing", "requesting"}
  /\ Ended(0, TRUE)

Proceed ==
  \/ Resolve \/ Skip \/ DialFails \/ DialGivesUp
  \/ Respond \/ Redirect \/ RedirectRefused \/ Interrupted

(* The worker has recorded the outcome, or the process has ended.          *)
Finish ==
  /\ step' = "none" /\ hop' = 0
  /\ DialOver /\ peer' = NoAddress
  /\ carries' = FALSE /\ outcome' = NoOutcome
  /\ UNCHANGED allowPrivate

-----------------------------------------------------------------------------
(* deliver                                                                 *)
Success == 200..299
RetryableStatus(status) == status \in {408, 425, 429} \/ status >= 500

(* Mutant: a 2xx status is a success, read to its end or not.              *)
SucceedsByStatus(o) == o.status \in Success

Succeeds(o) == ~o.error /\ o.status \in Success

(* Mutant: without a status there is nothing to retry for.                 *)
RetryableByStatus(o) == RetryableStatus(o.status)

RetryableOutcome(o) ==
  RetryableStatus(o.status) \/ (o.error /\ (o.status = 0 \/ o.status \in Success))

(* Backoff: the loop that doubles, in DurationBits bits, and the jitter.   *)
Wrapped(n) ==
  ((n + TwoTo[DurationBits - 1]) % TwoTo[DurationBits]) - TwoTo[DurationBits - 1]

(* Mutant: doubles without looking ahead.                                  *)
DoubledBlindly(delay, max) ==
  IF delay >= max THEN delay ELSE Wrapped(2 * delay)

Doubled(delay, max) ==
  IF delay >= max THEN delay
  ELSE IF delay > max \div 2 THEN max ELSE Wrapped(2 * delay)

Least(a, b) == IF a < b THEN a ELSE b

Backoff(d, attempt, jitter) ==
  LET delay[n \in 1..attempt] == IF n = 1 THEN d.base ELSE Doubled(delay[n - 1], d.max)
  IN  Least(d.max, (Least(delay[attempt], d.max) * (800 + jitter)) \div 1000)
============================================================================
