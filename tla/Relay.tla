------------------------------- MODULE Relay -------------------------------
(***************************************************************************)
(* From client to target: clients that submit one idempotency key, through *)
(* spoolctl or the API, and submit it again when they get no answer; the   *)
(* store, which keeps the delivery in memory as it was received and in the *)
(* journal as it is encoded; restarts, after which memory holds what the   *)
(* journal says; and the worker, whose attempts send the body.             *)
(*                                                                         *)
(* Request and Attempt say what the parts do.  Store and Pool have what is *)
(* left out here: writes that fail, leases, several workers, retention,    *)
(* cancellation and manual retries.                                        *)
(***************************************************************************)
EXTENDS Request, Attempt

CONSTANTS
  Clients,       \* one submission each
  Submissions,   \* what they may submit
  Nothing,       \* no delivery
  ClaimBound     \* bound of the exploration: claims of the delivery

(* Submissions and deliveries whose headers have the given names.          *)
Asked(names) ==
  [way : Ways, body : Seq(Pieces), headers : [names -> Seq(Pieces)], attempts : Nat]
Deliveries(names, bodies) ==
  [body : bodies, headers : [names -> Seq(Pieces)], limit : 1..MaxAttempts,
   hash : Seq(Glyphs), status : {"pending", "in_flight", "succeeded", "failed"},
   attempts : 0..ClaimBound]

(* Headers fit a message, each value in it and all of them in number;      *)
(* nothing is none of what it may stand for.                               *)
ASSUME RelayAssumption ==
  /\ ClaimBound \in Nat
  /\ \A s \in Submissions : \E names \in SUBSET ToSet(Names) :
       s \in Asked(names) /\ Fitting(s.headers)
  /\ \A names \in SUBSET ToSet(Names) :
       Nothing \notin Asked(names) \union Requests(names)
                     \union Deliveries(names, Seq(Pieces)) \union Deliveries(names, Encoded)

VARIABLES
  asks,      \* per client, its submission
  answer,    \* per client: "none", "waiting", or what it was told
  strays,    \* clients with a request in the network they gave up on
  item,      \* the delivery in memory, with its hash
  record,    \* its record in the journal
  first,     \* history: the request that created it
  claimed,   \* the copy the worker holds
  posted,    \* history: body and content type the attempt sent last
  sent,      \* history: the last attempt sent the body to some peer
  delay,     \* history: the delay until the next attempt, with its bounds
  last       \* history: the outcome last recorded

storeVars == <<item, record, first>>
clientVars == <<asks, answer, strays>>
workVars == <<claimed, posted, sent, delay, last>>
vars == <<clientVars, storeVars, workVars, attemptVars>>

NoDelay == [base |-> 0, max |-> 0, length |-> 0]

Told == {"refused", "invalid", "queued", "existing", "conflict", "unknown"}

Init ==
  /\ AttemptInit
  /\ asks = [c \in Clients |-> Nothing]
  /\ answer = [c \in Clients |-> "none"] /\ strays = {}
  /\ item = Nothing /\ record = Nothing /\ first = Nothing
  /\ claimed = Nothing /\ posted = Nothing /\ sent = FALSE /\ delay = NoDelay /\ last = NoOutcome

-----------------------------------------------------------------------------
(* runSend, or any other client, up to the request and once it gives up.   *)
Ask(c) ==
  /\ \/ answer[c] = "none" /\ \E s \in Submissions : asks' = [asks EXCEPT ![c] = s]
     \/ answer[c] = "unknown" /\ UNCHANGED asks
  /\ answer' = [answer EXCEPT ![c] =
                  IF RefusedByCommand(asks'[c]) THEN "refused" ELSE "waiting"]
  /\ UNCHANGED <<strays, storeVars, workVars, attemptVars>>

GiveUp(c) ==
  /\ answer[c] = "waiting"
  /\ answer' = [answer EXCEPT ![c] = "unknown"]
  /\ strays' = strays \union {c}
  /\ UNCHANGED <<asks, storeVars, workVars, attemptVars>>

(* The daemon's answer, which the client may not get: it is lost, has gone,*)
(* or is longer than spoolctl reads (do).                                  *)
TooLong(c, d) ==
  LET w == Marshaled(d.body)
  IN  ByCommand(asks[c]) /\ Size(w.body) + Size(w.base64) > MaxMessage

Arrives(c) == answer[c] = "waiting" \/ c \in strays

Answers(c, told, d) ==
  /\ \/ /\ answer[c] = "waiting"
        /\ answer' = [answer EXCEPT ![c] =
                        IF d # Nothing /\ TooLong(c, d) THEN "unknown" ELSE told]
        /\ UNCHANGED strays
     \/ /\ answer[c] = "waiting"
        /\ answer' = [answer EXCEPT ![c] = "unknown"]
        /\ UNCHANGED strays
     \/ /\ c \in strays
        /\ strays' = strays \ {c}
        /\ UNCHANGED answer
  /\ UNCHANGED <<asks, workVars, attemptVars>>

(* Server.create and Store.Create.                                         *)
RequestOf(c) == Received(Message(asks[c]))
Acceptable(c) == ~Undecodable(Message(asks[c])) /\ ~Invalid(RequestOf(c))

CreateRefused(c) ==
  /\ Arrives(c) /\ ~Acceptable(c)
  /\ Answers(c, "invalid", Nothing)
  /\ UNCHANGED storeVars

CreateNew(c) ==
  /\ Arrives(c) /\ Acceptable(c) /\ item = Nothing
  /\ LET r == Normalized(RequestOf(c))
         d == [body |-> r.body, headers |-> r.headers, limit |-> r.attempts,
               hash |-> Fingerprint(r), status |-> "pending", attempts |-> 0]
     IN  /\ item' = d
         /\ record' = [d EXCEPT !.body = Marshaled(d.body)]
         /\ first' = r
         /\ Answers(c, "queued", d)

CreateAgain(c) ==
  /\ Arrives(c) /\ Acceptable(c) /\ item # Nothing
  /\ IF Fingerprint(Normalized(RequestOf(c))) = item.hash
     THEN Answers(c, "existing", item)
     ELSE Answers(c, "conflict", Nothing)
  /\ UNCHANGED storeVars

-----------------------------------------------------------------------------
(* The worker.  A mutation writes the whole delivery, with the hash as it  *)
(* was, and then changes memory.                                           *)

(* Mutant: memory changes, the journal does not.                           *)
WriteMemory(d) ==
  /\ item' = d
  /\ UNCHANGED <<record, first>>

Write(d) ==
  /\ item' = d
  /\ record' = [d EXCEPT !.body = Marshaled(d.body)]
  /\ UNCHANGED first

(* ClaimDueMatching: a delivery in flight is claimed again when the worker *)
(* that held it is gone and its lease has expired.                         *)
Claim ==
  /\ item # Nothing /\ claimed = Nothing
  /\ item.status \in {"pending", "in_flight"} /\ item.attempts < ClaimBound
  /\ LET d == [item EXCEPT !.status = "in_flight", !.attempts = @ + 1]
     IN  Write(d) /\ claimed' = d
  /\ posted' = Nothing /\ sent' = FALSE /\ delay' = NoDelay /\ last' = NoOutcome
  /\ Begin
  /\ UNCHANGED clientVars

(* send: Content-Type is the submitter's, or follows from the body.        *)
ContentType(d) ==
  IF "Content-Type" \in DOMAIN d.headers /\ d.headers["Content-Type"] # <<>>
  THEN d.headers["Content-Type"]
  ELSE IF d.body = <<>> THEN <<>>
  ELSE IF IsJSON(d.body) THEN <<"application/json">> ELSE <<"application/octet-stream">>

Send ==
  /\ claimed # Nothing
  /\ Connect
  /\ posted' = IF carries THEN [body |-> claimed.body, type |-> ContentType(claimed)] ELSE posted
  /\ sent' = (sent \/ carries)
  /\ UNCHANGED <<clientVars, storeVars, claimed, delay, last>>

Work ==
  /\ claimed # Nothing
  /\ Proceed
  /\ UNCHANGED <<clientVars, storeVars, workVars>>

(* deliver: Succeed, or Fail for good or until the delay is over.          *)
Record ==
  /\ claimed # Nothing /\ step = "ended"
  /\ last' = outcome
  /\ IF Succeeds(outcome)
     THEN Write([item EXCEPT !.status = "succeeded"]) /\ delay' = NoDelay
     ELSE IF ~RetryableOutcome(outcome) \/ claimed.attempts >= claimed.limit
     THEN Write([item EXCEPT !.status = "failed"]) /\ delay' = NoDelay
     ELSE /\ Write([item EXCEPT !.status = "pending"])
          /\ \E d \in Delays, j \in Jitters :
               delay' = [base |-> d.base, max |-> d.max,
                         length |-> Backoff(d, claimed.attempts, j)]
  /\ claimed' = Nothing /\ posted' = Nothing
  /\ Finish
  /\ UNCHANGED <<clientVars, sent>>

-----------------------------------------------------------------------------
(* The process ends, and another replays the journal (applyRecord).        *)

(* Mutant: the hash is computed again from what was read.                  *)
ReplayedRehashed(r) ==
  LET d == [r EXCEPT !.body = Unmarshaled(r.body)]
  IN  [d EXCEPT !.hash = Fingerprint([body |-> d.body, headers |-> d.headers, attempts |-> d.limit])]

Replayed(r) == [r EXCEPT !.body = Unmarshaled(r.body)]

Restart ==
  /\ record # Nothing
  /\ item' = Replayed(record)
  /\ claimed' = Nothing /\ posted' = Nothing
  /\ Finish
  /\ UNCHANGED <<clientVars, record, first, sent, delay, last>>

Client(c) == Ask(c) \/ GiveUp(c) \/ CreateRefused(c) \/ CreateNew(c) \/ CreateAgain(c)

Next ==
  \/ \E c \in Clients : Client(c)
  \/ Claim \/ Send \/ Work \/ Record
  \/ Restart

Spec == Init /\ [][Next]_vars

-----------------------------------------------------------------------------
(* Every variable has its type.                                            *)
TypeOK ==
  /\ asks \in [Clients -> Submissions \union {Nothing}]
  /\ answer \in [Clients -> Told \union {"none", "waiting"}]
  /\ strays \subseteq Clients
  /\ item # Nothing <=> record # Nothing
  /\ item # Nothing <=> first # Nothing
  /\ item # Nothing =>
       /\ item.status \in {"pending", "in_flight", "succeeded", "failed"}
       /\ item.attempts \in 0..ClaimBound /\ item.limit \in 1..MaxAttempts
       /\ record = [item EXCEPT !.body = record.body]
  /\ claimed # Nothing <=> step # "none"
  /\ claimed # Nothing => claimed.attempts = item.attempts /\ item.status = "in_flight"
  /\ step \in {"none", "resolving", "dialing", "requesting", "ended"}
  /\ hop \in 0..Redirects /\ next \in 1..(Len(found) + 1)
  /\ peer # NoAddress <=> step = "requesting"

(* A client that is told its delivery is queued, or was before, has one in *)
(* the journal, made of an equivalent request; one that is told of a       *)
(* conflict asked for another.  The two forms of the fingerprint, the      *)
(* tidying of JSON by spoolctl and by the journal, restarts and repeated   *)
(* submissions do not confuse any two requests                             *)
(* ("request fingerprint is carried forward", docs/design.md:81).          *)
AnswersTrue ==
  \A c \in Clients :
    /\ answer[c] \in {"queued", "existing"} =>
         record # Nothing /\ first = Normalized(RequestOf(c))
    /\ answer[c] = "conflict" =>
         record # Nothing /\ first # Normalized(RequestOf(c))

(* What is sent, at any attempt and after any redirect that keeps the      *)
(* body, before and after a restart, is what was submitted: byte for byte  *)
(* unless it is JSON, and then a text of the same value; and its type does *)
(* not change.                                                             *)
BodyKept ==
  posted # Nothing =>
    /\ Tidied(posted.body) = Tidied(first.body)
    /\ posted.type = ContentType(first)

(* Every attempt that ends a delivery does it for the reason documented:   *)
(* it succeeds when the target's final answer, read without error, has a   *)
(* 2xx status, and fails before its last attempt only when there is an     *)
(* answer of a status that is not retryable (README.md:157).               *)
EndsForReason ==
  item # Nothing =>
    /\ item.status = "succeeded" => last.status \in Success /\ ~last.error
    /\ item.status = "failed" /\ item.attempts < item.limit =>
         last.status \in 300..499 \ {408, 425, 429}
    /\ item.status = "pending" /\ item.attempts > 0 =>
         last.status \in {0, 408, 425, 429} \union Success \union 500..599

(* The delay before a retry is the base doubled with every attempt, up to  *)
(* the maximum and give or take a fifth, whatever the width of a duration  *)
(* ("doubles up to five minutes", README.md:159).                          *)
DelaysDouble ==
  delay # NoDelay =>
    LET plain == Least(delay.max, delay.base * TwoTo[item.attempts - 1])
    IN  /\ delay.length \in (plain * 8) \div 10 .. (plain * 12) \div 10
        /\ delay.length <= delay.max

(* The delivery succeeded, or was given up with attempts left.             *)
Decided ==
  /\ item # Nothing
  /\ item.status = "succeeded" \/ (item.status = "failed" /\ item.attempts < item.limit)

(* Whom an attempt reaches, and what becomes of the delivery, agree.  On   *)
(* every hop only allowed addresses are dialed, in vain or not; and a      *)
(* delivery that succeeded, or was given up with attempts left, had its    *)
(* method and body sent to one of them in that attempt: neither a name of  *)
(* blocked addresses only, nor one without an answer, is a refusal, and no *)
(* chain of redirects that ends in a 2xx status is a success of a body     *)
(* that was never sent, before and after a restart.  (The answer itself    *)
(* may be to a GET without the body.)                                      *)
TargetReached ==
  /\ (dialed \union {peer}) \cap Blocked # {} => allowPrivate
  /\ Decided => sent

(* An attempt ends for want of an address only after it dialed every       *)
(* address of its last hop that is allowed.                                *)
AllAllowedDialed ==
  [][DialGivesUp =>
       \A i \in DOMAIN found : found[i] \in dialed \/ (found[i] \in Blocked /\ ~allowPrivate)]_vars
============================================================================
