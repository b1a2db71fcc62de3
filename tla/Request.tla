------------------------------ MODULE Request ------------------------------
(***************************************************************************)
(* A request on its way into the journal and out of it again: what         *)
(* spoolctl (internal/spoolctl) and other clients send, what the API       *)
(* (internal/api) takes in, and what delivery.New, its fingerprint and its *)
(* encoding (internal/delivery) make of it.  All operators are pure.       *)
(*                                                                         *)
(* A body is a sequence of pieces: texts of JSON values, newlines, which   *)
(* stand for all white space around a value, and header names and colons,  *)
(* which stand for all other bytes.  Several texts may be of one JSON      *)
(* value; json.Marshal turns each into the tidy one, without white space   *)
(* and with <, > and & escaped.  Key, target URL and method are the same   *)
(* in all requests: none contains a newline once normalized.               *)
(***************************************************************************)
EXTENDS Naturals, Sequences, FiniteSets, SequencesExt

CONSTANTS
  Texts,            \* texts of JSON values
  Tidy(_),          \* what json.Marshal writes for each
  Width(_),         \* the size of a piece
  Decimal(_),       \* the text of a number
  Names,            \* header names, in order, as clients write them
  Canonical(_),     \* http.CanonicalHeaderKey of each
  Reserved,         \* reservedHeader
  MaxBody,          \* MaxBodyBytes
  MaxMessage,       \* maxRequestBody and maxResponse
  DefaultAttempts,  \* of a request that names no limit
  MaxAttempts       \* the largest limit

NewLine == "\n"
Colon == ":"

Pieces == Texts \union ToSet(Names) \union {NewLine, Colon}

(* Names are sorted, and apart from the texts of values: no text of JSON   *)
(* begins with a name and a colon.  A number in a fingerprint counts or    *)
(* measures parts of a message, which has a limit.                         *)
ASSUME RequestAssumption ==
  /\ \A t \in Texts : Tidy(t) \in Texts /\ Tidy(Tidy(t)) = Tidy(t)
  /\ {NewLine, Colon} \cap Texts = {} /\ ToSet(Names) \cap (Texts \union {NewLine}) = {}
  /\ Names \in Seq(ToSet(Names))
  /\ \A i, j \in DOMAIN Names : Names[i] = Names[j] => i = j
  /\ \A n \in ToSet(Names) :
       Canonical(n) \in ToSet(Names) /\ Canonical(Canonical(n)) = Canonical(n)
  /\ \A piece \in Pieces : Width(piece) \in Nat \ {0}
  /\ \A n \in ToSet(Names) : Width(n) <= MaxMessage
  /\ MaxMessage \in Nat /\ MaxBody \in 0..MaxMessage
  /\ MaxAttempts \in 0..MaxMessage /\ DefaultAttempts \in 1..MaxAttempts
  /\ \A m, n \in 0..MaxMessage : m # n => Decimal(m) # Decimal(n)
  /\ \A n \in 0..MaxMessage : Decimal(n) # "v2"

Size(body) ==
  LET size[n \in 0..Len(body)] == IF n = 0 THEN 0 ELSE size[n - 1] + Width(body[n])
  IN  size[Len(body)]

(* json.Valid                                                              *)
IsJSON(body) ==
  \E i \in DOMAIN body :
    body[i] \in Texts /\ \A j \in DOMAIN body \ {i} : body[j] = NewLine

(* The value of a JSON body, without white space around it.                *)
ValueOf(body) == CHOOSE t \in Texts : \E i \in DOMAIN body : body[i] = t

Tidied(body) == IF IsJSON(body) THEN <<Tidy(ValueOf(body))>> ELSE body

-----------------------------------------------------------------------------
(* A submission: how the body is given, the body, the headers as a         *)
(* function from names, and the attempt limit, 0 for none.                 *)
Ways ==
  {"data", "data-binary",      \* options of spoolctl send
   "body", "bodyBase64",       \* fields of the API
   "both"}

ByCommand(s) == s.way \in {"data", "data-binary"}

DuplicateHeader(headers) ==
  \E m, n \in DOMAIN headers : m # n /\ Canonical(m) = Canonical(n)
HeaderWithNewLine(headers) ==
  \E n \in DOMAIN headers : NewLine \in ToSet(headers[n])

CanonicalHeaders(headers) ==
  [c \in {Canonical(n) : n \in DOMAIN headers} |->
     headers[CHOOSE n \in DOMAIN headers : Canonical(n) = c]]

(* What spoolctl send refuses itself: runSend, readBody, headerValues.Set. *)
RefusedByCommand(s) ==
  /\ ByCommand(s)
  /\ \/ s.way = "data" /\ s.body # <<>> /\ ~IsJSON(s.body)
     \/ s.way = "data-binary" /\ Size(s.body) > MaxBody
     \/ DuplicateHeader(s.headers) \/ HeaderWithNewLine(s.headers)

(* The message sent: runSend's json.Marshal tidies a JSON body.            *)
Message(s) ==
  [body |-> CASE s.way = "data" -> Tidied(s.body)
              [] s.way \in {"body", "both"} -> s.body
              [] OTHER -> <<>>,
   base64 |-> IF s.way \in {"data-binary", "bodyBase64", "both"} THEN s.body ELSE <<>>,
   headers |-> IF ByCommand(s) THEN CanonicalHeaders(s.headers) ELSE s.headers,
   attempts |-> s.attempts]

(* What create answers with 400 before it looks at the request: decodeJSON *)
(* and requestBody.                                                        *)
Undecodable(m) ==
  \/ Size(m.body) + Size(m.base64) > MaxMessage
  \/ m.body # <<>> /\ ~IsJSON(m.body)
  \/ m.body # <<>> /\ m.base64 # <<>>

(* The request create passes on: a json.RawMessage is the value's own text.*)
Received(m) ==
  [body |-> IF m.body = <<>> THEN m.base64 ELSE <<ValueOf(m.body)>>,
   headers |-> m.headers,
   attempts |-> m.attempts]

-----------------------------------------------------------------------------
(* normalize                                                               *)

Invalid(r) ==
  \/ DuplicateHeader(r.headers) \/ HeaderWithNewLine(r.headers)
  \/ \E n \in DOMAIN r.headers : Canonical(n) \in Reserved
  \/ Size(r.body) > MaxBody
  \/ r.attempts > MaxAttempts

Normalized(r) ==
  [body |-> r.body,
   headers |-> CanonicalHeaders(r.headers),
   attempts |-> IF r.attempts = 0 THEN DefaultAttempts ELSE r.attempts]

(* Requests whose headers have the given names, and headers of a message.  *)
Requests(names) ==
  [body : Seq(Pieces), headers : [names -> Seq(Pieces)], attempts : 1..MaxAttempts]
Fitting(headers) ==
  \E names \in SUBSET ToSet(Names) :
    /\ headers \in [names -> Seq(Pieces)] /\ Cardinality(names) <= MaxMessage
    /\ \A n \in names : Size(headers[n]) <= MaxMessage

(* fingerprint, before it is hashed: two forms of a normalized request.    *)
Glyphs == Pieces \union {Decimal(n) : n \in 0..MaxMessage} \union {"v2"}

(* The parts of the headers in the order of their names, and what follows. *)
Joined(parts, rest) ==
  LET last[k \in 0..Len(Names)] ==      \* of the last k names
        IF k = 0 THEN rest
        ELSE LET n == Names[Len(Names) - k + 1]
             IN  IF n \in DOMAIN parts THEN parts[n] \o last[k - 1] ELSE last[k - 1]
  IN  last[Len(Names)]

LineForm(r) ==
  <<Decimal(r.attempts), NewLine>>
  \o Joined([n \in DOMAIN r.headers |-> <<n, Colon>> \o r.headers[n] \o <<NewLine>>], r.body)

Field(pieces) == <<Decimal(Size(pieces)), Colon>> \o pieces

BinaryForm(r) ==
  <<"v2", Decimal(r.attempts), Decimal(Cardinality(DOMAIN r.headers))>>
  \o Joined([n \in DOMAIN r.headers |-> Field(<<n>>) \o Field(r.headers[n])], Field(r.body))

(* Mutant: every body is hashed in the form that was there first.          *)
FingerprintOfLines(r) == LineForm(r)

Fingerprint(r) ==
  IF r.body # <<>> /\ ~IsJSON(r.body) THEN BinaryForm(r) ELSE LineForm(r)

-----------------------------------------------------------------------------
(* Delivery.MarshalJSON, for the journal and for answers, and UnmarshalJSON*)
Encoded == [body : Seq(Pieces), base64 : Seq(Pieces)]

Marshaled(body) ==
  [body |-> IF IsJSON(body) THEN Tidied(body) ELSE <<>>,
   base64 |-> IF IsJSON(body) THEN <<>> ELSE body]

(* Mutant: a body comes back from the field for JSON alone.                *)
UnmarshaledBody(w) == w.body

Unmarshaled(w) == IF w.base64 # <<>> THEN w.base64 ELSE w.body
============================================================================
