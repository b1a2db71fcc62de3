CONSTANTS
  c1 = c1
  c2 = c2
  open = open
  other = other
  hidden = hidden
  Texts <- MCTexts
  Tidy <- MCTidy
  Width <- MCWidth
  Decimal <- MCDecimal
  Names <- MCNames
  Canonical <- MCCanonical
  Reserved = {"Host"}
  MaxBody = 5
  MaxMessage = 10
  DefaultAttempts = 2
  MaxAttempts = 3
  Addresses = {open, other, hidden}
  Blocked = {hidden}
  Resolutions <- MCResolutions
  Statuses = {200, 400, 503}
  NoAddress = NoAddress
  Redirects = 2
  Delays <- MCDelays
  Jitters = {0, 400}
  DurationBits = 8
  Clients = {c1, c2}
  Submissions <- MCSubmissions
  Nothing = Nothing
  ClaimBound = 2
SPECIFICATION Spec
SYMMETRY ClientSymmetry
INVARIANTS TypeOK AnswersTrue BodyKept EndsForReason DelaysDouble TargetReached
PROPERTIES AllAllowedDialed
\* Clients with their answers and a daemon without work are at rest.
CHECK_DEADLOCK FALSE
