\* RateLimiter: two callers that pass Check together, and failures into the last
\* tier; the four lockouts keep their order.
\* GqlValidator: radix 4 keeps every limit below the point where a length wraps,
\* and five fields exceed both the limit and the count; two changes of the session.
SPECIFICATION AdmissionSpec

CONSTANTS
  Subjects = {s1, s2}
  Callers = {c1, c2}
  NoSubject = NoSubject
  Minute = 1
  TenMinutes = 2
  Hour = 3
  Day = 4
  MaxAttempts = 22
  Radix = 4
  IdentChars = {1, 2}
  PrintableChars = {1, 2, 3}
  ReadOps <- MCReadOps
  WriteOps <- MCWriteOps
  MaxPayloadSize = 32
  MaxNamespaceLen = 2
  MaxEntryIDLen = 2
  MaxCategoryLen = 1
  MaxFieldKeyLen = 2
  MaxFieldValueLen = 3
  MaxFieldsCount = 2
  Queries <- MCQueries
  Users <- MCUsers
  MaxChanges = 2

INVARIANTS
  GuessesThrottled
  LockoutMatchesTier
  AcceptedAsSent
  AccessJustified

PROPERTY LockoutNeverShortened

\* A request ends with the verdict.
CHECK_DEADLOCK FALSE
