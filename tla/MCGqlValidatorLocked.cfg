\* The session changes once while the validator asks.
SPECIFICATION RequestSpec
CONSTANTS
  Radix = 4
  IdentChars = {1, 2}
  PrintableChars = {1, 2, 3}
  ReadOps <- MCReadOps
  WriteOps <- MCWriteOps
  MaxPayloadSize = 32
  MaxNamespaceLen = 2
  MaxEntryIDLen = 2
  MaxCategoryLen = 1
  MaxFieldKeyLen = 2
  MaxFieldValueLen = 3
  MaxFieldsCount = 2
  Queries <- MCQueries
  Users <- MCUsers
  MaxChanges = 1
CHECK_DEADLOCK FALSE
INVARIANT NamespaceMatches
