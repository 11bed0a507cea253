SPECIFICATION FairSpec
CONSTANTS
  u1 = u1
  u2 = u2
  p = p
  Reqs = {r1}
  Calls <- MCCalls
  Authors = {u1, u2}
  Passages = {p}
  PassageOf <- MCPassageOf
  TopK = 1
  Workers = 1
  MaxProfiles = 1
  Delays <- OneRetry
  Timeout = 1
  Durations = {0}
INVARIANTS AnswersTrue RowsIssued LateTextsIgnored WithinBudget
PROPERTIES AnswersWithPassport AnswersOnce RequestsAnswered CallsReturn
CHECK_DEADLOCK FALSE
