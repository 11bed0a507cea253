SPECIFICATION ClientSpec
CONSTANTS
  u = u
  Reqs = {r1}
  Calls <- MCCalls
  Authors = {u}
  Passages = {}
  PassageOf <- MCPassageOf
  TopK = 1
  Workers = 2
  MaxProfiles = 1
  Delays <- RetryDelays
  Timeout = 15
  Durations = {8}
  ClientTimeout = 20
INVARIANT ClientOutlivesServer
CHECK_DEADLOCK FALSE
