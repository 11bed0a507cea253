SPECIFICATION ReliableSpec
CONSTANTS
  d1 = d1
  d2 = d2
  d3 = d3
  Unused = Unused
  Deleted = Deleted
  NoUuid = NoUuid
  NoDoc = NoDoc
  NoTask = NoTask
  Slugs = {austen, guest}
  Protected = {austen}
  Uuids = {u1, u2}
  Docs = {d1, d2}
  Tasks = {t1, t2, t3}
  Reqs = {r1}
  ChunkCount <- MCChunkCount
  MinEmbedded = 2
  HasDatabaseUrl = TRUE
CHECK_DEADLOCK FALSE
SYMMETRY Symmetry
INVARIANT HistoryIsPast
