SPECIFICATION CliSpec
CONSTANTS
  u1 = u1
  u2 = u2
  d1 = d1
  d2 = d2
  austen = austen
  guest = guest
  Unused = Unused
  Deleted = Deleted
  NoUuid = NoUuid
  NoDoc = NoDoc
  NoTask = NoTask
  Slugs = {austen, guest}
  Protected = {austen}
  Uuids = {u1, u2, u3}
  Docs = {d1, d2}
  Tasks = {t1, t2, t3}
  Reqs = {r1}
  ChunkCount <- MCChunkCount
  Seedings <- MCSeedings
  SlugOf <- MCSlugOf
  Place <- MCPlace
  MaxRuns = 2
  MinEmbedded = 2
  HasDatabaseUrl = TRUE
CHECK_DEADLOCK FALSE
SYMMETRY Slots
INVARIANTS RerunRepairs ScriptsSerialize NoCircularWait SettlesUnaided
