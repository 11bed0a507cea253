SPECIFICATION Spec
CONSTANTS
  a1 = a1
  a2 = a2
  x = x
  f1 = f1
  f2 = f2
  f3 = f3
  u1 = u1
  Authors = {a1, a2}
  Custom = {x}
  FilesOf <- MCFilesOf
  Uploads = {}
  UploadBy <- MCUploadBy
  ChunkCount <- MCChunkCount
  BatchSize = 1
  Runs = {r1, r2}
  Invocations <- OneAuthor
INVARIANT ExitZeroComplete
CHECK_DEADLOCK FALSE
