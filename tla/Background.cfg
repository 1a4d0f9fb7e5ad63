SPECIFICATION Spec
CONSTANTS
  h1 = h1
  h2 = h2
  s1 = s1
  s2 = s2
  w1 = w1
  w2 = w2
  w3 = w3
  i1 = i1
  i2 = i2
  NoStream = NoStream
  NoWorker = NoWorker
  MaxPid = 5
  Servers = {h1, h2}
  Streams = {s1, s2}
  Ttl = 1
  Workers = {w1, w2, w3}
  Tasks = {"push", "delete"}
  LockTtl = 1
  Items = {i1, i2}
  MaxDrafts = 3
  Workloads <- AllWork
CHECK_DEADLOCK FALSE
INVARIANTS
  BackgroundTypeOK
  OneWriterPerRole
  SerialCollectorsKnown
  LockedBodiesBounded
  OneDraftUndisturbed
  DraftsMappedUndisturbed
PROPERTY LeaseTakenOver
