SPECIFICATION FairSpec
CONSTANTS
  Users = {u1, u2}
  Workers = {w1, w2}
  Requests = {r1}
  ChunkSize = 1
  BatchSize = 2
  MaxAttempts = 2
  MayCancel = TRUE
  MaxCrashes = 1
INVARIANT TypeOK
INVARIANT RecipientsAreTracked
PROPERTY RecipientsAreHandled
PROPERTY QueuedIsDelivered
