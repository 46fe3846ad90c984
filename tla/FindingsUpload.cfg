CONSTANTS
  u1 = u1
  u2 = u2
  u3 = u3
  alice = alice
  bob = bob
  Students = {alice, bob}
  None = None
  Overlapping = FALSE
  Lookups <- AllAsk
  Breaking = {u1, u2}
  Uploads = {u1, u2}
  OwnerOf <- Owners2
  SizeOf <- Sizes2
  PublicUploads = {u2}
  MaxBufferSize = 3
  ChunkSizes = {1, 2}
SPECIFICATION Spec
\* TLC stops at the first it finds violated: keep one line.
PROPERTY UploadKeepsFiles
PROPERTY LookupKeepsFiles
INVARIANT SuccessIsTold
CHECK_DEADLOCK FALSE
