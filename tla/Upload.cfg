\* Two students with requests in flight together, unsynchronized lists.
SPECIFICATION FairSpec
CONSTANTS
  u1 = u1
  u2 = u2
  u3 = u3
  alice = alice
  bob = bob
  Students = {alice, bob}
  None = None
  Breaking = {u3}
  Overlapping = TRUE
  Lookups <- BobAsks
  Uploads = {u1, u2, u3}
  OwnerOf <- Owners3
  SizeOf <- Sizes3
  PublicUploads = {u2}
  MaxBufferSize = 4
  ChunkSizes = {2}
INVARIANTS TypeOK BufferAccounts LockStep ListedIsComplete DoneIsReceived
PROPERTIES ImplementsService UploadCompletes
CHECK_DEADLOCK FALSE
