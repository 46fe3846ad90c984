\* A racing addFile ends the handler before it saves the file: SavedWhileConnected.
\* The completion message cannot be written: SavedWhileAlive.
\* TLC stops at the first it finds violated: keep one line.
SPECIFICATION FairSpec
CONSTANTS
  u1 = u1
  u2 = u2
  u3 = u3
  alice = alice
  bob = bob
  Students = {alice, bob}
  None = None
  Overlapping = TRUE
  Breaking = {u1}
  Lookups = {}
  Uploads = {u1, u2}
  OwnerOf <- Owners2
  SizeOf <- Sizes2
  PublicUploads = {u2}
  MaxBufferSize = 3
  ChunkSizes = {2}
PROPERTY SavedWhileConnected
PROPERTY SavedWhileAlive
CHECK_DEADLOCK FALSE
