SPECIFICATION Spec
CONSTANTS
  Conns = {"c1", "c2", "c3"}
  ThreadOf <- MCThreadOf
  Requests <- MCRequests
  Dirs <- MCDirs
  Files <- MCFiles
  StartDir <- Home
  MaxFds = 2
  Builds = {"posix", "win32"}
INVARIANTS
  TypeOK
  ListingRight
  CompleteMeansOnDisk
PROPERTIES
  UploadFollowsListing
  EveryListingAnswered
\* Once every client is answered, or refused, nothing happens any more.
CHECK_DEADLOCK FALSE
