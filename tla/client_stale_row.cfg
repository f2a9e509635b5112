SPECIFICATION Spec
CONSTANTS
  Dirs = {"./", "/disk/"}
  StartDir = "./"
  FirstDir = "/disk/"
  Names <- MCNames
  Columns <- MCColumns
  Stored <- MCStored
  Picks = {"u"}
  Sessions <- MCRefreshed
INVARIANTS
  RowsOfListing
\* The user may stop.
CHECK_DEADLOCK FALSE
