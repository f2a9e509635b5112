SPECIFICATION Spec
CONSTANTS
  Dirs = {"./", "/disk/"}
  StartDir = "./"
  FirstDir = "/disk/"
  Names <- MCNames
  Columns <- MCColumns
  Stored <- MCStored
  Picks = {"u"}
  Sessions <- MCSessions
INVARIANTS
  ClientTypeOK
  SettledShowsStore
  UploadGoesWhereShown
  DownloadFindsFile
  CrashNeedsBadName
PROPERTIES
  AllHandled
\* The user may stop.
CHECK_DEADLOCK FALSE
