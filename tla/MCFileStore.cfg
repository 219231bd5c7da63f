\* Two uploads, a PUT, a download and a delete of one name.
CONSTANTS
  Uploads = {u1, u2}
  Puts = {p}
  Downloads = {d}
  Deletes = {x}
  Length <- MCLength
  First = u1
  Old = Old
  NoFile = NoFile
SPECIFICATION Spec
INVARIANTS DownloadIsSnapshot Stored UploadsInOrder
PROPERTY DownloadsEnd
CHECK_DEADLOCK FALSE
