SPECIFICATION FairSpec
CONSTANTS
  Chars = {1, 2}
  Names = {1, 2}
  Faces = {1, 2}
  TypeIds = {11}
  CorpIds = {21}
  Saved = {1}
  Objects = {1, 2, 3}
  MaxStarts = 3
  MaxLogins = 2
  MaxPublished = 1
  MaxResponses = 2
  MaxCollected = 4
  MaxUnread = 1
  MaxEvents = 4
INVARIANTS
  TypeOK
  PicturesTrue
  OldPictureOnlyByOverlap
PROPERTIES
  StaleLoginRefused
  UnreadAnnounced
  RequestsEnd
CHECK_DEADLOCK FALSE
