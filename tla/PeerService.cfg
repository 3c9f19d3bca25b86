SPECIFICATION Spec
CONSTANTS
  Value = {v1, v2}
  NoArray = NoArray
  MaxElements = 4
  MaxAnnouncements = 3
CHECK_DEADLOCK FALSE
INVARIANT TypeOK
INVARIANT CopyIsTheSame
INVARIANT ObjectsAreOwned
INVARIANT OneElementAnnounced
PROPERTY LastElementIsAnnounced
