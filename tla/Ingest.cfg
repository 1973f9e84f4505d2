SPECIFICATION MCSpec
CONSTANTS
  Kind <- AllKinds
  Scene <- Scenes
  MaxPosted = 4
  Window = 3
  Unlisted = {"Unl"}
  Adjusted = {"Adj"}
  None = None
CHECK_DEADLOCK FALSE
INVARIANTS
  TypeOK
  RightOrRefused
PROPERTIES
  HealsToACleanIngest
  BookedStaysBooked
