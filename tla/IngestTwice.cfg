SPECIFICATION MCSpec
CONSTANTS
  Kind <- AllKinds
  Scene <- LongShortScene
  MaxPosted = 4
  Window = 4
  Unlisted = {"Unl"}
  Adjusted = {"Adj"}
  None = None
CHECK_DEADLOCK FALSE
INVARIANTS
  NoCloseBookedTwice
