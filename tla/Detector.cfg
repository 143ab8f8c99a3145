SPECIFICATION DetectorSpec
CONSTANTS
  Guests = {v1}
  GuestStates <- MCStates
  Jobs = {"active", "failed"}
  MaxErrs = 2
INVARIANTS
  StoryTrue
  ErrorsTold
  NoPhantomErrors
CHECK_DEADLOCK FALSE
