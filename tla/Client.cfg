SPECIFICATION FairSpec
CONSTANTS
  Stations = 2
  Keys = {"2", "4", "a", "n", "x", ":", " ", "Down", "Enter", "Escape", "Backspace", "Toggle", "Quit"}
  Modes = 2
  VerbCapacity = 8
  QuitFrames = 2
  Hits = {0, 2}
  MaxKeys = 3
  MaxWaiting = 1
  MaxTroubles = 1
INVARIANTS PickerInStep
PROPERTIES BarClosesOnItsOwn SignInSettles SearchIsAsked QuitEnds
CHECK_DEADLOCK FALSE
