SPECIFICATION Spec
CONSTANTS
  Covers = {A, B}
  ScreenSizes <- TwoAreas
  ScreenLasts <- Overlapping
  ScreenEvents = 5
  Lengths = {0, 1, 4, 19, 30}
  Texts = {0, 1, 30, 70}
  LayerSizes <- Thresholds
  PaneTerminals <- Narrow
  PaneTexts <- Wide
  PaneVisualisers = 3
  Bins = 4
  MaxEvents = 3
INVARIANTS InPlace CoverIsTheTracks ResizesAreSafe
PROPERTIES ComesToRest
CHECK_DEADLOCK FALSE
