SPECIFICATION Spec
CONSTANTS
  Screens <- MCScreens
  Xres = 8
  Yres = 2
  Needles <- MCNeedles
  Slack = 10
  MaxUpdates = 2
INVARIANTS ClosestIsTaken
