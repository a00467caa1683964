SPECIFICATION ScreensSpec
CONSTANTS
  MaxOpen = 2
  MaxEvents = 1
PROPERTY Escapable
INVARIANTS PanelFollowsFlag
CHECK_DEADLOCK FALSE
