SPECIFICATION Spec
CONSTANTS
  Objects = 3
  Scenes <- AllScenes
PROPERTY Transparent
CHECK_DEADLOCK FALSE
