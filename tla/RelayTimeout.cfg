SPECIFICATION Spec
CONSTANTS
  MaxChildren = 1
  Settings <- TimedProxy
PROPERTIES ParentClosesChild
CHECK_DEADLOCK FALSE
