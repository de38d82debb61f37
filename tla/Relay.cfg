SPECIFICATION Spec
CONSTANTS
  MaxChildren = 2
  Settings <- RelaySettings
INVARIANTS NeverNull DataInOrder BuffersFit OneOperation CycleBroken SomethingUnderWay
PROPERTIES CloseTogether
CHECK_DEADLOCK FALSE
