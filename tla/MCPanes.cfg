SPECIFICATION Spec
CONSTANTS
  MinPercent = 30
  MaxPercent = 50
  DefaultPercent = 50
  Step = 20
  Heights = {11}
  Lists <- SomeLists
  RowCounts = {0, 3}
INVARIANTS
  TypeOK
  SelectionIsVisible
  LayoutIsCurrent
  BottomModeIsRemembered
PROPERTIES
  BottomKeysShowCursor
