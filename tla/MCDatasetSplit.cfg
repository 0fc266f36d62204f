\* Units of two by three cells; datasets of up to four bands either way.
CONSTANTS
  RowUnit = 2
  ColumnUnit = 3
  MaxRows = 8
  MaxColumns = 11
SPECIFICATION Spec
INVARIANTS
  EveryCellOnce
  OwnCells
\* An import ends.
CHECK_DEADLOCK FALSE
