CONSTANTS
  Windows = {w1, w2, w3}
  Width = 2
  Height = 3
  Titlebar = 1
  MaxVersion = 1
  MaxEntries = 3
  Places <- MCPlaces
SYMMETRY Alike
SPECIFICATION Spec
INVARIANT DrawsLiveWindows
PROPERTY EndRepairsScreen
\* system_init ends, or a fault ends it.
CHECK_DEADLOCK FALSE
