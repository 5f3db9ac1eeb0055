SPECIFICATION Spec
CONSTANTS
  Owner = {o}
  Inspector = {i}
  Name = {n1, n2}
  NoName = NoName
  MaxSegments = 2
  MaxFaults = 2
  MaxCrashes = 1
SYMMETRY Symmetry
INVARIANTS PointersRight NothingHeld SizedWhenRead ListsWhatStays
