\* Two files over any number of runs, a disk that may fill at any record, and a
\* clock of two readings that is set back at any time.
SPECIFICATION Spec
CONSTANTS
  Sides = {"BUY", "NONE"}
  Folders = {"logs"}
  Figures = {1, 2}
  MaxFiles = 2
  MaxRecords = 2
  MaxClock = 1
INVARIANTS FileShowsLog NoGaps LogsSurvive
