SPECIFICATION FairSpec
CONSTANTS
  Disks = {d1, d2}
  None = none
  Pieces = 2
  MaxChanges = 3
  MaxCuts = 2
INVARIANT RunsWhatIsStored NoFalseAlarm
PROPERTY KeepsChoice BootsInTheEnd
CHECK_DEADLOCK FALSE
