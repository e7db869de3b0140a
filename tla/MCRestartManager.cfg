CONSTANTS
  Maxima <- UpToTwoBackups
  Width = 16
  MaxDump = 4
  None = None
SPECIFICATION Spec
INVARIANTS
NewestSurvives
BackupsUsable
