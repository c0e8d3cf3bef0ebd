SPECIFICATION Spec
CONSTANTS
  None = None
  site = site  far = far  near = near  lan = lan
  Host = {site}
  Address = {far, near, lan}
  Public = {far, near}
  Rival = {near, lan}
  MaxBytes = 2
CHECK_DEADLOCK FALSE
INVARIANT StagedOrUntouched
INVARIANT ReportIsTrue
PROPERTY ConfirmedIsAll
