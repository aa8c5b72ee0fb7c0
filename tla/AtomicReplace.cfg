SPECIFICATION Spec
CONSTANTS
  first = first
  second = second
  target = target
  temp1 = temp1
  temp2 = temp2
  backup1 = backup1
  backup2 = backup2
  Original = Original
  Absent = Absent
  Destination = target
  Paths <- MCPaths
  Replacers = {first, second}
  sourceOf <- MCSource
  backupOf <- MCBackup
  Faults = TRUE
PROPERTIES CopySurvives FailureKeepsOriginal OutcomeIsListed
CHECK_DEADLOCK FALSE
