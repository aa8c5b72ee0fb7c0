SPECIFICATION ExtractSpec
CONSTANTS
  file = file
  file_1 = file_1
  file_1_1 = file_1_1
  file_2 = file_2
  Names <- MCNames
  alternatives <- MCAlternatives
  Absent = Absent
  Targets = {file, file_1}
  MaxEntries = 3
  Modes = {"ask", "overwrite", "skip", "rename_existing", "rename_extracted"}
  Policies = {"rollback", "keep_partial"}
INVARIANTS RollbackRestores NoDebris OriginalsSurvive ReportedIsExtracted
CHECK_DEADLOCK FALSE
