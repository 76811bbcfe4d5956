\* A sheet whose rows all stop parsing.
SPECIFICATION Spec
CONSTANTS
  NoSheet = NoSheet
  Sheets = {env, admin}
  EnvSheet = env
  Sales = {a}
  Credentials = TRUE
  MaxFaults = 0
  MaxEdits = 1
  MaxSaves = 0
  MaxCrashes = 0
PROPERTIES
  InvalidRowsReplaceNothing
