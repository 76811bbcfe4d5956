\* The admin saves another sheet while the worker runs.
SPECIFICATION Spec
CONSTANTS
  NoSheet = NoSheet
  Sheets = {env, admin}
  EnvSheet = env
  Sales = {a}
  Credentials = TRUE
  MaxFaults = 0
  MaxEdits = 0
  MaxSaves = 1
  MaxCrashes = 0
PROPERTIES
  NextSyncUsesSavedSheet
