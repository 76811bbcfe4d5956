\* Edits, saves, failed calls and restarts in any order.
SPECIFICATION FairSpec
CONSTANTS
  NoSheet = NoSheet
  Sheets = {env, admin}
  EnvSheet = env
  Sales = {a}
  Credentials = TRUE
  MaxFaults = 1
  MaxEdits = 1
  MaxSaves = 1
  MaxCrashes = 1
INVARIANTS
  TypeOK
  PlacesAgree
PROPERTIES
  LastGoodRetained
  Freshens
  PollsGoOn
