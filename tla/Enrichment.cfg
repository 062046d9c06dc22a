SPECIFICATION FairTasksSpec
CONSTANTS
  Keys <- MCKeys
  Numerals = {"1", "2"}
  Basename = "file"
  Videos = {1, 2}
  Inferred <- MCInferred
  Tags <- MCTags
  Langs = {"en", "fr"}
  Providers = {"a", "b"}
  Hashers = {"a"}
  Catalogs = {"a"}
  Stored <- MCStored
  SettingsInputs <- MCInputs
  Edits <- MCEdits
  Found <- MCFound
  Exts = {"jpg", "png"}
  Scenarios <- MCScenarios
  MaxEvents = 2
  MaxMishaps = 1
PROPERTIES TaskKeepsEdits ArtifactsSettle
CHECK_DEADLOCK FALSE
