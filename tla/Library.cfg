\* Two libraries, three folders, two files, a viewer and an administrator; two calls at a time,
\* of which one adds a root.
SPECIFICATION Spec
CONSTANTS
    Libs = {"L1", "L2"}
    Users = {"u", "admin"}
    Admins = {"admin"}
    RootPaths <- MCRootPaths
    Files <- MCFiles
    Types = {"film", "series"}
    Episode <- MCEpisode
    TV = "u"
    Seeds <- MCSeeds
    Patches <- MCPatches
    Savers = {"u"}
    Saved <- MCSaved
    Wants <- MCWants
    Scenarios <- MCScenarios
    MaxFlight = 2
    MaxAdds = 1
INVARIANTS  ShownIsReadable
  
CHECK_DEADLOCK FALSE
