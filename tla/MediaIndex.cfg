\* One file and the temporary name of its writer, changes of the disk, edits and faults.
SPECIFICATION FairSpec
CONSTANTS
    Keys = {"title", "ed2k_hash"}
    Numerals = {"7"}
    Basename = "base"
    Values = {"nil", "x", "y", "path", "h"}
    Paths = {"p"}
    Tmp = "tmp"
    Roots = {"r1"}
    RootOf <- MCRootOf
    Types = {"film", "series"}
    Created = "series"
    Identity <- MCIdentity
    FileTags <- MCFileTags
    Patches <- MCPatches
    MaxChanges = 3
    MaxEdits = 1
    MaxFaults = 1
PROPERTIES  IndexConverges
