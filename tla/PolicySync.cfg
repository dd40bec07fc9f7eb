SPECIFICATION Spec
CONSTANTS
    Paths <- MCPaths
    Prefixes <- MCPrefixes
    Covers <- MCCovers
    Length <- MCLength
    Policies <- SmallPolicies
    Appliers = {"poll"}
    PrefixCapacity = 2
    ExactCapacity = 1
    LSMEnabled = TRUE
INVARIANTS
    SettledMatches
    KeptRuleDenies
    NoStrayEntry
    FittingPolicyInstalled
