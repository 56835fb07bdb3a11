SPECIFICATION Spec
CONSTANTS
    Container = {c1, c2}
    Releases <- MCReleases
    Writes <- MCWrites
    Erases <- MCErases
    Parent <- MCParent
    Targets <- MCTargets
    MaxRows <- MCMaxRows
    MaxFaults = 2
INVARIANT DowngradesReachBase
CHECK_DEADLOCK FALSE
