SPECIFICATION Spec
CONSTANTS
    Container = {c1, c2}
    Releases <- MCReleases
    Writes <- MCWrites
    Erases <- MCErases
    Parent <- MCParent
    Targets <- MCTargets
    MaxRows <- MCMaxRows
    MaxFaults = 2
INVARIANTS
    TypeOK
    SchemaFollowsRevision
    RefusedForCause
    DowngradeRefusedForCause
    ServesItsSchema
PROPERTY HeadIsSeeded
SYMMETRY Symmetry
CHECK_DEADLOCK FALSE
