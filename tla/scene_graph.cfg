SPECIFICATION Spec
CONSTANTS
    Files <- SmallFiles
    Times = {0, 2, 3, 6}
CHECK_DEADLOCK FALSE
INVARIANTS
    TypeOK
    GeometryIsKept
    WorldTransformsFollowTheTree
    TrianglesStayTogether
    AnimationFollowsTheFile
    FailuresHaveACause
