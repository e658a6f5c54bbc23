SPECIFICATION GraphSpec
CONSTANTS
    Stack = {"web", "db"}
    Strangers = {"ghost"}
    Volumes = {"data"}
    Networks = {"web", "db"}
    Files <- SmallFiles
CHECK_DEADLOCK FALSE
INVARIANTS
    DependenciesFirst
