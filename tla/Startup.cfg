CONSTANTS
    Unset = Unset
    Worlds <- MCWorlds
SPECIFICATION Spec
INVARIANTS
    ConfigSettles
    EveryShardLoaded
    DrafterFed
CHECK_DEADLOCK FALSE
