SPECIFICATION QueueSpec
CONSTANTS
    Operations = {o1, o2, o3, o4, o5, o6}
    Limit = 2
    MaxQueue = 3
INVARIANTS PermitsMatch WaitsOnlyWhenFull
PROPERTIES WaitEnds
