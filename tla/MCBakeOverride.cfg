SPECIFICATION MCSpec
CONSTANTS
    Definitions <- MCDefinitions
    GroupLists <- MCGroupLists
    Requests <- MCRequests
    OverrideLists <- MCOverrideLists
CHECK_DEADLOCK FALSE
INVARIANT OverrideTakesEffect
