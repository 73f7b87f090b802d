SPECIFICATION MCSpec
CONSTANTS
    Definitions <- MCDefinitions
    GroupLists <- MCGroupLists
    Requests <- MCRequests
    OverrideLists <- MCOverrideLists
CHECK_DEADLOCK FALSE
INVARIANTS
    GroupsExpanded LastInheritedWins LinksResolved PushOverridden
    ErrorsExact EvaluatedOnce
    PlacedOnClosest AskedOnce
