SPECIFICATION Spec
CONSTANTS
    Fuel = 6
    AwaitValue <- MCAwaitValue
    MaxLen = 3
INVARIANTS
    AsyncTextFollowsSource
    MethodTextFollowsSource
    SuspensionsAreFound
    CallsFollowConnections
    ActivitiesKeepOrder
    LayoutsAndAccessesAgree
    FilesCompile
    BitsFollowSource
