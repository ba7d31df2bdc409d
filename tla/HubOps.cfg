SPECIFICATION Spec
CONSTANTS
    None = None
    Conns = {c1, c2}
    Sessions = {s1, s2}
    Landings = {s1}
    Menus <- SomeMenus
    MaxRequests = 2
    MaxTitles = 1
    MaxTicks = 1
INVARIANT DrainedListsAreRight
PROPERTY ListsNeverGoBack
PROPERTY ImplementsOpService
CHECK_DEADLOCK FALSE
