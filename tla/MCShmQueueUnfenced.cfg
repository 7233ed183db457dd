SPECIFICATION Spec
CONSTANTS
    Size = 3
    Items = {a, b}
    NoItem = NoItem
    Torn = Torn
    Fenced = FALSE
    MaxPush = 3
    MaxFail = 1
INVARIANT
    PublishedComplete
CHECK_DEADLOCK FALSE
