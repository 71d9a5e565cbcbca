SPECIFICATION Spec
CONSTANTS
    Names = {1, 2}
    Criteria = {any}
    AnyRequest = any
    Callers = {c1, c2}
    Requests = {r1}
    None = None
    MaxChanges = 3
    Cached = {2}
INVARIANT TypeOK
INVARIANT IndexCurrent
INVARIANT OptionsCurrent
PROPERTY PagesCleared
CHECK_DEADLOCK FALSE
