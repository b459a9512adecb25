SPECIFICATION MCSpec
CONSTANTS
    None = None
    Owner = {o1, o2}
    Monday = Monday
    Tuesday = Tuesday
    Scope = {Monday, Tuesday}
    DueHour = {Monday}
    Hour <- MCHour
    TTL = 1
    LastUnit = 2
    Scheduler = {s1, s2}
    Handler = {h1}
    Address = {a, b}
    MaxFaults = 2
INVARIANTS TypeOK SentIsReal ClosedOwesNobody
PROPERTIES WindowsAreExclusive
CHECK_DEADLOCK FALSE
SYMMETRY Symmetry
