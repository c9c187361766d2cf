CONSTANTS
    Drivers <- MCDrivers
    DriverFlags <- MCDriverFlags
    SharedFlags <- MCSharedFlags
    Words <- MCWords
    MaxFlags <- MCMaxFlags
SPECIFICATION Spec
INVARIANT CreateHonoursCommandLine
\* A create command runs once and returns.
CHECK_DEADLOCK FALSE
