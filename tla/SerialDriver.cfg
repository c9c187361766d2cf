CONSTANTS
    h1 = h1
    h2 = h2
    h3 = h3
    None = None
    Hosts <- MCHosts
    DriverName <- MCDriverName
    MaxCalls <- MCMaxCalls
SPECIFICATION Spec
PROPERTY SerialToolSpec
\* The batch ends when every verb has returned.
CHECK_DEADLOCK FALSE
