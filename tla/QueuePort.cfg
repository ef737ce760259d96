\* Two of the engine's tasks call the port, up to four times between them; one
\* answer is lost or one caller dies.
CONSTANTS
    Caller = {c1, c2}
    k1 = k1
    k2 = k2
    k3 = k3
    k4 = k4
    k5 = k5
    hello = hello
    code = code
    Key = {k1, k2, k3, k4, k5}
    Uuid = {k1, k2, k3, k5}
    Content = {hello, code}
    DispatchRequest <- MCDispatchRequest
    SmsDedups = TRUE
    NoNotification = NoNotification
    MaxCalls = 4
    MaxFaults = 1
SPECIFICATION PortSpec
INVARIANTS
    PortTypeOK
    AcksCorrelate
    OneTextPerNotification
PROPERTIES
    ImplementsGateway
CHECK_DEADLOCK FALSE
