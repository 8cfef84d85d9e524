CONSTANTS
    Senders = {s1, s2}
    Topics = {t1, t2}
    Handled = {t1}
    MaxRequests = 2
    MaxClients = 2
    MaxFaults = 1
SPECIFICATION Spec
SYMMETRY Symmetry
INVARIANTS OwnAnswer HandlersSubscribed ClosedStaysClosed
CHECK_DEADLOCK FALSE
