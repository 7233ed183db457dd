CONSTANTS
    Datagrams <- MCDatagrams
    MaxSize = 3
    MaxArrivals = 5
    Nothing = Nothing

SPECIFICATION Spec
INVARIANT
    Reassembled
\* The packets of the bound have arrived.
CHECK_DEADLOCK FALSE
