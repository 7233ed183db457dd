CONSTANTS
    Datagrams <- MCDatagrams
    MaxSize = 3
    MaxArrivals = 5
    Nothing = Nothing

SPECIFICATION Spec
PROPERTY
    RestartMeansNew
\* The packets of the bound have arrived.
CHECK_DEADLOCK FALSE
