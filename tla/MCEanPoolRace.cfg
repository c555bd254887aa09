SPECIFICATION PoolSpec
CONSTANTS
    Eans = {1, 2}
    Clients = {c1, c2}
    Nobody = Nobody
PROPERTY UsedIsFinal
CHECK_DEADLOCK FALSE
