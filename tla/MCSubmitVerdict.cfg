SPECIFICATION Spec
CONSTANTS
    Eans = {1, 2}
    Clients = {}
    Nobody = Nobody
    j1 = j1  j2 = j2  p1 = p1
    Jobs = {j1}
    Previews = {}
    DualAccount = {}
    Processes = {p1}
    Process <- OneTask
    Missing <- Two
    Concurrency = 2
    Environments = {{"uncounted"}}
INVARIANT DoneMeansListed
CHECK_DEADLOCK FALSE
