SPECIFICATION SceneSpec
CONSTANTS
    Eans = {1, 2}
    Clients = {c1}
    Nobody = Nobody
    j1 = j1  j2 = j2  j3 = j3  j4 = j4  j5 = j5
    p1 = p1  p2 = p2
    Jobs = {j1, j2, j3, j4, j5}
    Previews = {j5}
    DualAccount = {j1, j2}
    Processes = {p1, p2}
    Process <- Tasks
    Missing <- Variants
    Concurrency = 2
    Environments <- Weathers
INVARIANTS TypeOK NoDoubleListing NoForgottenReservation DoneMeansListedIfCounted UsedIsListed AvailabilityAfterCreation
PROPERTIES AllocationSpec UsedStays SubmissionSettles
CHECK_DEADLOCK FALSE
