CONSTANTS
    d1 = d1
    Null = Null
    Riders = {r1, r2}
    Drivers = {d1, d2}
    Vehicles = {v1, v2}
    Trips = {t1, t2}
    Clients = {c1, c2}
    Owner <- MCOwner
    MaxEarly = 1
SYMMETRY Everyone
SPECIFICATION ApexSpec
INVARIANTS
    ApexTypeOK
    SingleActive
    ReferencesExist
    ReviewsAreOfCompletedTrips
PROPERTIES
    ImplementsTripLifecycle
