SPECIFICATION Spec
CONSTANTS
    old = old
    new = new
    edited = edited
    faulty = faulty
    Releases = {old, new, edited, faulty}
    Catalog <- MCCatalog
    Broken = {"broken"}
    Workers = {w1, w2}
    Requests = {q1, q2}
    MaxConns = 1
INVARIANTS
    TypeOK
    GracefulDrain
PROPERTIES
    UpgradesAreWhole
    ServiceStops
