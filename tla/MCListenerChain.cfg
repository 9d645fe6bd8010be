CONSTANTS
    A = A
    B = B
    a = a
    ab = ab
    none = none
    Servers = {A, B}
    Apps = {x, y}
    Requests = {a, ab, none}
    Has <- CHas
    Denies <- CDenies
    NoRequest = NoRequest
    NoServer = NoServer
    MaxRequests = 1
    MaxThrows = 1
SPECIFICATION FairSpec
CHECK_DEADLOCK FALSE
INVARIANTS
    TypeOK
    TakenOnce
    AskedOnce
PROPERTIES
    DispatchEnds
    ImplementsRouting
