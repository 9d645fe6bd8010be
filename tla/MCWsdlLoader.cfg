\* Two calls over documents that include one another, some of which fail.
SPECIFICATION FairSpec
CONSTANTS
    c1 = c1
    c2 = c2
    root = root
    mid = mid
    leaf = leaf
    outer = outer
    late = late
    bad = bad
    n1 = n1
    n2 = n2
    NoCall = NoCall
    NoFile = NoFile
    Call = {c1, c2}
    Url = {root, mid, outer, bad}
    File = {root, mid, leaf, outer, late, bad}
    Namespace = {n1, n2}
    Document <- MCDocument
    OverrideMayThrow = TRUE
    MaxThrows = 3
INVARIANTS
    TypeOK
    CallbacksPaidByThrows
    SuccessIsWhole
    CacheIsSound
    IncludesEnteredOnce
PROPERTIES
    Answered
    ImplementsProvider
CHECK_DEADLOCK FALSE
