SPECIFICATION FairSpec
CONSTANTS
    Ops = {o1, o2}
    a1 = a1
    a2 = a2
    Endpoints <- MCEndpoints
    MaxChanges = 3
    Nil = Nil
INVARIANTS PointerSound QuietWrite
 
