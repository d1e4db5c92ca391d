CONSTANTS
    o1 = o1
    o2 = o2
    f1 = f1
    f2 = f2
    t1 = t1
    t2 = t2
    Null = Null
    Objects <- MCObjects
    Fns <- MCFns
    Types <- MCTypes
    OnePerType = FALSE
SPECIFICATION Spec
INVARIANTS RemoveClearsType
