CONSTANTS
    o1 = o1
    o2 = o2
    f1 = f1
    f2 = f2
    t1 = t1
    t2 = t2
    Null = Null
    Objects <- MCObjects
    Fns <- MCOneFn
    Types <- MCTwoTypes
    OnePerType = TRUE
SPECIFICATION Spec
INVARIANTS RemoveClearsType
PROPERTIES CallbackRegistrySpec
