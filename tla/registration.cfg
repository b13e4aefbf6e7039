SPECIFICATION Spec
CONSTANTS
    p1 = p1
    Processes = {p1}
    NameOf <- OneName
    Calls = {"c1", "c2"}
    NoProcess = "none"
CHECK_DEADLOCK FALSE
INVARIANT
    NoDuplicateWorker
