CONSTANTS
    t1 = t1
    t2 = t2
    t3 = t3
    Ops <- MCOps
    Capacity = 2
SPECIFICATION Spec
INVARIANTS TypeOK NoneTwice Consistent
PROPERTY Delivered
