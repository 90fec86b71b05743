CONSTANTS
    p1 = p1
    p2 = p2
    p3 = p3
    p4 = p4
    k1 = k1
    k2 = k2
    k3 = k3
    Nil = Nil
    Peers = {p1, p2, p3, p4}
    Keys = {k1, k2, k3}
    Readers = {r1, r2}
    KeyOf <- MCKeyOf
    InitialCap = 2
SPECIFICATION Spec
INVARIANTS
    IndexConsistent
    SnapshotsStable
PROPERTY
    ImplementsTable
