SPECIFICATION Spec
CONSTANTS
    g1 = g1  sys = sys  t1 = t1  users = users  files = files
    c1 = c1  c2 = c2  c3 = c3
    Graphs = {g1}
    Tenants = {sys, t1}
    System = sys
    NoTenant = NoTenant
    Contexts = {users, files}
    Rotated <- ListOfTwo
    Calls = {c1, c2, c3}
    MaxRestarts = 1
SYMMETRY Symmetry
INVARIANTS
    IInv
    SameInstanceDecrypts
    CachedKeysExpire
CHECK_DEADLOCK FALSE
