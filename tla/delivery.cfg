SPECIFICATION DSpec
CONSTANTS
    s1 = s1
    s2 = s2
    c1 = c1
    c2 = c2
    c3 = c3
    Servers = {s1, s2}
    Users = {u1, u2}
    Groups = {}
    Msgs = {m1}
    Conns = {c1, c2, c3}
    ServerOf <- MCServerOf
    NoUser = NoUser
    NoConn = NoConn
    NoMsg = NoMsg
    ObserverThread = ObserverThread
    SerialLogins = TRUE
    SingleLogout = TRUE
    MaxDbFaults = 0
    MaxBusFaults = 0
    MaxPending = 1
    MaxCrashes = 0
    MaxSigints = 0
INVARIANTS
    UndisturbedExactlyOnce
    StoredOnlyWhileAway
SYMMETRY Symmetry
