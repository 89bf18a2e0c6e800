SPECIFICATION FairSpec
CONSTANTS
    s1 = s1
    s2 = s2
    c1 = c1
    c2 = c2
    c3 = c3
    Servers = {s1}
    Users = {u1, u2}
    Groups = {g1}
    Msgs = {m1}
    Conns = {c1, c2}
    ServerOf <- MCServerOf
    NoUser = NoUser
    NoConn = NoConn
    NoMsg = NoMsg
    ObserverThread = ObserverThread
    SerialLogins = TRUE
    SingleLogout = TRUE
    MaxDbFaults = 0
    MaxBusFaults = 0
    MaxPending = 1
    MaxCrashes = 0
    MaxSigints = 0
PROPERTIES
    HandlersFinish
    BusDrains
    ClosedGoesOffline
    PresenceCatchesUp
