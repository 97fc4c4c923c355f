CONSTANTS
    Fds = {3, 4, 5}
    Uids = {u1, u2}
    NoUid = NoUid
    a1 = a1
    Addrs = {a1}
    NoAddr = NoAddr
    LocalOf <- OpenNet
    Ports = {5004, 5006, 5008}
    PingLimit = 0
    SteadyClock = TRUE
    MaxCalls = 2
SPECIFICATION Spec
SYMMETRY UserSymmetry
VIEW CallView
INVARIANTS TypeOK CallFieldsAgree RowSharedByFarEnds HeldRowIsOpen PortsDistinct
PROPERTY ToldWhenCallEnds
