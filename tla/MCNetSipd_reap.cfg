CONSTANTS
    Fds = {3, 4}
    Uids = {u1}
    NoUid = NoUid
    a1 = a1
    Addrs = {a1}
    NoAddr = NoAddr
    LocalOf <- OpenNet
    Ports = {5004, 5006}
    PingLimit = 1
    SteadyClock = FALSE
    MaxCalls = 2
SPECIFICATION FairSpec
PROPERTY DeadSessionsReaped
