CONSTANTS
    c1 = c1
    c2 = c2
    c3 = c3
    u1 = u1
    u2 = u2
    u3 = u3
    a1 = a1
    Clients = {c1}
    NoClient = NoClient
    Account <- AccountOf
    Host <- HostOf
    Names <- Others
    Decodes <- AllDecode
    NoMedia = NoMedia
    Pinging = TRUE
    Budget <- Trouble
    Fds = {3, 4, 5}
    Uids = {u1, u2}
    NoUid = NoUid
    Addrs = {a1}
    NoAddr = NoAddr
    LocalOf <- OpenNet
    Ports = {5004, 5006}
    PingLimit = 1
    SteadyClock = TRUE
    MaxCalls = 2
SPECIFICATION FairSystemSpec
PROPERTY EventuallyLoggedIn
