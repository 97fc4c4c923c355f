SPECIFICATION Spec
CONSTANTS
    Admins = {a, b}
    Viewer = a
    a = a
    b = b
    Users <- MCUsers
    DefaultUser = 1
    Calls <- MCCalls
    Infos = {"old", "new"}
    Found <- MCFound
    Troubles <- MCTroubles
    MaxPost = 3
INVARIANTS TypeOK VersionTells 
CHECK_DEADLOCK FALSE
