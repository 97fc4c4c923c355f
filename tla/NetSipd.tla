------------------------------- MODULE NetSipd -------------------------------
(***************************************************************************)
(* The signalling daemon netsipd: the table of control connections that    *)
(* MainObject keeps (sip_connections), the handlers it runs for a command, *)
(* for a closed socket and for its timers, and the two columns of the      *)
(* database that outlive a connection: USERS.ONLINE and                    *)
(* CALLS.END_DATETIME.                                                     *)
(*                                                                         *)
(* The daemon is one thread around a Qt event loop, so a handler is one    *)
(* atomic action.  pingTimerData is the exception: it logs out several     *)
(* connections in one sweep, and is modelled as a sweep of one action per  *)
(* connection (variable walk) during which no other handler runs.          *)
(*                                                                         *)
(* What a client may send is left open here: any command, in any order,    *)
(* over any connection whose socket is open.  NetIsdn.tla closes the       *)
(* system with the clients' code.                                          *)
(***************************************************************************)
EXTENDS Integers, Sequences, FiniteSets

CONSTANTS
    Fds,        \* socket descriptors: the keys of sip_connections
    Uids,       \* the IDs of the rows of USERS
    NoUid,      \* conn_uid of a connection nobody logged in over (0)
    Addrs,      \* network addresses
    NoAddr,     \* the null QHostAddress
    LocalOf,    \* LocalOf[a]: local addresses of the hosts seen as address a
    Ports,      \* the RTP ports GeneratePort counts through (5004, 5006, ...)
    PingLimit,  \* NETSIPD_PING_TIMEOUT / NETSIPD_PING_INTERVAL
    SteadyClock, \* local time moves on between any two calls of one user
    MaxCalls    \* bound: rows inserted into CALLS

ASSUME FdsAssumption == Fds \subseteq Nat
ASSUME UidsAssumption == NoUid \notin Uids
ASSUME AddrsAssumption ==
    /\ NoAddr \notin Addrs
    /\ LocalOf \in [Addrs -> SUBSET Addrs]
ASSUME PortsAssumption == Ports \subseteq Nat \ {0}
ASSUME ClockAssumption == SteadyClock \in BOOLEAN
ASSUME LimitsAssumption == PingLimit \in Nat /\ MaxCalls \in Nat

VARIABLES
    up,       \* the daemon process is running
    conns,    \* the keys present in sip_connections
    sock,     \* sock[f]: f's socket is open (Qt closes it when it reads EOF)
    addr,     \* socket()->peerAddress()
    zombie,   \* conn_zombie: killed, waiting for zombieData
    age,      \* pings sent since conn_ping_timestamp was last set
    uid,      \* conn_uid: the user named by the last LI that named one
    auth,     \* conn_is_authenticated
    laddr,    \* conn_local_address: what the client said in LI
    peer,     \* conn_connection_fd: the other end of the call
    cid,      \* conn_cid: the call's row in CALLS
    port,     \* conn_source_port
    walk,     \* connections pingTimerData has still to visit
    reap,     \* sip_zombie_timer is running
    online,   \* users whose USERS.ONLINE is 'Y'
    calls,    \* the rows of CALLS by ID (auto_increment): their ORIG_UID
    ended,    \* rows of CALLS with END_DATETIME set
    out       \* out[f]: commands written to f's socket by the last step

sockVars == <<conns, sock, addr, zombie, age>>
idVars   == <<uid, auth, laddr>>
callVars == <<peer, cid, port>>
timeVars == <<walk, reap>>
dbVars   == <<online, calls, ended>>
vars == <<up, sockVars, idVars, callVars, timeVars, dbVars, out>>

nrows == Len(calls)

NoFd  == -1
NoCid == -1

\* NetConfig::ResponseCode, less the code that is never sent as an ER
ResponseCode == {1, 2, 3, 4, 5, 10, 11, 12, 13, 14}
ER(code) == [cmd |-> "ER", code |-> code]
Plain(c) == [cmd |-> c]

\* What one client can have forwarded to the other: its codebook, or an error
Forwardable == {Plain("CB"), ER(14)}

Message ==
    [cmd : {"LI", "OK", "MS", "PG", "CB"}]
    \union [cmd : {"ER"}, code : ResponseCode]
    \union [cmd : {"ME"}, src : Ports, to : Addrs \union {NoAddr}, dst : Ports]

-----------------------------------------------------------------------------
Silence == [g \in Fds |-> <<>>]
Tell(f, msgs) == [g \in Fds |-> IF g = f THEN msgs ELSE <<>>]

\* The handlers of the event loop run only between two sweeps of pingTimerData
Idle == up /\ walk = {}
Command(f) == Idle /\ f \in conns /\ sock[f]

LoggedIn(f) == auth[f] /\ uid[f] # NoUid

\* sip_connections[connectionFd()] has no entry: operator[] inserts a NULL
\* pointer and the member call on it kills the process
Dangling(f) == peer[f] # NoFd /\ peer[f] \notin conns

\* Mutant: the loop never counts past the first port
FirstPort(p, a, pt) == \A q \in Ports : p <= q

\* The least port no connection from address a uses, given source ports pt
IsGeneratedPort(p, a, pt) ==
    LET used == {pt[g] : g \in {h \in conns : addr[h] = a}}
    IN  /\ p \notin used
        /\ \A q \in Ports : q < p => q \in used

Cleared(fn, F, default) == [g \in Fds |-> IF g \in F THEN default ELSE fn[g]]

\* The sessions of F are gone from the table; SipConnection::clear() will set
\* the same values for the next connection that gets the number
Forget(F) ==
    /\ uid'   = Cleared(uid, F, NoUid)
    /\ auth'  = Cleared(auth, F, FALSE)
    /\ laddr' = Cleared(laddr, F, NoAddr)
    /\ peer'  = Cleared(peer, F, NoFd)
    /\ cid'   = Cleared(cid, F, NoCid)
    /\ port'  = Cleared(port, F, 0)

DropSockets(F) ==
    /\ conns'  = conns \ F
    /\ sock'   = Cleared(sock, F, FALSE)
    /\ addr'   = Cleared(addr, F, NoAddr)
    /\ zombie' = Cleared(zombie, F, FALSE)
    /\ age'    = Cleared(age, F, 0)

Init ==
    /\ up = TRUE
    /\ conns = {}
    /\ sock = [f \in Fds |-> FALSE]
    /\ addr = [f \in Fds |-> NoAddr]
    /\ zombie = [f \in Fds |-> FALSE]
    /\ age = [f \in Fds |-> 0]
    /\ uid = [f \in Fds |-> NoUid]
    /\ auth = [f \in Fds |-> FALSE]
    /\ laddr = [f \in Fds |-> NoAddr]
    /\ peer = [f \in Fds |-> NoFd]
    /\ cid = [f \in Fds |-> NoCid]
    /\ port = [f \in Fds |-> 0]
    /\ walk = {}
    /\ reap = FALSE
    /\ online = {}
    /\ calls = <<>>
    /\ ended = {}
    /\ out = Silence

\* The process is gone: every socket closes, the database stays as it is
Crash ==
    /\ up' = FALSE
    /\ DropSockets(Fds)
    /\ Forget(Fds)
    /\ walk' = {}
    /\ reap' = FALSE
    /\ UNCHANGED dbVars
    /\ out' = Silence

-----------------------------------------------------------------------------
\* Mutants: the far end is sent nothing; the BY is passed on to it
StopMediaNearOnly(f, before) ==
    [g \in Fds |-> IF g = f THEN before \o <<Plain("MS")>> ELSE <<>>]
StopMediaForwardsBye(f, before) ==
    [g \in Fds |-> IF g = peer[f] THEN <<Plain("BY")>> ELSE <<>>]

\* MS to the far end, then to f, after the replies in before
StopMedia(f, before) ==
    [g \in Fds |-> (IF g = f THEN before ELSE <<>>)
                   \o (IF g = peer[f] THEN <<Plain("MS")>> ELSE <<>>)
                   \o (IF g = f THEN <<Plain("MS")>> ELSE <<>>)]

\* Mutant: the update has no where clause
EveryRow(f) == 1..nrows

\* The far end is cleared before f's cid is read, so when f is its own far end
\* the update says "where ID=-1" and ends no row
RowEndedBy(f) == IF cid[f] = NoCid \/ peer[f] = f THEN {} ELSE {cid[f]}

\* The sessions a call's end clears
BothEnds(f) == {f, peer[f]}

\* Mutant: the source ports stay
HangUpKeepsPorts(f) ==
    /\ peer' = Cleared(peer, BothEnds(f), NoFd)
    /\ cid'  = Cleared(cid, BothEnds(f), NoCid)
    /\ ended' = ended \union RowEndedBy(f)
    /\ out' = StopMedia(f, <<>>)
    /\ UNCHANGED port

\* EndCall's effect on the call of f
HangUp(f) ==
    /\ peer' = Cleared(peer, BothEnds(f), NoFd)
    /\ cid'  = Cleared(cid, BothEnds(f), NoCid)
    /\ port' = Cleared(port, BothEnds(f), 0)
    /\ ended' = ended \union RowEndedBy(f)
    /\ out' = StopMedia(f, <<>>)

\* Logout(f) with the replies in before already written to f, followed, for the
\* sessions in gone, by their deletion.  EndCall runs only for a session with a
\* cid; without one just the two connectionFd are cleared.  isAuthenticated
\* stays set.
Logout(f, before, gone) ==
    LET self     == IF LoggedIn(f) THEN {f} ELSE {}
        unpaired == IF LoggedIn(f) THEN BothEnds(f) ELSE {}
        hungup   == IF cid[f] # NoCid THEN unpaired ELSE {}
    IN  /\ peer' = Cleared(peer, unpaired \union gone, NoFd)
        /\ cid'  = Cleared(cid, hungup \union gone, NoCid)
        /\ port' = Cleared(port, hungup \union gone, 0)
        /\ uid'  = Cleared(uid, self \union gone, NoUid)
        /\ laddr' = Cleared(laddr, self \union gone, NoAddr)
        /\ auth' = Cleared(auth, gone, FALSE)
        /\ online' = IF LoggedIn(f) THEN online \ {uid[f]} ELSE online
        /\ ended' = IF LoggedIn(f) THEN ended \union RowEndedBy(f) ELSE ended
        /\ out' = IF f \in hungup THEN StopMedia(f, before) ELSE Tell(f, before)

\* socketKill(fd), the replies in before already written to f
SocketKill(f, before) ==
    \/ /\ zombie[f]
       /\ out' = Tell(f, before)
       /\ UNCHANGED <<zombie, reap, idVars, callVars, online, ended>>
    \/ /\ ~zombie[f]
       /\ Logout(f, before, {})
       /\ zombie' = [zombie EXCEPT ![f] = TRUE]
       /\ reap' = TRUE

\* Whether socketKill(f) reaches a far end that is not there
KillCrashes(f) == ~zombie[f] /\ LoggedIn(f) /\ Dangling(f)

Refuse(f, code) ==
    \/ KillCrashes(f) /\ Crash
    \/ /\ ~KillCrashes(f)
       /\ SocketKill(f, <<ER(code)>>)
       /\ UNCHANGED <<up, conns, sock, addr, age, walk, calls>>

-----------------------------------------------------------------------------
\* A connection arrives.  f may still be in the table: Qt closed the socket on
\* EOF, the kernel gave its number away, and zombieData has not run yet.
NewConnection(f, a) ==
    /\ Idle
    /\ f \in conns => ~sock[f]
    /\ conns' = conns \union {f}
    /\ sock' = [sock EXCEPT ![f] = TRUE]
    /\ addr' = [addr EXCEPT ![f] = a]
    /\ zombie' = [zombie EXCEPT ![f] = FALSE]
    /\ age' = [age EXCEPT ![f] = 0]
    /\ Forget({f})
    /\ out' = Silence
    /\ UNCHANGED <<up, timeVars, dbVars>>

\* The client's end of the socket closes: connectionClosed() -> socketKill()
ConnectionClosed(f) ==
    /\ Command(f)
    /\ \/ KillCrashes(f) /\ Crash
       \/ /\ ~KillCrashes(f)
          /\ sock' = [sock EXCEPT ![f] = FALSE]
          /\ SocketKill(f, <<>>)
          /\ UNCHANGED <<up, conns, addr, age, walk, calls>>

\* LI with a name that is in USERS, from a host whose own address is a
Login(f, u, a) ==
    /\ Command(f)
    /\ a \in LocalOf[addr[f]]
    /\ uid' = [uid EXCEPT ![f] = u]
    /\ laddr' = [laddr EXCEPT ![f] = a]
    /\ out' = Tell(f, <<Plain("LI")>>)
    /\ UNCHANGED <<up, sockVars, auth, callVars, timeVars, dbVars>>

\* LI with a name that is not: challenged like any other, nothing recorded
LoginUnknown(f) ==
    /\ Command(f)
    /\ out' = Tell(f, <<Plain("LI")>>)
    /\ UNCHANGED <<up, sockVars, idVars, callVars, timeVars, dbVars>>

\* LI or PW with the wrong number of words
Malformed(f) == Command(f) /\ Refuse(f, 3)

\* GetFdByUid(uid(), fd) >= 0
InUseElsewhere(f) == \E g \in conns \ {f} : uid[g] = uid[f]

\* PW; matches says whether the response equals the stored hash
Password(f, matches) ==
    /\ Command(f)
    /\ \/ (uid[f] = NoUid \/ ~matches) /\ Refuse(f, 1)
       \/ uid[f] # NoUid /\ matches /\ InUseElsewhere(f) /\ Refuse(f, 2)
       \/ /\ uid[f] # NoUid /\ matches /\ ~InUseElsewhere(f)
          /\ auth' = [auth EXCEPT ![f] = TRUE]
          /\ online' = online \union {uid[f]}
          /\ out' = Tell(f, <<Plain("OK")>>)
          /\ UNCHANGED <<up, sockVars, uid, laddr, callVars, timeVars,
                         calls, ended>>

\* Any other command before the first successful PW
Unauthenticated(f) == Command(f) /\ ~auth[f] /\ Refuse(f, 5)

-----------------------------------------------------------------------------
\* The last entry of the table that carries u's ID, whoever authenticated it
IsConnectionOf(d, u) ==
    /\ d \in conns /\ uid[d] = u
    /\ \A g \in conns : uid[g] = u => g <= d

\* CA refused: malformed or with an unknown name (3, 11); u is not in the table,
\* or in a call already (12, 13)
CallRefused(f, u, code) ==
    /\ Command(f) /\ auth[f]
    /\ \/ code \in {3, 11}
       \/ code = 12 /\ \A g \in conns : uid[g] # u
       \/ code = 13 /\ \E d \in conns : IsConnectionOf(d, u) /\ peer[d] # NoFd
    /\ out' = Tell(f, <<ER(code)>>)
    /\ UNCHANGED <<up, sockVars, idVars, callVars, timeVars, dbVars>>

\* Mutant: the rows are read in ascending order
OldestRow(f) == {1}

\* The rows that "where ORIG_UID=... order by START_DATETIME desc" may put first
\* after the insert.  START_DATETIME is local time in whole seconds: it ties for
\* two calls within one second, and goes back when daylight saving time ends.
LatestRow(f) ==
    IF SteadyClock THEN {nrows + 1}
    ELSE {nrows + 1} \union {i \in 1..nrows : calls[i] = uid[f]}

\* CA that sets up the call of f to u, who is at d.  Two hosts behind one
\* address are told each other's local address.
InitiateCall(f, u, d) ==
    LET near == addr[f] = addr[d]
        srcAddr == IF near THEN laddr[f] ELSE addr[f]
        dstAddr == IF near THEN laddr[d] ELSE addr[d]
    IN  /\ Command(f) /\ auth[f]
        /\ IsConnectionOf(d, u)
        /\ peer[d] = NoFd
        /\ nrows < MaxCalls
        /\ peer' = [peer EXCEPT ![f] = d, ![d] = f]
        /\ calls' = Append(calls, uid[f])
        /\ \E row \in LatestRow(f) : cid' = [cid EXCEPT ![f] = row, ![d] = row]
        /\ \E p, q \in Ports :
             /\ IsGeneratedPort(p, srcAddr, port)
             /\ IsGeneratedPort(q, dstAddr, [port EXCEPT ![f] = p])
             /\ port' = [port EXCEPT ![f] = p, ![d] = q]
             /\ out' = [g \in Fds |->
                  (IF g = f
                   THEN <<ER(10), [cmd |-> "ME", src |-> port'[f],
                                   to |-> dstAddr, dst |-> port'[d]]>>
                   ELSE <<>>)
                  \o (IF g = d
                      THEN <<[cmd |-> "ME", src |-> port'[d],
                              to |-> srcAddr, dst |-> port'[f]]>>
                      ELSE <<>>)]
        /\ UNCHANGED <<up, sockVars, idVars, timeVars, online, ended>>

\* Mutant: nothing is answered when there is no call to end
EndCallIfAny(f) ==
    /\ Command(f) /\ auth[f] /\ ~Dangling(f)
    /\ IF peer[f] = NoFd THEN out' = Silence /\ UNCHANGED <<callVars, ended>>
                         ELSE HangUp(f)
    /\ UNCHANGED <<up, sockVars, idVars, timeVars, online, calls>>

\* BY
EndCall(f) ==
    /\ Command(f) /\ auth[f]
    /\ \/ Dangling(f) /\ Crash
       \/ /\ ~Dangling(f)
          /\ HangUp(f)
          /\ UNCHANGED <<up, sockVars, idVars, timeVars, online, calls>>

\* CB or ER: passed to the far end as it is
ForwardMessage(f, m) ==
    /\ Command(f) /\ auth[f]
    /\ \/ Dangling(f) /\ Crash
       \/ /\ ~Dangling(f)
          /\ out' = IF peer[f] = NoFd THEN Silence ELSE Tell(peer[f], <<m>>)
          /\ UNCHANGED <<up, sockVars, idVars, callVars, timeVars, dbVars>>

\* Mutant: every session's time of the last answer is set
AllRefreshed(f) == [g \in Fds |-> 0]

\* setPingTimestamp(now)
Refreshed(f) == [age EXCEPT ![f] = 0]

\* PG
UpdatePing(f) ==
    /\ Command(f) /\ auth[f]
    /\ age' = Refreshed(f)
    /\ out' = Silence
    /\ UNCHANGED <<up, conns, sock, addr, zombie, idVars, callVars, timeVars,
                   dbVars>>

\* A word the daemon does not know
UnknownCommand(f) ==
    /\ Command(f) /\ auth[f]
    /\ out' = Tell(f, <<ER(4)>>)
    /\ UNCHANGED <<up, sockVars, idVars, callVars, timeVars, dbVars>>

-----------------------------------------------------------------------------
\* After sip_connections.erase(ci) the loop increments the dead iterator.  What
\* follows is undefined: the walk goes on, skips entries, stops, or the process
\* dies.
AfterErase(rest) == SUBSET rest

\* zombieData: the single-shot timer's sweep
ZombieData ==
    LET Z == {f \in conns : zombie[f]}
    IN  /\ Idle /\ reap
        /\ \/ /\ Z = {}
              /\ reap' = FALSE
              /\ out' = Silence
              /\ UNCHANGED <<up, sockVars, idVars, callVars, walk, dbVars>>
           \/ /\ Z # {}
              /\ \E F \in SUBSET Z :
                   /\ \E f \in F : \A g \in Z : f <= g
                   /\ DropSockets(F)
                   /\ Forget(F)
              /\ reap' = FALSE
              /\ out' = Silence
              /\ UNCHANGED <<up, walk, dbVars>>
           \/ Z # {} /\ Crash

\* pingTimerData starts its walk over the table ...
PingTimerData ==
    /\ Idle /\ conns # {}
    /\ walk' = conns
    /\ out' = Silence
    /\ UNCHANGED <<up, sockVars, idVars, callVars, reap, dbVars>>

\* ... and visits the next connection: pinged if its last answer is recent,
\* otherwise logged out, deleted and erased at once
PingVisit(f) ==
    /\ up /\ f \in walk
    /\ \A g \in walk : f <= g
    /\ \/ /\ age[f] < PingLimit
          /\ age' = [age EXCEPT ![f] = @ + 1]
          /\ walk' = walk \ {f}
          /\ out' = Tell(f, <<Plain("PG")>>)
          /\ UNCHANGED <<up, conns, sock, addr, zombie, idVars, callVars, reap,
                         dbVars>>
       \/ /\ age[f] >= PingLimit
          /\ ~(LoggedIn(f) /\ Dangling(f))
          /\ \E rest \in AfterErase(walk \ {f}) : walk' = rest
          /\ DropSockets({f})
          /\ Logout(f, <<>>, {f})
          /\ UNCHANGED <<up, reap, calls>>
       \/ age[f] >= PingLimit /\ Crash

\* SIGINT or SIGTERM: exit(0) without a logout
Terminate == up /\ Crash

\* systemd starts the daemon again (Restart=always)
Restart ==
    /\ ~up
    /\ up' = TRUE
    /\ UNCHANGED <<sockVars, idVars, callVars, timeVars, dbVars, out>>

Receive(f) ==
    \/ \E u \in Uids, a \in Addrs : Login(f, u, a)
    \/ LoginUnknown(f)
    \/ Malformed(f)
    \/ \E matches \in BOOLEAN : Password(f, matches)
    \/ Unauthenticated(f)
    \/ \E u \in Uids, code \in ResponseCode : CallRefused(f, u, code)
    \/ \E u \in Uids, d \in Fds : InitiateCall(f, u, d)
    \/ EndCall(f)
    \/ \E m \in Forwardable : ForwardMessage(f, m)
    \/ UpdatePing(f)
    \/ UnknownCommand(f)

Next ==
    \/ \E f \in Fds :
         \/ \E a \in Addrs : NewConnection(f, a)
         \/ ConnectionClosed(f)
         \/ Receive(f)
         \/ PingVisit(f)
    \/ ZombieData
    \/ PingTimerData
    \/ Terminate
    \/ Restart

Spec == Init /\ [][Next]_vars

\* The event loop serves its timers: the ping timer fires again and again, and
\* a walk that has begun goes on.  Nothing is assumed of the clients.
Fairness == WF_vars(PingTimerData) /\ \A f \in Fds : WF_vars(PingVisit(f))
FairSpec == Spec /\ Fairness

-----------------------------------------------------------------------------
TypeOK ==
    /\ up \in BOOLEAN
    /\ conns \subseteq Fds
    /\ sock \in [Fds -> BOOLEAN]
    /\ addr \in [Fds -> Addrs \union {NoAddr}]
    /\ zombie \in [Fds -> BOOLEAN]
    /\ age \in [Fds -> 0..PingLimit]
    /\ uid \in [Fds -> Uids \union {NoUid}]
    /\ auth \in [Fds -> BOOLEAN]
    /\ laddr \in [Fds -> Addrs \union {NoAddr}]
    /\ peer \in [Fds -> Fds \union {NoFd}]
    /\ cid \in [Fds -> Nat \union {NoCid}]
    /\ port \in [Fds -> Ports \union {0}]
    /\ walk \subseteq Fds
    /\ reap \in BOOLEAN
    /\ online \subseteq Uids
    /\ calls \in Seq(Uids \union {NoUid})
    /\ ended \subseteq Nat
    /\ out \in [Fds -> Seq(Message)]

(***************************************************************************)
(* Safety.                                                                 *)
(***************************************************************************)
\* conn_connection_fd, conn_cid and conn_source_port are written by different
\* statements of InitiateCall, EndCall and Logout, and between them say whether
\* a session is in a call: all three do, or none does.  (Logout relies on it:
\* it ends the call by the cid, and otherwise clears connectionFd alone.)
CallFieldsAgree ==
    \A f \in Fds :
        /\ peer[f] = NoFd <=> cid[f] = NoCid
        /\ peer[f] = NoFd <=> port[f] = 0

\* Two sessions that hold the same row of CALLS are each other's far end.  It is
\* what lets EndCall, which only follows connectionFd, find everyone who would
\* end the row again.  It takes a clock that never repeats a second: InitiateCall
\* looks its row up by the time of the call.
RowSharedByFarEnds ==
    SteadyClock => \A f, g \in Fds :
        f # g /\ cid[f] # NoCid /\ cid[f] = cid[g] => peer[f] = g /\ peer[g] = f

\* The row a session holds is in the table and has no END_DATETIME yet: no call
\* is ever ended a second time, which would overwrite its duration.  (So too only
\* where the clock is steady: an older row found in its place may have ended.)
HeldRowIsOpen ==
    SteadyClock => \A f \in Fds : cid[f] # NoCid => cid[f] \in (1..nrows) \ ended

\* Where every host is seen under its own address, no two live sessions of one
\* host are given the same RTP port by GeneratePort.
NoNat == \A a \in Addrs : LocalOf[a] \subseteq {a}
PortsDistinct ==
    NoNat => \A f, g \in conns :
                f # g /\ ~zombie[f] /\ ~zombie[g] /\ addr[f] = addr[g]
                    => port[f] # port[g] \/ port[f] = 0

\* A session that has an open socket and keeps it never leaves a call without
\* being written an MS, whoever's BY, bad password, silence or closed socket
\* took it out of the call.
Sent(f, m) == \E i \in 1..Len(out[f]) : out[f][i] = m
ToldWhenCallEnds ==
    [][\A f \in conns \intersect conns' :
         sock[f] /\ peer[f] # NoFd /\ peer'[f] = NoFd => Sent(f, Plain("MS"))']_vars

(***************************************************************************)
(* Liveness.                                                               *)
(***************************************************************************)
\* A session that stops answering pings leaves the table, once no connection
\* arrives any more, in whatever state it was: not logged in, in a call, or a
\* zombie that a zombieData sweep skipped.  (The reaping of one session may make
\* the sweep skip the ones behind it, so a steady supply of short-lived
\* connections can keep a dead session alive: see the README.)
DeadSessionsReaped ==
    \A f \in Fds :
        <>[][/\ ~UpdatePing(f)
             /\ \A g \in Fds, a \in Addrs : ~NewConnection(g, a)]_vars
            => <>[](f \notin conns)
=============================================================================
