------------------------------- MODULE NetIsdn -------------------------------
(***************************************************************************)
(* The whole signalling system: the daemon of NetSipd and the clients that *)
(* talk to it, each a ControlConnect (the control connection) wired to a   *)
(* MainWidget (the user's buttons) and to a Codec, of which only its       *)
(* connection state is kept.  They are joined by TCP connections: a first- *)
(* in first-out queue each way, that ends with Eof when one side closes.   *)
(*                                                                         *)
(* A step is one handler of the daemon, run on the command at the head of  *)
(* a queue or by a timer, or one slot of a client.  The user, the network  *)
(* and the timers of the clients are bounded by what is left of Budget.    *)
(***************************************************************************)
EXTENDS NetSipd

CONSTANTS
    Clients,     \* running copies of netisdn
    NoClient,
    Account,     \* Account[c]: the login name in c's settings at its start
    Host,        \* Host[c]: the address c is seen under
    Names,       \* Names[c]: the names c's user may call
    Decodes,     \* Decodes[c]: c is built with HAVE_MPEG_L3
    NoMedia,     \* the codec is in StateIdle
    Pinging,     \* the ping timer fires for ever (see DaemonPings)
    Budget       \* bounds: how often each source of trouble may strike

\* click: the connect button is pressed; reauth: conn_reauthenticate_timer fires;
\* settings: the settings dialog is closed; sweep: pingTimerData; quit: a client
\* is closed and started again; shutdown: the daemon is; fault: media cannot
\* start, or are lost
Budgets == {"click", "reauth", "settings", "sweep", "quit", "shutdown", "fault"}

ASSUME ClientsAssumption ==
    /\ NoClient \notin Clients
    /\ Account \in [Clients -> Uids]
    /\ Host \in [Clients -> Addrs]
    /\ Names \in [Clients -> SUBSET Uids]
    /\ Decodes \in [Clients -> BOOLEAN]
    /\ Pinging \in BOOLEAN
    /\ Budget \in [Budgets -> Nat]

VARIABLES
    link,      \* link[f]: the client at the other end of f's socket
    toDaemon,  \* toDaemon[f]: what the daemon has still to read from f
    toClient,  \* toClient[c]: what c has still to read
    tcp,       \* conn_socket->state()
    once,      \* conn_connected_once
    retry,     \* conn_reconnect_timer is running
    reauth,    \* conn_reauthenticate_timer is running
    acct,      \* conn_username
    seen,      \* challenges c has been sent over its connection
    issued,    \* challenges the daemon has issued over f
    button,    \* net_connect_button is enabled
    media,     \* codec_connection_state, with the stream's ports if not idle
    byes,      \* RTCP BYE packets the codecs have sent each other
    apart,     \* no variable of the code: see below
    left       \* what is left of Budget

\* apart records who may differ with the daemon about being in a call: the clients
\* whose codec stopped, or did not start, by itself, or who lost their connection,
\* since the daemon last started or stopped it.  Nothing depends on it.

netVars    == <<link, toDaemon, toClient>>
clientVars == <<tcp, once, retry, reauth, acct, seen, button, media, byes, apart>>
systemVars == <<vars, netVars, clientVars, issued, left>>

Eof == [cmd |-> "EOF"]
LI(u) == [cmd |-> "LI", user |-> u]
PW(n) == [cmd |-> "PW", n |-> n]
CA(u) == [cmd |-> "CA", user |-> u]

ToDaemon ==
    {Eof, Plain("BY"), Plain("PG"), ER(14)}
    \union {LI(u) : u \in Uids} \union {CA(u) : u \in Uids} \union [cmd : {"PW"}, n : Nat]
Media == [src : Ports, to : Addrs, dst : Ports]

ASSUME MediaAssumption == NoMedia \notin Media

SystemInit ==
    /\ Init
    /\ link = [f \in Fds |-> NoClient]
    /\ toDaemon = [f \in Fds |-> <<>>]
    /\ toClient = [c \in Clients |-> <<>>]
    /\ tcp = [c \in Clients |-> "connecting"]
    /\ once = [c \in Clients |-> FALSE]
    /\ retry = [c \in Clients |-> FALSE]
    /\ reauth = [c \in Clients |-> FALSE]
    /\ acct = Account
    /\ seen = [c \in Clients |-> 0]
    /\ issued = [f \in Fds |-> 0]
    /\ button = [c \in Clients |-> FALSE]
    /\ media = [c \in Clients |-> NoMedia]
    /\ byes = {}
    /\ apart = {}
    /\ left = Budget

Spend(what) == left[what] > 0 /\ left' = [left EXCEPT ![what] = @ - 1]

-----------------------------------------------------------------------------
(***************************************************************************)
(* The network.                                                            *)
(***************************************************************************)
\* SendCommand: lost when there is nobody at the other end any more
Send(c, msgs) ==
    toDaemon' = [f \in Fds |-> IF link[f] = c THEN toDaemon[f] \o msgs ELSE toDaemon[f]]

\* The kernel hands out the lowest descriptor that is free
LowestFree(f) == ~sock[f] /\ \A g \in Fds : g < f => sock[g]

\* What the daemon wrote in this step is on its way.  Whoever's socket it closed
\* gets Eof instead: Qt still held what this step wrote to it.  It has taken the
\* first command off the queues of reads.
Relay(reads) ==
    LET shut(f) == f \notin conns' \/ ~sock'[f]
    IN  /\ toDaemon' = [f \in Fds |-> CASE shut(f) -> <<>>
                                        [] ~shut(f) /\ f \in reads -> Tail(toDaemon[f])
                                        [] OTHER -> toDaemon[f]]
        /\ toClient' = [c \in Clients |->
             IF \E f \in Fds : link[f] = c
             THEN LET f == CHOOSE g \in Fds : link[g] = c
                  IN  toClient[c] \o (IF shut(f) THEN <<Eof>> ELSE out'[f])
             ELSE toClient[c]]
        /\ link' = [f \in Fds |-> IF shut(f) THEN NoClient ELSE link[f]]

-----------------------------------------------------------------------------
(***************************************************************************)
(* The daemon.                                                             *)
(***************************************************************************)
\* ParseCommand on the command m from f
Handle(f, m) ==
    \/ m.cmd = "LI" /\ \E a \in Addrs : Login(f, m.user, a)
    \/ m.cmd = "PW" /\ Password(f, m.n = issued[f])
    \/ m.cmd \notin {"LI", "PW", "EOF"} /\ Unauthenticated(f)
    \/ m.cmd = "CA" /\ \/ \E code \in {12, 13} : CallRefused(f, m.user, code)
                       \/ \E d \in Fds : InitiateCall(f, m.user, d)
    \/ m.cmd = "BY" /\ EndCall(f)
    \/ m.cmd = "ER" /\ ForwardMessage(f, m)
    \/ m.cmd = "PG" /\ UpdatePing(f)
    \/ m.cmd = "EOF" /\ ConnectionClosed(f)

DaemonReads(f) ==
    /\ toDaemon[f] # <<>>
    /\ Handle(f, Head(toDaemon[f]))
    /\ issued' = IF Head(toDaemon[f]).cmd = "LI"
                 THEN [issued EXCEPT ![f] = @ + 1] ELSE issued
    /\ Relay({f})
    /\ UNCHANGED <<clientVars, left>>

\* Nothing is on its way between the programs
Quiet ==
    /\ up /\ walk = {}
    /\ \A f \in Fds : toDaemon[f] = <<>>
    /\ \A c \in Clients : toClient[c] = <<>>
    /\ byes = {}

DaemonReaps ==
    /\ ZombieData
    /\ Relay({})
    /\ UNCHANGED <<clientVars, issued, left>>

\* The ping timer fires at any moment while the budget lasts, and, if Pinging, for
\* ever: then only when all else that was under way is done, which takes far less
\* than the two seconds between pings
DaemonPings ==
    /\ PingTimerData
    /\ \/ Spend("sweep")
       \/ /\ Pinging /\ UNCHANGED left
          /\ Quiet /\ ~reap /\ \A c \in Clients : tcp[c] # "connecting"
    /\ Relay({})
    /\ UNCHANGED <<clientVars, issued>>

DaemonVisits(f) ==
    /\ PingVisit(f)
    /\ Relay({})
    /\ UNCHANGED <<clientVars, issued, left>>

DaemonDies ==
    /\ Spend("shutdown")
    /\ Terminate
    /\ Relay({})
    /\ UNCHANGED <<clientVars, issued>>

DaemonRestarts ==
    /\ Restart
    /\ UNCHANGED <<netVars, clientVars, issued, left>>

-----------------------------------------------------------------------------
(***************************************************************************)
(* A client: its control connection.                                       *)
(***************************************************************************)
\* connectToHost succeeds: connected() -> connectedData()
Connected(c) ==
    /\ tcp[c] = "connecting"
    /\ \E f \in Fds :
         /\ LowestFree(f)
         /\ NewConnection(f, Host[c])
         /\ link' = [link EXCEPT ![f] = c]
         /\ toDaemon' = [toDaemon EXCEPT ![f] = <<LI(acct[c])>>]
         /\ issued' = [issued EXCEPT ![f] = 0]
    /\ toClient' = [toClient EXCEPT ![c] = <<>>]
    /\ tcp' = [tcp EXCEPT ![c] = "open"]
    /\ once' = [once EXCEPT ![c] = TRUE]
    /\ seen' = [seen EXCEPT ![c] = 0]
    /\ apart' = IF media[c] = NoMedia THEN apart \ {c} ELSE apart
    /\ UNCHANGED <<retry, reauth, acct, button, media, byes, left>>

\* Mutant: nothing is tried again
GivesUp(c) ==
    /\ tcp' = [tcp EXCEPT ![c] = "closed"]
    /\ reauth' = [reauth EXCEPT ![c] = FALSE]
    /\ UNCHANGED retry

\* connectionClosedData()
LosesConnection(c) ==
    /\ tcp' = [tcp EXCEPT ![c] = "closed"]
    /\ reauth' = [reauth EXCEPT ![c] = FALSE]
    /\ retry' = [retry EXCEPT ![c] = TRUE]

\* connectToHost fails: errorData() gives up at once if it never was connected
ConnectFails(c) ==
    /\ tcp[c] = "connecting" /\ ~up
    /\ \/ once[c] /\ LosesConnection(c)
       \/ ~once[c] /\ tcp' = [tcp EXCEPT ![c] = "closed"] /\ UNCHANGED <<retry, reauth>>
    /\ UNCHANGED <<vars, netVars, issued, once, acct, seen, button, media, byes, apart, left>>

\* connectToHost(): logs in again over a connection that is open
ConnectToHost(c, u) ==
    \/ tcp[c] = "open" /\ Send(c, <<LI(u)>>) /\ UNCHANGED tcp
    \/ tcp[c] # "open" /\ tcp' = [tcp EXCEPT ![c] = "connecting"] /\ UNCHANGED toDaemon

\* reconnectData()
Reconnects(c) ==
    /\ retry[c]
    /\ retry' = [retry EXCEPT ![c] = FALSE]
    /\ ConnectToHost(c, acct[c])
    /\ UNCHANGED <<vars, link, toClient, issued, once, reauth, acct, seen, button,
                   media, byes, apart, left>>

\* conn_reauthenticate_timer -> connectedData()
Reauthenticates(c) ==
    /\ reauth[c] /\ Spend("reauth")
    /\ reauth' = [reauth EXCEPT ![c] = FALSE]
    /\ Send(c, <<LI(acct[c])>>)
    /\ UNCHANGED <<vars, link, toClient, issued, tcp, once, retry, acct, seen,
                   button, media, byes, apart>>

-----------------------------------------------------------------------------
(***************************************************************************)
(* A client: what it does with a command from the daemon (ParseCommand).   *)
(***************************************************************************)
\* Codec::disconnect() sends the far codec an RTCP BYE, beside those in others;
\* connectionStateChangedData(StateIdle) enables the button
StopsMedia(c, others) ==
    IF media[c] = NoMedia THEN UNCHANGED <<media, button>> /\ byes' = others
    ELSE /\ media' = [media EXCEPT ![c] = NoMedia]
         /\ button' = [button EXCEPT ![c] = TRUE]
         /\ byes' = others \union {[to |-> media[c].to, port |-> media[c].dst]}

Challenge(c, m) ==
    /\ m.cmd = "LI"
    /\ seen' = [seen EXCEPT ![c] = @ + 1]
    /\ Send(c, <<PW(seen'[c])>>)
    /\ UNCHANGED <<tcp, retry, reauth, button, media, byes, apart, left>>

LoginOk(c, m) ==
    /\ m.cmd = "OK"
    /\ reauth' = [reauth EXCEPT ![c] = TRUE]
    /\ button' = [button EXCEPT ![c] = TRUE]
    /\ UNCHANGED <<toDaemon, tcp, retry, seen, media, byes, apart, left>>

\* responseReceivedData: only four of the codes do more than show a message
Response(c, m) ==
    /\ m.cmd = "ER"
    /\ \/ /\ m.code \in {1, 2}
          /\ button' = [button EXCEPT ![c] = FALSE]
          /\ UNCHANGED <<toDaemon, media, byes>>
       \/ m.code = 14 /\ Send(c, <<Plain("BY")>>) /\ StopsMedia(c, byes)
       \/ m.code \notin {1, 2, 14} /\ UNCHANGED <<toDaemon, button, media, byes>>
    /\ UNCHANGED <<tcp, retry, reauth, seen, apart, left>>

\* ME: refused if it asks for Layer 3 and c has no decoder for it; the codec ignores
\* it unless it is idle, and says nothing to the daemon when its sockets or the
\* audio interface do not open
MediaStart(c, m) ==
    /\ m.cmd = "ME"
    /\ \/ /\ m.to = NoAddr \/ media[c] # NoMedia
          /\ UNCHANGED <<toDaemon, media, byes, button, left>>
       \/ /\ m.to # NoAddr /\ ~Decodes[c]
          /\ Send(c, <<ER(14)>>)
          /\ UNCHANGED <<media, byes, button, left>>
       \/ /\ m.to # NoAddr /\ media[c] = NoMedia
          /\ button' = [button EXCEPT ![c] = TRUE]
          /\ \/ /\ media' = [media EXCEPT ![c] = [src |-> m.src, to |-> m.to,
                                                  dst |-> m.dst]]
                /\ UNCHANGED left
             \/ Spend("fault") /\ UNCHANGED media
          /\ UNCHANGED <<toDaemon, byes>>
    /\ apart' = IF media'[c] = NoMedia THEN apart \union {c} ELSE apart \ {c}
    /\ UNCHANGED <<tcp, retry, reauth, seen>>

\* Mutant: the command is not wired to the codec
MediaStopUnwired(c, m) ==
    /\ m.cmd = "MS"
    /\ button' = [button EXCEPT ![c] = TRUE]
    /\ apart' = apart \ {c}
    /\ UNCHANGED <<toDaemon, tcp, retry, reauth, seen, media, byes, left>>

MediaStop(c, m) ==
    /\ m.cmd = "MS"
    /\ StopsMedia(c, byes)
    /\ apart' = apart \ {c}
    /\ UNCHANGED <<toDaemon, tcp, retry, reauth, seen, left>>

Ping(c, m) ==
    /\ m.cmd = "PG"
    /\ Send(c, <<Plain("PG")>>)
    /\ UNCHANGED <<tcp, retry, reauth, seen, button, media, byes, apart, left>>

ConnectionLost(c, m) ==
    /\ m.cmd = "EOF"
    /\ LosesConnection(c)
    /\ apart' = apart \union {c}
    /\ UNCHANGED <<toDaemon, seen, button, media, byes, left>>

ClientReads(c) ==
    /\ toClient[c] # <<>>
    /\ LET m == Head(toClient[c])
       IN  \/ Challenge(c, m)
           \/ LoginOk(c, m)
           \/ Response(c, m)
           \/ MediaStart(c, m)
           \/ MediaStop(c, m)
           \/ Ping(c, m)
           \/ ConnectionLost(c, m)
    /\ toClient' = [toClient EXCEPT ![c] = Tail(@)]
    /\ UNCHANGED <<vars, link, issued, once, acct>>

-----------------------------------------------------------------------------
(***************************************************************************)
(* A client: its user, and what befalls it.                                *)
(***************************************************************************)
\* connectClickedData(): the button reads Connect or Disconnect by the codec's
\* state, and may be pressed again before anything has come of it
Click(c, u) ==
    /\ button[c] /\ u \in Names[c] /\ Spend("click")
    /\ Send(c, <<IF media[c] = NoMedia THEN CA(u) ELSE Plain("BY")>>)
    /\ UNCHANGED <<vars, link, toClient, issued, clientVars>>

\* settingsClickedData(): the dialog may leave another login name.  Its button is
\* disabled during a call, but a call may come in under the dialog, and OK then logs
\* in again in the call
Settings(c, u) ==
    /\ Spend("settings")
    /\ acct' = [acct EXCEPT ![c] = u]
    /\ ConnectToHost(c, u)
    /\ UNCHANGED <<vars, link, toClient, issued, once, retry, reauth, seen, button,
                   media, byes, apart>>

\* Codec::timeoutData(): no RTP for too long.  Nobody but the codec is told.
MediaTimeout(c) ==
    /\ media[c] # NoMedia /\ Spend("fault")
    /\ StopsMedia(c, byes)
    /\ apart' = apart \union {c}
    /\ UNCHANGED <<vars, netVars, issued, tcp, once, retry, reauth, acct, seen>>

\* rtcpReceiveData(): a BYE that finds a socket bound to its port stops that codec,
\* whatever call it was meant to end
HearsBye(c) ==
    /\ media[c] # NoMedia
    /\ \E b \in byes :
         /\ b.port = media[c].src /\ b.to \in {Host[c]} \union LocalOf[Host[c]]
         /\ StopsMedia(c, byes \ {b})
    /\ apart' = apart \union {c}
    /\ UNCHANGED <<vars, netVars, issued, tcp, once, retry, reauth, acct, seen, left>>

\* A BYE is lost, or nobody listens on its port
ByeIsLost ==
    /\ \E b \in byes : byes' = byes \ {b}
    /\ UNCHANGED <<vars, netVars, issued, tcp, once, retry, reauth, acct, seen,
                   button, media, apart, left>>

\* The program ends, and is started again
Relaunch(c) ==
    /\ Spend("quit")
    /\ tcp' = [tcp EXCEPT ![c] = "connecting"]
    /\ once' = [once EXCEPT ![c] = FALSE]
    /\ retry' = [retry EXCEPT ![c] = FALSE]
    /\ reauth' = [reauth EXCEPT ![c] = FALSE]
    /\ button' = [button EXCEPT ![c] = FALSE]
    /\ media' = [media EXCEPT ![c] = NoMedia]
    /\ Send(c, <<Eof>>)
    /\ link' = [f \in Fds |-> IF link[f] = c THEN NoClient ELSE link[f]]
    /\ toClient' = [toClient EXCEPT ![c] = <<>>]
    /\ UNCHANGED <<vars, issued, acct, seen, byes, apart>>

Daemon ==
    \/ \E f \in Fds : DaemonReads(f) \/ DaemonVisits(f)
    \/ DaemonReaps \/ DaemonPings \/ DaemonDies \/ DaemonRestarts
Client(c) ==
    \/ Connected(c) \/ ConnectFails(c) \/ Reconnects(c) \/ Reauthenticates(c)
    \/ ClientReads(c)
    \/ \E u \in Uids : Click(c, u) \/ Settings(c, u)
    \/ MediaTimeout(c) \/ HearsBye(c)
    \/ Relaunch(c)

\* Users and timers may leave the system as it is; a state that is not quiet and
\* has no other successor is a deadlock
Rest == Quiet /\ UNCHANGED systemVars

SystemNext == Daemon \/ (\E c \in Clients : Client(c)) \/ ByeIsLost \/ Rest
SystemSpec == SystemInit /\ [][SystemNext]_systemVars

\* Each program keeps running its event loop, the network delivers, reconnect
\* and ping timers expire, and systemd restarts the daemon.  Users, faults and
\* what else Budget bounds are not made to act.
SystemFairness ==
    /\ \A f \in Fds : WF_systemVars(DaemonReads(f)) /\ WF_systemVars(DaemonVisits(f))
    /\ WF_systemVars(DaemonReaps)
    /\ SF_systemVars(DaemonPings /\ UNCHANGED left)
    /\ WF_systemVars(DaemonRestarts)
    /\ WF_systemVars(ByeIsLost)
    /\ \A c \in Clients : /\ WF_systemVars(ClientReads(c))
                          /\ WF_systemVars(Connected(c))
                          /\ WF_systemVars(ConnectFails(c))
                          /\ WF_systemVars(Reconnects(c))
FairSystemSpec == SystemSpec /\ SystemFairness

-----------------------------------------------------------------------------
SystemTypeOK ==
    /\ TypeOK
    /\ link \in [Fds -> Clients \union {NoClient}]
    /\ toDaemon \in [Fds -> Seq(ToDaemon)]
    /\ toClient \in [Clients -> Seq(Message \union {Eof})]
    /\ tcp \in [Clients -> {"connecting", "open", "closed"}]
    /\ {once, retry, reauth, button} \subseteq [Clients -> BOOLEAN]
    /\ acct \in [Clients -> Uids]
    /\ seen \in [Clients -> Nat]
    /\ issued \in [Fds -> Nat]
    /\ media \in [Clients -> Media \union {NoMedia}]
    /\ byes \subseteq [to : Addrs, port : Ports]
    /\ apart \subseteq Clients
    /\ left \in [Budgets -> Nat]

\* Once everything has been delivered, the daemon has a client in a call exactly
\* when its codec runs, whoever pressed what while commands were on their way: two
\* clients that call at once, hang up at once, or press the button again before the
\* answer.  Excepted is who is apart: its codec timed out or did not start, a BYE
\* packet of an earlier call stopped it (codec.cpp:884), or it lost its connection;
\* it is so no longer than until the daemon's next ME or MS.
CallsAgree ==
    Quiet => \A f \in Fds : link[f] # NoClient /\ link[f] \notin apart =>
                 (peer[f] # NoFd <=> media[link[f]] # NoMedia)

\* A row that goes on is held by both ends of its call: nobody has called himself, and
\* nobody in a call has called somebody else, which leaves his far end behind
\* (netsipd.cpp:366-377)
NoneOverrun ==
    \A row \in (1..nrows) \ ended : \E f, g \in Fds : f # g /\ cid[f] = row /\ cid[g] = row

\* ... and as long as no call was overrun by another one of its ends, two clients in a
\* call send to each other's ports.
StreamsMeet ==
    Quiet /\ NoneOverrun => \A f, g \in Fds :
        /\ link[f] # NoClient /\ link[g] # NoClient
        /\ peer[f] = g /\ peer[g] = f
        /\ media[link[f]] # NoMedia /\ media[link[g]] # NoMedia
        => media[link[f]].dst = media[link[g]].src

\* "Server then sends a media stop command to each client": once everything has
\* been delivered, no codec runs on in a call that its far end has left, but for a far
\* end who left it by another call.
NobodyLeftStreaming ==
    Quiet /\ NoneOverrun => \A f \in Fds :
        link[f] # NoClient /\ media[link[f]] # NoMedia => peer[f] # NoFd /\ peer[peer[f]] = f

\* A client that presses Disconnect sees its codec stop, or loses its connection
\* to the daemon or is about to: also when the daemon was restarted since the call
\* began and knows nothing of it, and when both ends press at once.
HangUpCompletes ==
    \A f \in Fds, c \in Clients :
        link[f] = c /\ toDaemon[f] # <<>> /\ toDaemon[f][Len(toDaemon[f])] = Plain("BY")
            ~> \/ media[c] = NoMedia
               \/ tcp[c] # "open"
               \/ \E g \in Fds : link[g] = c /\ zombie[g]

\* When trouble ends, every client whose account nobody else uses is logged in
\* again for good, unless the daemon was down when it first connected (it does not
\* try twice then), or zombieData skipped its connection.
EventuallyLoggedIn ==
    \A c \in Clients :
        \/ <>[](\E f \in Fds : link[f] = c /\ LoggedIn(f) /\ uid[f] = acct[c])
        \/ <>(~once[c] /\ tcp[c] = "closed")
        \/ <>[](\E f \in Fds : link[f] = c /\ zombie[f])
=============================================================================
