---------------------------- MODULE NetIsdn_proofs ----------------------------
(***************************************************************************)
(* The system of NetIsdn runs the daemon of NetSipd: what its clients, the *)
(* network and the users do to the daemon is no more than NetSipd allows,  *)
(* so the theorems of NetSipd_proofs hold of the daemon in the system.     *)
(*                                                                         *)
(* Then, of a calm system (see Calm), what the daemon knows of its calls   *)
(* and what the codecs of its clients do, in the states in which nothing   *)
(* is on its way.                                                          *)
(***************************************************************************)
EXTENDS NetIsdn, NetSipd_proofs

USE ClientsAssumption

-----------------------------------------------------------------------------
\* What is on its way to the daemon is always something ParseCommand knows.
QueuesOK ==
    /\ toDaemon \in [Fds -> Seq(ToDaemon)]
    /\ acct \in [Clients -> Uids]
    /\ seen \in [Clients -> Nat]

LEMMA CommandTypes ==
    /\ Eof \in ToDaemon /\ ER(14) \in ToDaemon
    /\ Plain("BY") \in ToDaemon /\ Plain("PG") \in ToDaemon
    /\ \A u \in Uids : LI(u) \in ToDaemon /\ CA(u) \in ToDaemon
    /\ \A n \in Nat : PW(n) \in ToDaemon
BY DEF ToDaemon, PW

LEMMA SendType ==
    ASSUME QueuesOK, NEW c, NEW msgs \in Seq(ToDaemon), Send(c, msgs)
    PROVE  toDaemon' \in [Fds -> Seq(ToDaemon)]
BY DEF QueuesOK, Send

LEMMA RelayType ==
    ASSUME QueuesOK, NEW reads, \A f \in reads : f \in Fds /\ toDaemon[f] # <<>>,
           Relay(reads)
    PROVE  toDaemon' \in [Fds -> Seq(ToDaemon)]
<1> SUFFICES ASSUME NEW f \in Fds PROVE toDaemon'[f] \in Seq(ToDaemon)
  BY DEF Relay
<1>1. f \in reads => Tail(toDaemon[f]) \in Seq(ToDaemon)
  BY DEF QueuesOK
<1> QED BY <1>1 DEF Relay, QueuesOK

-----------------------------------------------------------------------------
\* A handler of the daemon, run on a command some client may send, is one that
\* NetSipd runs on a command from anywhere.
LEMMA HandlerIsNext ==
    ASSUME NEW f \in Fds, NEW m \in ToDaemon, Handle(f, m)
    PROVE  Next
<1>1. m.cmd = "LI" => m.user \in Uids
  BY DEF ToDaemon, Eof, Plain, ER, LI, CA
<1>2. m.cmd = "CA" => m.user \in Uids
  BY DEF ToDaemon, Eof, Plain, ER, LI, CA
<1>3. m.cmd = "ER" => m \in Forwardable
  BY DEF ToDaemon, Eof, Plain, ER, LI, CA, Forwardable
<1>4. CASE Receive(f) \/ ConnectionClosed(f)
  BY <1>4 DEF Next
<1>5. CASE m.cmd = "LI" /\ \E a \in Addrs : Login(f, m.user, a)
  BY <1>5, <1>1, <1>4 DEF Receive
<1>6. CASE m.cmd = "PW" /\ Password(f, m.n = issued[f])
  <2>1. (m.n = issued[f]) \in BOOLEAN
    OBVIOUS
  <2> QED BY <1>6, <2>1, <1>4 DEF Receive
<1>7. CASE m.cmd = "CA" /\ \/ \E code \in {12, 13} : CallRefused(f, m.user, code)
                           \/ \E d \in Fds : InitiateCall(f, m.user, d)
  <2>1. {12, 13} \subseteq ResponseCode
    BY DEF ResponseCode
  <2> QED BY <1>7, <2>1, <1>2, <1>4 DEF Receive
<1>8. CASE m.cmd = "ER" /\ ForwardMessage(f, m)
  BY <1>8, <1>3, <1>4 DEF Receive
<1>9. CASE Unauthenticated(f) \/ EndCall(f) \/ UpdatePing(f)
  BY <1>9, <1>4 DEF Receive
<1> QED BY <1>4, <1>5, <1>6, <1>7, <1>8, <1>9 DEF Handle

LEMMA QueuesInit == SystemInit => QueuesOK
BY DEF SystemInit, QueuesOK

\* Every step keeps the queues as they should be, and is a step of the daemon
\* or leaves it alone.
LEMMA SystemStep ==
    ASSUME QueuesOK, [SystemNext]_systemVars
    PROVE  QueuesOK' /\ [Next]_vars
<1> USE CommandTypes
<1>1. ASSUME NEW f \in Fds, DaemonReads(f) PROVE QueuesOK' /\ Next
  <2>1. Head(toDaemon[f]) \in ToDaemon
    BY <1>1 DEF DaemonReads, QueuesOK
  <2>2. Next
    BY <1>1, <2>1, HandlerIsNext DEF DaemonReads
  <2>3. toDaemon' \in [Fds -> Seq(ToDaemon)]
    BY <1>1, RelayType DEF DaemonReads
  <2> QED BY <1>1, <2>2, <2>3 DEF DaemonReads, QueuesOK, clientVars
<1>2. ASSUME NEW f \in Fds, DaemonVisits(f) PROVE QueuesOK' /\ Next
  <2>1. toDaemon' \in [Fds -> Seq(ToDaemon)]
    BY <1>2, RelayType DEF DaemonVisits
  <2> QED BY <1>2, <2>1 DEF DaemonVisits, QueuesOK, clientVars, Next
<1>3. CASE DaemonReaps \/ DaemonPings \/ DaemonDies
  <2>1. toDaemon' \in [Fds -> Seq(ToDaemon)]
    BY <1>3, RelayType DEF DaemonReaps, DaemonPings, DaemonDies
  <2> QED BY <1>3, <2>1 DEF DaemonReaps, DaemonPings, DaemonDies, QueuesOK,
                           clientVars, Next
<1>4. CASE DaemonRestarts
  BY <1>4 DEF DaemonRestarts, QueuesOK, clientVars, netVars, Next
<1>5. ASSUME NEW c \in Clients, Client(c) PROVE QueuesOK' /\ [Next]_vars
  <2>1. CASE Connected(c)
    <3>1. Next
      BY <2>1 DEF Connected, Next
    <3>2. <<LI(acct[c])>> \in Seq(ToDaemon)
      BY DEF QueuesOK
    <3> QED BY <2>1, <3>1, <3>2 DEF Connected, QueuesOK
  <2>2. CASE ConnectFails(c)
    BY <2>2 DEF ConnectFails, QueuesOK, netVars
  <2>3. ASSUME NEW u \in Uids, ConnectToHost(c, u)
        PROVE  toDaemon' \in [Fds -> Seq(ToDaemon)]
    <3>1. <<LI(u)>> \in Seq(ToDaemon)
      OBVIOUS
    <3> QED BY <2>3, <3>1, SendType DEF ConnectToHost, QueuesOK
  <2>4. CASE Reconnects(c)
    <3>1. acct[c] \in Uids
      BY DEF QueuesOK
    <3> QED BY <2>4, <2>3, <3>1 DEF Reconnects, QueuesOK
  <2>5. CASE Reauthenticates(c)
    <3>1. <<LI(acct[c])>> \in Seq(ToDaemon)
      BY DEF QueuesOK
    <3> QED BY <2>5, <3>1, SendType DEF Reauthenticates, QueuesOK
  <2>6. CASE ClientReads(c)
    <3>1. PICK m : \/ Challenge(c, m) \/ LoginOk(c, m) \/ Response(c, m)
                   \/ MediaStart(c, m) \/ MediaStop(c, m) \/ Ping(c, m)
                   \/ ConnectionLost(c, m)
      BY <2>6 DEF ClientReads
    <3>2. CASE Challenge(c, m)
      <4>1. seen'[c] \in Nat /\ seen' \in [Clients -> Nat]
        BY <3>2 DEF Challenge, QueuesOK
      <4>2. <<PW(seen'[c])>> \in Seq(ToDaemon)
        BY <4>1
      <4> QED BY <2>6, <3>2, <4>1, <4>2, SendType
              DEF ClientReads, Challenge, QueuesOK
    <3>3. CASE Response(c, m)
      <4>1. <<Plain("BY")>> \in Seq(ToDaemon)
        OBVIOUS
      <4> QED BY <2>6, <3>3, <4>1, SendType DEF ClientReads, Response, QueuesOK
    <3>4. CASE MediaStart(c, m) \/ Ping(c, m)
      <4>1. <<ER(14)>> \in Seq(ToDaemon) /\ <<Plain("PG")>> \in Seq(ToDaemon)
        OBVIOUS
      <4> QED BY <2>6, <3>4, <4>1, SendType
              DEF ClientReads, MediaStart, Ping, QueuesOK
    <3>5. CASE LoginOk(c, m) \/ MediaStop(c, m) \/ ConnectionLost(c, m)
      BY <2>6, <3>5 DEF ClientReads, LoginOk, MediaStop, ConnectionLost, QueuesOK
    <3> QED BY <3>1, <3>2, <3>3, <3>4, <3>5
  <2>7. ASSUME NEW u \in Uids, Click(c, u) PROVE QueuesOK' /\ [Next]_vars
    <3>1. <<IF media[c] = NoMedia THEN CA(u) ELSE Plain("BY")>> \in Seq(ToDaemon)
      OBVIOUS
    <3> QED BY <2>7, <3>1, SendType DEF Click, QueuesOK, clientVars
  <2>8. ASSUME NEW u \in Uids, Settings(c, u) PROVE QueuesOK' /\ [Next]_vars
    BY <2>8, <2>3 DEF Settings, QueuesOK
  <2>9. CASE MediaTimeout(c)
    BY <2>9 DEF MediaTimeout, QueuesOK, netVars
  <2>10. CASE Relaunch(c)
    <3>1. <<Eof>> \in Seq(ToDaemon)
      OBVIOUS
    <3> QED BY <2>10, <3>1, SendType DEF Relaunch, QueuesOK
  <2>11. CASE HearsBye(c)
    BY <2>11 DEF HearsBye, QueuesOK, netVars
  <2> QED BY <1>5, <2>1, <2>2, <2>4, <2>5, <2>6, <2>7, <2>8, <2>9, <2>10, <2>11
          DEF Client
<1>6. CASE Rest \/ UNCHANGED systemVars
  BY <1>6 DEF Rest, systemVars, clientVars, netVars, QueuesOK
<1>7. CASE ByeIsLost
  BY <1>7 DEF ByeIsLost, QueuesOK, netVars
<1> QED BY <1>1, <1>2, <1>3, <1>4, <1>5, <1>6, <1>7 DEF SystemNext, Daemon

\* The system implements the specification of the daemon: however its clients,
\* their timers and the network interleave, the daemon takes no step that
\* NetSipd does not.
THEOREM SystemRunsTheDaemon == SystemSpec => Spec
<1>1. SystemInit => Init
  BY DEF SystemInit
<1>2. QueuesOK /\ [SystemNext]_systemVars => QueuesOK' /\ [Next]_vars
  BY SystemStep
<1> QED BY <1>1, <1>2, QueuesInit, PTL DEF SystemSpec, Spec

\* So in the running system too, connectionFd, cid and source port agree on who
\* is in a call, the rows of CALLS held are open, and nobody is dropped from a
\* call untold.
THEOREM SystemCallFields == SystemSpec => []CallFieldsAgree
BY SystemRunsTheDaemon, CallFieldsAlwaysAgree, PTL

THEOREM SystemTellsEveryone == SystemSpec => ToldWhenCallEnds
BY SystemRunsTheDaemon, NobodyLeavesUntold, PTL
-----------------------------------------------------------------------------
(***************************************************************************)
(* Types.  Those of the daemon and of the queues to it are known; here are *)
(* those of the clients.                                                   *)
(***************************************************************************)
Bye == [to : Addrs, port : Ports]

SocketTypes ==
    /\ link \in [Fds -> Clients \union {NoClient}]
    /\ toClient \in [Clients -> Seq(Message \union {Eof})]
    /\ issued \in [Fds -> Nat]
    /\ tcp \in [Clients -> {"connecting", "open", "closed"}]
    /\ left \in [Budgets -> Nat]
FlagTypes ==
    /\ once \in [Clients -> BOOLEAN] /\ retry \in [Clients -> BOOLEAN]
    /\ reauth \in [Clients -> BOOLEAN]
MediaTypes ==
    /\ button \in [Clients -> BOOLEAN]
    /\ media \in [Clients -> Media \union {NoMedia}]
    /\ byes \subseteq Bye
ClientTypes == SocketTypes /\ FlagTypes /\ MediaTypes

LEMMA SpendType ==
    ASSUME SocketTypes, NEW what \in Budgets, Spend(what)
    PROVE  left' \in [Budgets -> Nat]
BY DEF SocketTypes, Spend

\* What the daemon has written reaches whoever is linked
LEMMA RelayedType ==
    ASSUME SocketTypes, out' \in [Fds -> Seq(Message)], NEW reads, Relay(reads)
    PROVE  /\ link' \in [Fds -> Clients \union {NoClient}]
           /\ toClient' \in [Clients -> Seq(Message \union {Eof})]
<1>1. link' \in [Fds -> Clients \union {NoClient}]
  BY DEF Relay, SocketTypes
<1>2. ASSUME NEW c \in Clients PROVE toClient'[c] \in Seq(Message \union {Eof})
  <2>1. toClient[c] \in Seq(Message \union {Eof})
    BY DEF SocketTypes
  <2>2. CASE \E f \in Fds : link[f] = c
    <3> DEFINE f == CHOOSE g \in Fds : link[g] = c
               shut == f \notin conns' \/ ~sock'[f]
    <3>1. f \in Fds
      BY <2>2
    <3>2. out'[f] \in Seq(Message \union {Eof}) /\ <<Eof>> \in Seq(Message \union {Eof})
      BY <3>1
    <3>a. shut \in BOOLEAN
      OBVIOUS
    <3>3. toClient'[c] = toClient[c] \o (IF shut THEN <<Eof>> ELSE out'[f])
      BY <2>2 DEF Relay
    <3> HIDE DEF f, shut
    <3>4. (IF shut THEN <<Eof>> ELSE out'[f]) \in Seq(Message \union {Eof})
      BY <3>2, <3>a
    <3>b. \A s, r \in Seq(Message \union {Eof}) : s \o r \in Seq(Message \union {Eof})
      OBVIOUS
    <3> QED BY <2>1, <3>b, <3>3, <3>4
  <2>3. CASE ~\E f \in Fds : link[f] = c
    BY <2>1, <2>3 DEF Relay
  <2> QED BY <2>2, <2>3
<1> QED BY <1>1, <1>2 DEF Relay

\* The codec that stops was in a call with some address and port
LEMMA StopsType ==
    ASSUME MediaTypes, NEW c \in Clients, NEW others \in SUBSET Bye, StopsMedia(c, others)
    PROVE  MediaTypes'
<1>1. CASE media[c] = NoMedia
  BY <1>1 DEF StopsMedia, MediaTypes
<1>2. CASE media[c] # NoMedia
  <2>1. media[c] \in Media
    BY <1>2 DEF MediaTypes
  <2>2. [to |-> media[c].to, port |-> media[c].dst] \in Bye
    BY <2>1 DEF Media, Bye
  <2> QED BY <1>2, <2>2 DEF StopsMedia, MediaTypes
<1> QED BY <1>1, <1>2

LEMMA StartsType ==
    ASSUME NEW m \in Message \union {Eof}, m.cmd = "ME", m.to # NoAddr
    PROVE  [src |-> m.src, to |-> m.to, dst |-> m.dst] \in Media
BY DEF Message, Eof, Media

LEMMA ClientInit == SystemInit => ClientTypes
<1> SUFFICES ASSUME SystemInit PROVE ClientTypes
  OBVIOUS
<1>1. SocketTypes
  BY DEF SystemInit, SocketTypes
<1>2. FlagTypes /\ MediaTypes
  BY DEF SystemInit, FlagTypes, MediaTypes
<1> QED BY <1>1, <1>2 DEF ClientTypes

LEMMA DaemonTypes ==
    ASSUME ClientTypes, out' \in [Fds -> Seq(Message)], Daemon
    PROVE  ClientTypes'
<1>1. ASSUME NEW f \in Fds, DaemonReads(f) PROVE ClientTypes'
  <2>1. issued' \in [Fds -> Nat]
    BY <1>1 DEF DaemonReads, ClientTypes, SocketTypes
  <2>2. SocketTypes'
    BY <1>1, <2>1, RelayedType DEF DaemonReads, ClientTypes, SocketTypes, clientVars
  <2> QED BY <1>1, <2>2 DEF DaemonReads, ClientTypes, FlagTypes, MediaTypes, clientVars
<1>2. ASSUME NEW f \in Fds, DaemonVisits(f) PROVE ClientTypes'
  <2>1. SocketTypes'
    BY <1>2, RelayedType DEF DaemonVisits, ClientTypes, SocketTypes, clientVars
  <2> QED BY <1>2, <2>1 DEF DaemonVisits, ClientTypes, FlagTypes, MediaTypes, clientVars
<1>3. CASE DaemonReaps
  <2>1. SocketTypes'
    BY <1>3, RelayedType DEF DaemonReaps, ClientTypes, SocketTypes, clientVars
  <2> QED BY <1>3, <2>1 DEF DaemonReaps, ClientTypes, FlagTypes, MediaTypes, clientVars
<1>4. CASE DaemonPings \/ DaemonDies
  <2>1. left' \in [Budgets -> Nat]
    BY <1>4, SpendType DEF DaemonPings, DaemonDies, ClientTypes, SocketTypes, Budgets
  <2>2. SocketTypes'
    BY <1>4, <2>1, RelayedType DEF DaemonPings, DaemonDies, ClientTypes, SocketTypes, clientVars
  <2> QED BY <1>4, <2>2 DEF DaemonPings, DaemonDies, ClientTypes, FlagTypes, MediaTypes, clientVars
<1>5. CASE DaemonRestarts
  BY <1>5 DEF DaemonRestarts, ClientTypes, SocketTypes, FlagTypes, MediaTypes, clientVars, netVars
<1> QED BY <1>1, <1>2, <1>3, <1>4, <1>5 DEF Daemon

LEMMA ReadsTypes ==
    ASSUME ClientTypes, NEW c \in Clients, ClientReads(c)
    PROVE  ClientTypes'
<1> DEFINE m == Head(toClient[c])
<1>1. m \in Message \union {Eof} /\ toClient' \in [Clients -> Seq(Message \union {Eof})]
  BY DEF ClientReads, ClientTypes, SocketTypes
<1>2. UNCHANGED <<link, issued, once>>
  BY DEF ClientReads
<1> HIDE DEF m
<1> USE DEF ClientTypes
<1>3. CASE Challenge(c, m)
  BY <1>1, <1>2, <1>3 DEF Challenge, SocketTypes, FlagTypes, MediaTypes
<1>4. CASE LoginOk(c, m)
  BY <1>1, <1>2, <1>4 DEF LoginOk, SocketTypes, FlagTypes, MediaTypes
<1>5. CASE Response(c, m)
  <2>1. MediaTypes'
    <3>1. CASE StopsMedia(c, byes)
      <4>1. byes \in SUBSET Bye
        BY DEF MediaTypes
      <4> QED BY <3>1, <4>1, StopsType
    <3>2. CASE button' = [button EXCEPT ![c] = FALSE] /\ UNCHANGED <<media, byes>>
      BY <3>2 DEF MediaTypes
    <3>3. CASE UNCHANGED <<button, media, byes>>
      BY <3>3 DEF MediaTypes
    <3> QED BY <1>5, <3>1, <3>2, <3>3 DEF Response
  <2> QED BY <1>1, <1>2, <1>5, <2>1 DEF Response, SocketTypes, FlagTypes
<1>6. CASE MediaStart(c, m)
  <2>1. left' \in [Budgets -> Nat]
    BY <1>6, SpendType DEF MediaStart, SocketTypes, Budgets
  <2>2. MediaTypes'
    <3>1. CASE UNCHANGED <<media, byes, button>>
      BY <3>1 DEF MediaTypes
    <3>2. CASE button' = [button EXCEPT ![c] = TRUE] /\ UNCHANGED <<media, byes>>
      BY <3>2 DEF MediaTypes
    <3>3. CASE /\ m.cmd = "ME" /\ m.to # NoAddr
               /\ button' = [button EXCEPT ![c] = TRUE] /\ UNCHANGED byes
               /\ media' = [media EXCEPT ![c] = [src |-> m.src, to |-> m.to, dst |-> m.dst]]
      BY <1>1, <3>3, StartsType DEF MediaTypes
    <3> QED BY <1>6, <3>1, <3>2, <3>3 DEF MediaStart
  <2> QED BY <1>1, <1>2, <1>6, <2>1, <2>2 DEF MediaStart, SocketTypes, FlagTypes
<1>7. CASE MediaStop(c, m)
  <2>1. byes \in SUBSET Bye
    BY DEF MediaTypes
  <2>2. MediaTypes'
    BY <1>7, <2>1, StopsType DEF MediaStop
  <2> QED BY <1>1, <1>2, <1>7, <2>2 DEF MediaStop, SocketTypes, FlagTypes
<1>8. CASE Ping(c, m)
  BY <1>1, <1>2, <1>8 DEF Ping, SocketTypes, FlagTypes, MediaTypes
<1>9. CASE ConnectionLost(c, m)
  BY <1>1, <1>2, <1>9 DEF ConnectionLost, LosesConnection, SocketTypes, FlagTypes, MediaTypes
<1> QED BY <1>3, <1>4, <1>5, <1>6, <1>7, <1>8, <1>9 DEF ClientReads, m

LEMMA ConnectionTypes ==
    ASSUME ClientTypes, NEW c \in Clients,
           \/ Connected(c) \/ ConnectFails(c) \/ Reconnects(c) \/ Reauthenticates(c)
           \/ Relaunch(c)
           \/ \E u \in Uids : Click(c, u) \/ Settings(c, u)
    PROVE  ClientTypes'
<1> USE DEF ClientTypes
<1>1. CASE Connected(c)
  <2>1. SocketTypes'
    BY <1>1 DEF Connected, SocketTypes
  <2> QED BY <1>1, <2>1 DEF Connected, FlagTypes, MediaTypes
<1>2. CASE ConnectFails(c)
  BY <1>2 DEF ConnectFails, LosesConnection, SocketTypes, FlagTypes, MediaTypes, netVars
<1>3. CASE Reconnects(c)
  BY <1>3 DEF Reconnects, ConnectToHost, SocketTypes, FlagTypes, MediaTypes
<1>4. CASE Reauthenticates(c)
  <2>1. left' \in [Budgets -> Nat]
    BY <1>4, SpendType DEF Reauthenticates, Budgets
  <2> QED BY <1>4, <2>1 DEF Reauthenticates, SocketTypes, FlagTypes, MediaTypes
<1>5. CASE Relaunch(c)
  <2>1. left' \in [Budgets -> Nat]
    BY <1>5, SpendType DEF Relaunch, Budgets
  <2>2. SocketTypes'
    BY <1>5, <2>1 DEF Relaunch, SocketTypes
  <2> QED BY <1>5, <2>2 DEF Relaunch, FlagTypes, MediaTypes
<1>6. ASSUME NEW u \in Uids, Click(c, u) PROVE ClientTypes'
  <2>1. left' \in [Budgets -> Nat]
    BY <1>6, SpendType DEF Click, Budgets
  <2> QED BY <1>6, <2>1 DEF Click, SocketTypes, FlagTypes, MediaTypes, clientVars
<1>7. ASSUME NEW u \in Uids, Settings(c, u) PROVE ClientTypes'
  <2>1. left' \in [Budgets -> Nat]
    BY <1>7, SpendType DEF Settings, Budgets
  <2> QED BY <1>7, <2>1 DEF Settings, ConnectToHost, SocketTypes, FlagTypes, MediaTypes
<1> QED BY <1>1, <1>2, <1>3, <1>4, <1>5, <1>6, <1>7

LEMMA CodecTypes ==
    ASSUME ClientTypes, NEW c \in Clients, MediaTimeout(c) \/ HearsBye(c)
    PROVE  ClientTypes'
<1> USE DEF ClientTypes
<1>1. CASE MediaTimeout(c)
  <2>1. left' \in [Budgets -> Nat]
    BY <1>1, SpendType DEF MediaTimeout, Budgets
  <2>2. byes \in SUBSET Bye
    BY DEF MediaTypes
  <2>3. MediaTypes'
    BY <1>1, <2>2, StopsType DEF MediaTimeout
  <2> QED BY <1>1, <2>1, <2>3 DEF MediaTimeout, SocketTypes, FlagTypes, netVars
<1>2. CASE HearsBye(c)
  <2>1. PICK b \in byes : StopsMedia(c, byes \ {b})
    BY <1>2 DEF HearsBye
  <2>2. byes \ {b} \in SUBSET Bye
    BY DEF MediaTypes
  <2>3. MediaTypes'
    BY <2>1, <2>2, StopsType
  <2> QED BY <1>2, <2>3 DEF HearsBye, SocketTypes, FlagTypes, netVars
<1> QED BY <1>1, <1>2

LEMMA ClientStep ==
    ASSUME ClientTypes, out' \in [Fds -> Seq(Message)], [SystemNext]_systemVars
    PROVE  ClientTypes'
<1>1. CASE Daemon
  BY <1>1, DaemonTypes
<1>2. ASSUME NEW c \in Clients, Client(c) PROVE ClientTypes'
  BY <1>2, ReadsTypes, ConnectionTypes, CodecTypes DEF Client
<1>3. CASE ByeIsLost
  BY <1>3 DEF ByeIsLost, ClientTypes, SocketTypes, FlagTypes, MediaTypes, netVars
<1>4. CASE UNCHANGED systemVars
  BY <1>4 DEF systemVars, ClientTypes, SocketTypes, FlagTypes, MediaTypes, netVars, clientVars
<1> QED BY <1>1, <1>2, <1>3, <1>4 DEF SystemNext, Rest

LEMMA ApartStep ==
    ASSUME apart \subseteq Clients, [SystemNext]_systemVars
    PROVE  apart' \subseteq Clients
<1>1. CASE Daemon
  BY <1>1 DEF Daemon, DaemonReads, DaemonVisits, DaemonReaps, DaemonPings, DaemonDies,
              DaemonRestarts, clientVars
<1>2. ASSUME NEW c \in Clients, Client(c) PROVE apart' \subseteq Clients
  <2>1. CASE ClientReads(c)
    <3>1. PICK m : \/ Challenge(c, m) \/ LoginOk(c, m) \/ Response(c, m) \/ MediaStart(c, m)
                   \/ MediaStop(c, m) \/ Ping(c, m) \/ ConnectionLost(c, m)
      BY <2>1 DEF ClientReads
    <3> QED BY <3>1 DEF Challenge, LoginOk, Response, MediaStart, MediaStop, Ping, ConnectionLost
  <2>2. CASE ~ClientReads(c)
    <3>1. apart' = apart \/ apart' = apart \union {c} \/ apart' = apart \ {c}
      BY <1>2, <2>2 DEF Client, Connected, ConnectFails, Reconnects, Reauthenticates, Click, Settings,
                        MediaTimeout, HearsBye, Relaunch, clientVars
    <3> QED BY <3>1
  <2> QED BY <2>1, <2>2
<1>3. CASE ByeIsLost
  BY <1>3 DEF ByeIsLost
<1>4. CASE UNCHANGED systemVars
  BY <1>4 DEF systemVars, clientVars
<1> QED BY <1>1, <1>2, <1>3, <1>4 DEF SystemNext, Rest

\* For any clients, hosts and budgets: whatever is on its way between daemon and clients is
\* a command the other end knows, and every BYE is for an address and a port of some call.
THEOREM SystemTypeCorrect == SystemSpec => []SystemTypeOK
<1>1. TypeOK' /\ ClientTypes /\ [SystemNext]_systemVars => ClientTypes'
  BY ClientStep DEF TypeOK
<1>2. TypeOK /\ QueuesOK /\ ClientTypes /\ apart \subseteq Clients => SystemTypeOK
  BY DEF QueuesOK, ClientTypes, SocketTypes, FlagTypes, MediaTypes, SystemTypeOK, Bye
<1>3. QueuesOK /\ [SystemNext]_systemVars => QueuesOK'
  BY SystemStep
<1>4. SystemInit => apart \subseteq Clients
  BY DEF SystemInit
<1>5. apart \subseteq Clients /\ [SystemNext]_systemVars => (apart \subseteq Clients)'
  BY ApartStep
<1> QED BY <1>1, <1>2, <1>3, <1>4, <1>5, ClientInit, QueuesInit, SystemRunsTheDaemon, TypeCorrect, PTL
        DEF SystemSpec

\* From here on a leaf names the assumption when it needs it
HIDE ClientsAssumption

-----------------------------------------------------------------------------
(***************************************************************************)
(* Queues: what is in one, and what reading and writing change.            *)
(***************************************************************************)
Commands == ToDaemon \union Message \union {Eof}
Queue == Seq(Commands)

\* Some command of q is one of S; no two are; r has those of q
Has(q, S) == \E i \in DOMAIN q : q[i].cmd \in S
Once(q, S) == \A i, j \in DOMAIN q : q[i].cmd \in S /\ q[j].cmd \in S => i = j
Holds(q, m) == \E i \in DOMAIN q : q[i] = m
SameOf(q, r, S) ==
    /\ \A m \in Commands : m.cmd \in S => (Holds(r, m) <=> Holds(q, m))
    /\ Once(q, S) => Once(r, S)

\* Where the commands of two queues are when one is written behind the other
LEMMA CatAt ==
    ASSUME NEW q \in Queue, NEW s \in Queue
    PROVE  /\ q \o s \in Queue
           /\ Len(q \o s) = Len(q) + Len(s)
           /\ Len(q) \in Nat /\ Len(s) \in Nat
           /\ DOMAIN q = 1..Len(q) /\ DOMAIN s = 1..Len(s)
           /\ DOMAIN (q \o s) = 1..(Len(q) + Len(s))
           /\ \A i \in DOMAIN q : (q \o s)[i] = q[i]
           /\ \A i \in DOMAIN s : (q \o s)[Len(q) + i] = s[i]
           /\ \A i \in DOMAIN (q \o s) :
                i \in DOMAIN q \/ (i - Len(q) \in DOMAIN s /\ (q \o s)[i] = s[i - Len(q)])
BY DEF Queue

\* ... and when the first is read
LEMMA TailAt ==
    ASSUME NEW q \in Queue, q # << >>
    PROVE  /\ Tail(q) \in Queue /\ Head(q) = q[1] /\ Head(q) \in Commands
           /\ Len(q) \in Nat \ {0} /\ Len(Tail(q)) = Len(q) - 1
           /\ DOMAIN q = 1..Len(q) /\ DOMAIN Tail(q) = 1..(Len(q) - 1)
           /\ \A i \in DOMAIN Tail(q) : Tail(q)[i] = q[i + 1]
           /\ \A i \in DOMAIN q : i # 1 => i - 1 \in DOMAIN Tail(q) /\ q[i] = Tail(q)[i - 1]
BY DEF Queue

\* What a queue holds, or has, after a write and before a read
LEMMA CatHolds ==
    ASSUME NEW q \in Queue, NEW s \in Queue, NEW m
    PROVE  Holds(q \o s, m) <=> Holds(q, m) \/ Holds(s, m)
<1>1. Holds(q, m) => Holds(q \o s, m)
  BY CatAt DEF Holds, Queue
<1>2. Holds(s, m) => Holds(q \o s, m)
  <2> SUFFICES ASSUME NEW i \in DOMAIN s, s[i] = m PROVE Holds(q \o s, m)
    BY DEF Holds
  <2>1. Len(q) + i \in DOMAIN (q \o s) /\ (q \o s)[Len(q) + i] = m
    BY CatAt DEF Queue
  <2> QED BY <2>1 DEF Holds
<1>3. Holds(q \o s, m) => Holds(q, m) \/ Holds(s, m)
  BY CatAt DEF Holds, Queue
<1> QED BY <1>1, <1>2, <1>3

LEMMA CatHas ==
    ASSUME NEW q \in Queue, NEW s \in Queue, NEW S
    PROVE  Has(q \o s, S) <=> Has(q, S) \/ Has(s, S)
<1>1. Has(q, S) => Has(q \o s, S)
  BY CatAt DEF Has, Queue
<1>2. Has(s, S) => Has(q \o s, S)
  <2> SUFFICES ASSUME NEW i \in DOMAIN s, s[i].cmd \in S PROVE Has(q \o s, S)
    BY DEF Has
  <2>1. Len(q) + i \in DOMAIN (q \o s) /\ (q \o s)[Len(q) + i] = s[i]
    BY CatAt DEF Queue
  <2> QED BY <2>1 DEF Has
<1>3. Has(q \o s, S) => Has(q, S) \/ Has(s, S)
  BY CatAt DEF Has, Queue
<1> QED BY <1>1, <1>2, <1>3

LEMMA TailHolds ==
    ASSUME NEW q \in Queue, q # << >>, NEW m
    PROVE  Holds(q, m) <=> Head(q) = m \/ Holds(Tail(q), m)
<1>1. Holds(Tail(q), m) => Holds(q, m)
  <2> SUFFICES ASSUME NEW i \in DOMAIN Tail(q), Tail(q)[i] = m PROVE Holds(q, m)
    BY DEF Holds
  <2>1. i + 1 \in DOMAIN q /\ q[i + 1] = m
    BY TailAt
  <2> QED BY <2>1 DEF Holds
<1>2. Head(q) = m => Holds(q, m)
  <2>1. 1 \in DOMAIN q
    BY TailAt
  <2> QED BY <2>1, TailAt DEF Holds
<1>3. Holds(q, m) => Head(q) = m \/ Holds(Tail(q), m)
  BY TailAt DEF Holds
<1> QED BY <1>1, <1>2, <1>3

LEMMA TailHas ==
    ASSUME NEW q \in Queue, q # << >>, NEW S
    PROVE  Has(q, S) <=> Head(q).cmd \in S \/ Has(Tail(q), S)
<1>1. Has(Tail(q), S) => Has(q, S)
  <2> SUFFICES ASSUME NEW i \in DOMAIN Tail(q), Tail(q)[i].cmd \in S PROVE Has(q, S)
    BY DEF Has
  <2>1. i + 1 \in DOMAIN q /\ q[i + 1] = Tail(q)[i]
    BY TailAt
  <2> QED BY <2>1 DEF Has
<1>2. Head(q).cmd \in S => Has(q, S)
  <2>1. 1 \in DOMAIN q
    BY TailAt
  <2> QED BY <2>1, TailAt DEF Has
<1>3. Has(q, S) => Head(q).cmd \in S \/ Has(Tail(q), S)
  BY TailAt DEF Has
<1> QED BY <1>1, <1>2, <1>3

\* One command, and none
LEMMA OneHas ==
    ASSUME NEW m \in Commands
    PROVE  /\ << m >> \in Queue
           /\ \A S : Has(<< m >>, S) <=> m.cmd \in S
           /\ \A n : Holds(<< m >>, n) <=> n = m
           /\ \A S : Once(<< m >>, S)
BY DEF Has, Holds, Once, Queue

\* Nothing is in an empty queue
LEMMA SameTail ==
    ASSUME NEW q \in Seq(ToDaemon), NEW m \in ToDaemon, NEW s \in Seq(ToDaemon),
           q \o s = q \o << m >>
    PROVE  s = << m >>
<1>1. Len(s) = 1
  <2>1. Len(q \o s) = Len(q) + Len(s) /\ Len(q \o << m >>) = Len(q) + 1
    OBVIOUS
  <2> QED BY <2>1
<1>2. (q \o s)[Len(q) + 1] = s[1] /\ (q \o << m >>)[Len(q) + 1] = m
  BY <1>1
<1> QED BY <1>1, <1>2

LEMMA NoneHas ==
    /\ << >> \in Queue
    /\ \A S : ~Has(<< >>, S) /\ Once(<< >>, S)
    /\ \A m : ~Holds(<< >>, m)
BY DEF Has, Holds, Once, Queue

\* What is written and has none of S changes nothing for S; what is read neither,
\* if it is none of S
LEMMA CatSame ==
    ASSUME NEW q \in Queue, NEW s \in Queue, NEW S, ~Has(s, S)
    PROVE  SameOf(q, q \o s, S)
<1>1. ASSUME NEW m \in Commands, m.cmd \in S PROVE ~Holds(s, m)
  BY <1>1 DEF Has, Holds
<1>2. Once(q, S) => Once(q \o s, S)
  BY CatAt DEF Once, Has, Queue
<1> QED BY <1>1, <1>2, CatHolds DEF SameOf

\* When the only one of S is read, none is left
LEMMA TailOnce ==
    ASSUME NEW q \in Queue, q # << >>, NEW S, Once(q, S)
    PROVE  /\ Once(Tail(q), S)
           /\ Head(q).cmd \in S => ~Has(Tail(q), S)
<1>1. Once(Tail(q), S)
  <2> SUFFICES ASSUME NEW i \in DOMAIN Tail(q), NEW j \in DOMAIN Tail(q),
                      Tail(q)[i].cmd \in S, Tail(q)[j].cmd \in S
               PROVE  i = j
    BY DEF Once
  <2>1. i + 1 \in DOMAIN q /\ j + 1 \in DOMAIN q /\ q[i + 1] = Tail(q)[i]
        /\ q[j + 1] = Tail(q)[j] /\ i \in Int /\ j \in Int
    BY TailAt
  <2>2. i + 1 = j + 1
    BY <2>1 DEF Once
  <2> QED BY <2>1, <2>2
<1>2. ASSUME Head(q).cmd \in S, NEW i \in DOMAIN Tail(q), Tail(q)[i].cmd \in S
      PROVE  FALSE
  <2>1. i + 1 \in DOMAIN q /\ 1 \in DOMAIN q /\ q[i + 1] = Tail(q)[i] /\ q[1] = Head(q)
        /\ i \in 1..(Len(q) - 1)
    BY TailAt
  <2>2. i + 1 = 1
    BY <1>2, <2>1 DEF Once
  <2> QED BY <2>1, <2>2
<1> QED BY <1>1, <1>2 DEF Has

\* What is read and is none of S changes nothing for S
LEMMA TailSame ==
    ASSUME NEW q \in Queue, q # << >>, NEW S, Head(q).cmd \notin S
    PROVE  SameOf(q, Tail(q), S)
<1>1. \A m \in Commands : m.cmd \in S => Head(q) # m
  OBVIOUS
<1> QED BY <1>1, TailHolds, TailOnce DEF SameOf

LEMMA SelfSame ==
    ASSUME NEW q, NEW S
    PROVE  SameOf(q, q, S)
BY DEF SameOf

\* To have one of S is to hold a command of S
LEMMA HasHolds ==
    ASSUME NEW q \in Queue, NEW S
    PROVE  Has(q, S) <=> \E m \in Commands : m.cmd \in S /\ Holds(q, m)
BY DEF Has, Holds, Queue

\* Where a queue is the same for S, it is the same for a part of S
LEMMA SameHas ==
    ASSUME NEW q \in Queue, NEW r \in Queue, NEW S, NEW R \in SUBSET S, SameOf(q, r, S)
    PROVE  Has(r, R) <=> Has(q, R)
BY HasHolds DEF SameOf

\* After the only one of S was written to a queue that had none
LEMMA CatOnce ==
    ASSUME NEW q \in Queue, NEW m \in Commands, NEW S, ~Has(q, S)
    PROVE  Once(q \o << m >>, S)
BY CatAt, OneHas DEF Once, Has, Queue

-----------------------------------------------------------------------------
(***************************************************************************)
(* What a codec runs with, or will when it has read its queue.             *)
(***************************************************************************)
\* The codec has x now, reads q, and may run with source port p and far port r then: it
\* does now or is told to, and no stop comes after it
MayRun(x, q, p, r) ==
    \/ x # NoMedia /\ x.src = p /\ x.dst = r /\ ~Has(q, {"MS"})
    \/ \E i \in DOMAIN q : /\ q[i].cmd = "ME" /\ q[i].src = p /\ q[i].dst = r
                           /\ \A j \in DOMAIN q : j > i => q[j].cmd # "MS"
Ahead(x, q) == {s \in Ports \X Ports : MayRun(x, q, s[1], s[2])}

\* More may run ahead of who may run more
LEMMA AheadIn ==
    ASSUME NEW x, NEW q, NEW y, NEW r,
           \A a, b \in Ports : MayRun(y, r, a, b) => MayRun(x, q, a, b)
    PROVE  Ahead(y, r) \subseteq Ahead(x, q)
BY DEF Ahead

\* Commands that neither start nor stop are neither here nor there
LEMMA AheadNeutral ==
    ASSUME NEW x, NEW q \in Queue, NEW s \in Queue, ~Has(s, {"ME", "MS"})
    PROVE  Ahead(x, q \o s) = Ahead(x, q)
<1>1. ~Has(s, {"MS"}) /\ \A i \in DOMAIN s : s[i].cmd # "ME" /\ s[i].cmd # "MS"
  BY DEF Has
<1>2. Has(q \o s, {"MS"}) <=> Has(q, {"MS"})
  BY <1>1, CatHas
<1>3. ASSUME NEW p, NEW r PROVE MayRun(x, q \o s, p, r) => MayRun(x, q, p, r)
  <2>1. ASSUME NEW i \in DOMAIN (q \o s), (q \o s)[i].cmd = "ME",
               (q \o s)[i].src = p, (q \o s)[i].dst = r,
               \A j \in DOMAIN (q \o s) : j > i => (q \o s)[j].cmd # "MS"
        PROVE  MayRun(x, q, p, r)
    <3>1. i \in DOMAIN q /\ (q \o s)[i] = q[i]
      BY <1>1, <2>1, CatAt DEF Queue
    <3>2. \A j \in DOMAIN q : j > i => q[j].cmd # "MS"
      BY <2>1, CatAt DEF Queue
    <3> QED BY <2>1, <3>1, <3>2 DEF MayRun
  <2> QED BY <1>2, <2>1 DEF MayRun
<1>4. ASSUME NEW p, NEW r PROVE MayRun(x, q, p, r) => MayRun(x, q \o s, p, r)
  <2>1. ASSUME NEW i \in DOMAIN q, q[i].cmd = "ME", q[i].src = p, q[i].dst = r,
               \A j \in DOMAIN q : j > i => q[j].cmd # "MS"
        PROVE  MayRun(x, q \o s, p, r)
    <3>1. i \in DOMAIN (q \o s) /\ (q \o s)[i] = q[i]
      BY CatAt DEF Queue
    <3>2. \A j \in DOMAIN (q \o s) : j > i => (q \o s)[j].cmd # "MS"
      BY <1>1, <2>1, CatAt DEF Queue
    <3> QED BY <2>1, <3>1, <3>2 DEF MayRun
  <2> QED BY <1>2, <2>1 DEF MayRun
<1> QED BY <1>3, <1>4, AheadIn

\* A stop stops all that came before it
LEMMA AheadStopped ==
    ASSUME NEW x, NEW q \in Queue, NEW s \in Queue, Has(s, {"MS"}), ~Has(s, {"ME"})
    PROVE  Ahead(x, q \o s) = {}
<1>1. Has(q \o s, {"MS"})
  BY CatHas
<1>2. PICK k \in DOMAIN s : s[k].cmd = "MS"
  BY DEF Has
<1>3. Len(q) + k \in DOMAIN (q \o s) /\ (q \o s)[Len(q) + k].cmd = "MS"
  BY <1>2, CatAt DEF Queue
<1>4. ASSUME NEW i \in DOMAIN (q \o s), (q \o s)[i].cmd = "ME" PROVE Len(q) + k > i
  <2>1. i \in DOMAIN q
    BY <1>4, CatAt DEF Queue, Has
  <2> QED BY <2>1, CatAt DEF Queue
<1> QED BY <1>1, <1>3, <1>4 DEF Ahead, MayRun

\* A start adds what it says, and there is something ahead after it
LEMMA AheadStarted ==
    ASSUME NEW x, NEW q \in Queue, NEW s \in Queue, ~Has(s, {"MS"}),
           NEW p \in Ports, NEW r \in Ports,
           \A i \in DOMAIN s : s[i].cmd = "ME" => s[i].src = p /\ s[i].dst = r
    PROVE  /\ Ahead(x, q \o s) \subseteq Ahead(x, q) \union {<< p, r >>}
           /\ Has(s, {"ME"}) => << p, r >> \in Ahead(x, q \o s)
<1>1. \A i \in DOMAIN s : s[i].cmd # "MS"
  BY DEF Has
<1>2. Has(q \o s, {"MS"}) <=> Has(q, {"MS"})
  BY CatHas
<1>3. ASSUME NEW a \in Ports, NEW b \in Ports, MayRun(x, q \o s, a, b)
      PROVE  MayRun(x, q, a, b) \/ << a, b >> = << p, r >>
  <2>1. ASSUME NEW i \in DOMAIN (q \o s), (q \o s)[i].cmd = "ME",
               (q \o s)[i].src = a, (q \o s)[i].dst = b,
               \A j \in DOMAIN (q \o s) : j > i => (q \o s)[j].cmd # "MS"
        PROVE  MayRun(x, q, a, b) \/ (a = p /\ b = r)
    <3>1. CASE i \in DOMAIN q
      <4>1. (q \o s)[i] = q[i] /\ \A j \in DOMAIN q : j > i => q[j].cmd # "MS"
        BY <2>1, <3>1, CatAt DEF Queue
      <4> QED BY <2>1, <3>1, <4>1 DEF MayRun
    <3>2. CASE i \notin DOMAIN q
      <4>1. i - Len(q) \in DOMAIN s /\ (q \o s)[i] = s[i - Len(q)]
        BY <3>2, CatAt DEF Queue
      <4> QED BY <2>1, <4>1
    <3> QED BY <3>1, <3>2
  <2> QED BY <1>2, <1>3, <2>1 DEF MayRun
<1>4. ASSUME Has(s, {"ME"}) PROVE MayRun(x, q \o s, p, r)
  <2>1. PICK k \in DOMAIN s : s[k].cmd = "ME"
    BY <1>4 DEF Has
  <2> DEFINE i == Len(q) + k
  <2>2. i \in DOMAIN (q \o s) /\ (q \o s)[i] = s[k]
    BY CatAt DEF Queue
  <2>3. ASSUME NEW j \in DOMAIN (q \o s), j > i PROVE (q \o s)[j].cmd # "MS"
    <3>1. j - Len(q) \in DOMAIN s /\ (q \o s)[j] = s[j - Len(q)]
      BY <2>3, CatAt DEF Queue
    <3> QED BY <3>1, <1>1
  <2> QED BY <2>1, <2>2, <2>3 DEF MayRun
<1> QED BY <1>3, <1>4 DEF Ahead

\* A queue that is read: m is its head, t what follows.  If m is no start, what is ahead
\* is what was; the one that is a start may be obeyed or not
LEMMA AheadReads ==
    ASSUME NEW x, NEW q \in Queue, q # << >>
    PROVE  /\ Head(q).cmd \notin {"ME", "MS"} => Ahead(x, Tail(q)) = Ahead(x, q)
           /\ Head(q).cmd = "MS" => Ahead(NoMedia, Tail(q)) = Ahead(x, q)
           /\ Head(q).cmd = "ME" => Ahead(x, Tail(q)) \subseteq Ahead(x, q)
<1> DEFINE m == Head(q)
           t == Tail(q)
<1>0. m = Head(q) /\ t = Tail(q)
  OBVIOUS
<1> HIDE DEF m, t
<1>1. /\ \A i \in DOMAIN t : i \in Int /\ i >= 1 /\ i + 1 \in DOMAIN q /\ q[i + 1] = t[i]
      /\ \A i \in DOMAIN q : i \in Int /\ (i = 1 \/ (i - 1 \in DOMAIN t /\ t[i - 1] = q[i]))
      /\ q[1] = m /\ 1 \in DOMAIN q
  BY <1>0, TailAt
<1>2. m.cmd # "MS" => (Has(q, {"MS"}) <=> Has(t, {"MS"}))
  BY <1>0, TailHas
<1>3. ASSUME NEW p, NEW r, NEW i \in DOMAIN t, t[i].cmd = "ME", t[i].src = p, t[i].dst = r,
             \A j \in DOMAIN t : j > i => t[j].cmd # "MS"
      PROVE  MayRun(x, q, p, r)
  <2>1. ASSUME NEW j \in DOMAIN q, j > i + 1 PROVE q[j].cmd # "MS"
    <3>1. j - 1 \in DOMAIN t /\ t[j - 1] = q[j] /\ j - 1 > i
      BY <1>1, <1>3, <2>1
    <3> QED BY <1>3, <3>1
  <2>2. i + 1 \in DOMAIN q /\ q[i + 1] = t[i]
    BY <1>1, <1>3
  <2> QED BY <1>3, <2>1, <2>2 DEF MayRun
<1>4. ASSUME NEW p, NEW r, NEW i \in DOMAIN q, q[i].cmd = "ME", q[i].src = p, q[i].dst = r,
             \A j \in DOMAIN q : j > i => q[j].cmd # "MS", i # 1, NEW y
      PROVE  MayRun(y, t, p, r)
  <2>1. i - 1 \in DOMAIN t /\ t[i - 1] = q[i]
    BY <1>1, <1>4
  <2>2. ASSUME NEW j \in DOMAIN t, j > i - 1 PROVE t[j].cmd # "MS"
    <3>1. j + 1 \in DOMAIN q /\ q[j + 1] = t[j] /\ j + 1 > i
      BY <1>1, <1>4, <2>2
    <3> QED BY <1>4, <3>1
  <2> QED BY <1>4, <2>1, <2>2 DEF MayRun
<1>5. ASSUME m.cmd \notin {"ME", "MS"} PROVE Ahead(x, t) = Ahead(x, q)
  <2>1. ASSUME NEW p \in Ports, NEW r \in Ports PROVE MayRun(x, t, p, r) <=> MayRun(x, q, p, r)
    <3>1. MayRun(x, t, p, r) => MayRun(x, q, p, r)
      BY <1>2, <1>3, <1>5 DEF MayRun
    <3>2. MayRun(x, q, p, r) => MayRun(x, t, p, r)
      BY <1>1, <1>2, <1>4, <1>5 DEF MayRun
    <3> QED BY <3>1, <3>2
  <2> QED BY <2>1 DEF Ahead
<1>6. ASSUME m.cmd = "MS" PROVE Ahead(NoMedia, t) = Ahead(x, q)
  <2>1. Has(q, {"MS"})
    BY <1>0, <1>6, TailHas
  <2>2. ASSUME NEW p \in Ports, NEW r \in Ports
        PROVE  MayRun(NoMedia, t, p, r) <=> MayRun(x, q, p, r)
    <3>1. MayRun(NoMedia, t, p, r) => MayRun(x, q, p, r)
      BY <1>3 DEF MayRun
    <3>2. ASSUME MayRun(x, q, p, r) PROVE MayRun(NoMedia, t, p, r)
      <4>1. PICK i \in DOMAIN q : /\ q[i].cmd = "ME" /\ q[i].src = p /\ q[i].dst = r
                                  /\ \A j \in DOMAIN q : j > i => q[j].cmd # "MS"
        BY <2>1, <3>2 DEF MayRun
      <4>2. i # 1
        BY <1>1, <1>6, <4>1
      <4> QED BY <1>4, <4>1, <4>2
    <3> QED BY <3>1, <3>2
  <2> QED BY <2>2 DEF Ahead
<1>7. ASSUME m.cmd = "ME" PROVE Ahead(x, t) \subseteq Ahead(x, q)
  <2>1. ASSUME NEW p \in Ports, NEW r \in Ports PROVE MayRun(x, t, p, r) => MayRun(x, q, p, r)
    BY <1>2, <1>3, <1>7 DEF MayRun
  <2> QED BY <2>1 DEF Ahead
<1> QED BY <1>0, <1>5, <1>6, <1>7

\* A ME that is obeyed was ahead, and something stays ahead
LEMMA AheadObeys ==
    ASSUME NEW q \in Queue, q # << >>, NEW m, m = Head(q), m.cmd = "ME", NEW y, y # NoMedia
    PROVE  /\ y.src = m.src /\ y.dst = m.dst => Ahead(y, Tail(q)) \subseteq Ahead(NoMedia, q)
           /\ y.src \in Ports /\ y.dst \in Ports =>
                \A x : Ahead(x, q) # {} => Ahead(y, Tail(q)) # {}
<1> DEFINE t == Tail(q)
<1>1. /\ \A i \in DOMAIN t : i \in Int /\ i >= 1 /\ i + 1 \in DOMAIN q /\ q[i + 1] = t[i]
      /\ \A i \in DOMAIN q : i \in Int /\ (i = 1 \/ (i - 1 \in DOMAIN t /\ t[i - 1] = q[i]))
      /\ q[1] = m /\ 1 \in DOMAIN q
  BY TailAt
<1>2. Has(q, {"MS"}) <=> Has(t, {"MS"})
  BY TailHas
<1> HIDE DEF t
<1>3. ASSUME y.src = m.src, y.dst = m.dst, NEW p, NEW r, MayRun(y, t, p, r)
      PROVE  MayRun(NoMedia, q, p, r)
  <2>1. CASE ~Has(t, {"MS"}) /\ y.src = p /\ y.dst = r
    <3>1. \A j \in DOMAIN q : q[j].cmd # "MS"
      BY <1>2, <2>1 DEF Has
    <3> QED BY <1>1, <1>3, <2>1, <3>1 DEF MayRun
  <2>2. ASSUME NEW i \in DOMAIN t, t[i].cmd = "ME", t[i].src = p, t[i].dst = r,
               \A j \in DOMAIN t : j > i => t[j].cmd # "MS"
        PROVE  MayRun(NoMedia, q, p, r)
    <3>1. ASSUME NEW j \in DOMAIN q, j > i + 1 PROVE q[j].cmd # "MS"
      <4>1. j - 1 \in DOMAIN t /\ t[j - 1] = q[j] /\ j - 1 > i
        BY <1>1, <2>2, <3>1
      <4> QED BY <2>2, <4>1
    <3>2. i + 1 \in DOMAIN q /\ q[i + 1] = t[i]
      BY <1>1, <2>2
    <3> QED BY <2>2, <3>1, <3>2 DEF MayRun
  <2> QED BY <1>3, <2>1, <2>2 DEF MayRun
<1>4. ASSUME y.src \in Ports, y.dst \in Ports, NEW x, Ahead(x, q) # {} PROVE Ahead(y, t) # {}
  <2>1. CASE ~Has(t, {"MS"})
    <3>1. MayRun(y, t, y.src, y.dst)
      BY <2>1 DEF MayRun
    <3>2. << y.src, y.dst >> \in Ahead(y, t)
      BY <1>4, <3>1 DEF Ahead
    <3> QED BY <3>2
  <2>2. CASE Has(t, {"MS"})
    <3>1. PICK p \in Ports, r \in Ports : MayRun(x, q, p, r)
      BY <1>4 DEF Ahead
    <3>2. PICK i \in DOMAIN q : /\ q[i].cmd = "ME" /\ q[i].src = p /\ q[i].dst = r
                                /\ \A j \in DOMAIN q : j > i => q[j].cmd # "MS"
      BY <1>2, <2>2, <3>1 DEF MayRun
    <3>3. i # 1
      <4>1. PICK k \in DOMAIN t : t[k].cmd = "MS"
        BY <2>2 DEF Has
      <4>2. k + 1 \in DOMAIN q /\ q[k + 1].cmd = "MS" /\ k + 1 > 1
        BY <1>1, <4>1
      <4> QED BY <3>2, <4>2
    <3>4. i - 1 \in DOMAIN t /\ t[i - 1] = q[i]
      BY <1>1, <3>3
    <3>5. ASSUME NEW j \in DOMAIN t, j > i - 1 PROVE t[j].cmd # "MS"
      <4>1. j + 1 \in DOMAIN q /\ q[j + 1] = t[j] /\ j + 1 > i
        BY <1>1, <3>5
      <4> QED BY <3>2, <4>1
    <3>6. MayRun(y, t, p, r)
      BY <3>2, <3>4, <3>5 DEF MayRun
    <3>7. << p, r >> \in Ahead(y, t)
      BY <3>6 DEF Ahead
    <3> QED BY <3>7
  <2> QED BY <2>1, <2>2
<1> QED BY <1>3, <1>4 DEF Ahead, t

\* A codec that is stopped otherwise
LEMMA AheadDrops ==
    ASSUME NEW x, NEW q
    PROVE  Ahead(NoMedia, q) \subseteq Ahead(x, q)
BY DEF Ahead, MayRun

\* Nothing is ahead of a client that runs nothing and has nothing to read
LEMMA AheadNothing == Ahead(NoMedia, << >>) = {}
BY DEF Ahead, MayRun

\* With nothing to read, what runs is what is ahead
LEMMA AheadNow ==
    ASSUME NEW x \in Media
    PROVE  Ahead(x, << >>) = IF x = NoMedia THEN {} ELSE {<< x.src, x.dst >>}
BY DEF Ahead, MayRun, Has, Media

-----------------------------------------------------------------------------
(***************************************************************************)
(* Calm: nobody's connection is lost.                                      *)
(*                                                                         *)
(* No program stops, no account is shared or changed, and no ping comes    *)
(* before the answer to the last one.  With a connection its MS would be   *)
(* lost: a client whose old connection still bears his name is refused     *)
(* over the new one, and when it is reaped before its far end hangs up,    *)
(* his codec runs on with nobody in its call.                              *)
(***************************************************************************)
Calm ==
    /\ SteadyClock /\ (Pinging => PingLimit > 0)
    /\ \A b \in {"settings", "sweep", "quit", "shutdown"} : Budget[b] = 0
    /\ \A c, d \in Clients : Account[c] = Account[d] => c = d

SpentInv == \A b \in {"settings", "sweep", "quit", "shutdown"} : left[b] = 0

\* Every connection stays, and every client has one of its own or is about to
SocketInv ==
    /\ up /\ ~reap /\ acct = Account
    /\ \A f \in Fds :
         IF f \in conns
         THEN link[f] \in Clients /\ sock[f] /\ ~zombie[f] /\ addr[f] = Host[link[f]]
         ELSE link[f] = NoClient /\ ~sock[f] /\ toDaemon[f] = << >>
    /\ \A f, g \in Fds : link[f] = link[g] /\ link[f] # NoClient => f = g
Fresh(c) ==
    /\ tcp[c] = "connecting" /\ media[c] = NoMedia /\ toClient[c] = << >>
    /\ ~reauth[c] /\ ~button[c]
ClientInv ==
    \A c \in Clients : ~retry[c] /\ IF \E f \in Fds : link[f] = c THEN tcp[c] = "open" ELSE Fresh(c)
EofInv ==
    /\ \A f \in Fds : ~Has(toDaemon[f], {"EOF"})
    /\ \A c \in Clients : ~Has(toClient[c], {"EOF"})

\* Only who has said his name is called, or calls
PeerInv ==
    \A f \in Fds : peer[f] # NoFd =>
        f \in conns /\ peer[f] \in conns /\ uid[f] # NoUid /\ uid[peer[f]] # NoUid

\* A login goes round once: LI, challenge, PW, OK, and the timer that begins another
Tokens(f) ==
    LET c == link[f]
        d == toDaemon[f]
        q == toClient[c]
    IN  /\ Once(d, {"LI", "PW"}) /\ Once(q, {"LI", "OK"})
        /\ Has(d, {"LI", "PW"}) => ~Has(q, {"LI", "OK"}) /\ ~reauth[c]
        /\ Has(q, {"LI", "OK"}) => ~reauth[c]
\* The challenge that is answered is the last one
Numbers(f) ==
    LET c == link[f]
    IN  /\ issued[f] = IF Has(toClient[c], {"LI"}) THEN seen[c] + 1 ELSE seen[c]
        /\ \A n \in Nat : Holds(toDaemon[f], PW(n)) => n = seen[c]
        /\ \A u \in Uids : Holds(toDaemon[f], LI(u)) => u = acct[c]
Greets(f) ==
    /\ uid[f] = NoUid /\ ~auth[f] /\ toClient[link[f]] = << >>
    /\ toDaemon[f] = << LI(acct[link[f]]) >>
    /\ ~button[link[f]] /\ media[link[f]] = NoMedia
Challenged(f) ==
    /\ uid[f] = acct[link[f]] /\ ~auth[f] /\ toDaemon[f] = << >>
    /\ toClient[link[f]] # << >> /\ Head(toClient[link[f]]).cmd = "LI"
    /\ ~button[link[f]] /\ media[link[f]] = NoMedia
Answers(f) ==
    /\ uid[f] = acct[link[f]] /\ ~auth[f]
    /\ toDaemon[f] # << >> /\ Head(toDaemon[f]).cmd = "PW"
Phase(f) ==
    \/ Greets(f) \/ Challenged(f) \/ Answers(f)
    \/ uid[f] = acct[link[f]] /\ auth[f]
LoginInv ==
    \A f \in conns : Tokens(f) /\ Numbers(f) /\ Phase(f) /\ (uid[f] # NoUid => laddr[f] \in Addrs)

\* A ping is answered before the next one
PingInv ==
    /\ ~Pinging => walk = {}
    /\ \A f \in walk : f \in conns /\ auth[f] /\ age[f] = 0
    /\ \A f \in conns :
         age[f] = 0 \/ Has(toDaemon[f], {"PG"}) \/ Has(toClient[link[f]], {"PG"})

CalmInv ==
    /\ SpentInv /\ SocketInv /\ ClientInv /\ EofInv /\ PeerInv /\ LoginInv /\ PingInv
Types == TypeOK /\ QueuesOK /\ ClientTypes

\* What the daemon does with the command m from f, when nothing is refused
Admits(f) ==
    /\ auth' = [auth EXCEPT ![f] = TRUE]
    /\ online' = online \union {uid[f]}
    /\ out' = Tell(f, << Plain("OK") >>)
    /\ UNCHANGED << up, sockVars, uid, laddr, callVars, timeVars, calls, ended >>
EndsCall(f) ==
    /\ HangUp(f)
    /\ UNCHANGED << up, sockVars, idVars, timeVars, online, calls >>
Forwards(f, m) ==
    /\ out' = IF peer[f] = NoFd THEN Silence ELSE Tell(peer[f], << m >>)
    /\ UNCHANGED << up, sockVars, idVars, callVars, timeVars, dbVars >>
Refuses(f) ==
    /\ \E code \in {12, 13} : out' = Tell(f, << ER(code) >>)
    /\ UNCHANGED << up, sockVars, idVars, callVars, timeVars, dbVars >>
Serves(f, m) ==
    \/ m.cmd = "LI" /\ \E a \in Addrs : Login(f, m.user, a)
    \/ m.cmd = "PW" /\ Admits(f)
    \/ m.cmd = "CA" /\ auth[f] /\ (Refuses(f) \/ \E d \in Fds : InitiateCall(f, m.user, d))
    \/ m.cmd = "BY" /\ auth[f] /\ EndsCall(f)
    \/ m.cmd = "ER" /\ auth[f] /\ Forwards(f, m)
    \/ m.cmd = "PG" /\ auth[f] /\ UpdatePing(f)

\* Every queue holds commands
LEMMA Queues ==
    ASSUME Types
    PROVE  /\ \A f \in Fds : toDaemon[f] \in Seq(ToDaemon) /\ toDaemon[f] \in Queue
           /\ \A c \in Clients : toClient[c] \in Seq(Message \union {Eof}) /\ toClient[c] \in Queue
           /\ \A f \in Fds : out[f] \in Seq(Message) /\ out[f] \in Queue
BY DEF Types, TypeOK, QueuesOK, ClientTypes, SocketTypes, Queue, Commands

\* A command for the daemon, by its name
LEMMA CommandFields ==
    ASSUME NEW m \in ToDaemon
    PROVE  /\ m.cmd \in {"EOF", "BY", "PG", "ER", "LI", "CA", "PW"}
           /\ m.cmd = "LI" => m.user \in Uids /\ m = LI(m.user)
           /\ m.cmd = "CA" => m.user \in Uids /\ m = CA(m.user)
           /\ m.cmd = "PW" => m.n \in Nat /\ m = PW(m.n)
           /\ m.cmd = "ER" => m = ER(14)
           /\ m.cmd = "EOF" => m = Eof
BY DEF ToDaemon, Eof, Plain, ER, LI, CA, PW

\* Nobody else has said the same name
LEMMA NameOwned ==
    ASSUME Calm, CalmInv, Types, NEW f \in conns
    PROVE  ~InUseElsewhere(f) \/ uid[f] = NoUid
<1> SUFFICES ASSUME NEW g \in conns, g # f, uid[g] = uid[f], uid[f] # NoUid PROVE FALSE
  BY DEF InUseElsewhere
<1>1. f \in Fds /\ g \in Fds
  BY DEF Types, TypeOK
<1>2. uid[f] = acct[link[f]] /\ uid[g] = acct[link[g]]
  BY <1>1 DEF CalmInv, LoginInv, Phase, Greets, Challenged, Answers
<1>3. link[f] \in Clients /\ link[g] \in Clients /\ acct = Account
  BY <1>1 DEF CalmInv, SocketInv
<1>4. link[f] = link[g]
  BY <1>2, <1>3 DEF Calm
<1> QED BY <1>1, <1>3, <1>4, ClientsAssumption DEF CalmInv, SocketInv

\* In a calm system the daemon refuses no name, no password and no command
LEMMA CalmServes ==
    ASSUME Calm, CalmInv, Types, NEW f \in Fds, DaemonReads(f)
    PROVE  /\ f \in conns /\ Command(f) /\ toDaemon[f] # << >>
           /\ Head(toDaemon[f]) \in ToDaemon /\ Holds(toDaemon[f], Head(toDaemon[f]))
           /\ Serves(f, Head(toDaemon[f]))
           /\ Head(toDaemon[f]).cmd = "LI" \/ Head(toDaemon[f]).cmd = "PW" \/ auth[f]
<1> DEFINE m == Head(toDaemon[f])
<1>1. toDaemon[f] # << >> /\ Handle(f, m)
  BY DEF DaemonReads
<1>2. toDaemon[f] \in Queue /\ toDaemon[f] \in Seq(ToDaemon) /\ m \in ToDaemon
  BY <1>1, Queues
<1>3. Holds(toDaemon[f], m)
  BY <1>1, <1>2, TailHolds
<1>4. f \in conns
  BY <1>1 DEF CalmInv, SocketInv
<1>5. m.cmd # "EOF"
  <2>1. Has(toDaemon[f], {"EOF"}) <=> m.cmd \in {"EOF"} \/ Has(Tail(toDaemon[f]), {"EOF"})
    BY <1>1, <1>2, TailHas
  <2> QED BY <2>1 DEF CalmInv, EofInv
<1>6. Phase(f) /\ Numbers(f) /\ Tokens(f)
  BY <1>4 DEF CalmInv, LoginInv
<1>7. m.cmd = "LI" \/ m.cmd = "PW" \/ auth[f]
  <2>1. Greets(f) => m = LI(acct[link[f]])
    BY DEF Greets
  <2> QED BY <1>1, <1>6, <2>1 DEF Phase, Challenged, Answers, LI
<1>8. Idle /\ Command(f)
  <2>1. Handle(f, m) => Command(f)
    BY DEF Handle, Login, Password, Unauthenticated, CallRefused, InitiateCall, EndCall,
           ForwardMessage, UpdatePing, ConnectionClosed
  <2> QED BY <1>1, <2>1 DEF Command
<1>9. m.cmd = "PW" => uid[f] # NoUid /\ m.n = issued[f]
  <2> SUFFICES ASSUME m.cmd = "PW" PROVE uid[f] # NoUid /\ m.n = issued[f]
    OBVIOUS
  <2>1. m = PW(m.n) /\ m.n \in Nat
    BY <1>2, CommandFields
  <2>2. m.n = seen[link[f]]
    BY <1>3, <1>6, <2>1 DEF Numbers
  <2>3. Has(toDaemon[f], {"LI", "PW"})
    BY <1>1, <1>2, TailHas
  <2>4. ~Has(toClient[link[f]], {"LI"})
    BY <1>6, <2>3 DEF Tokens, Has
  <2>5. ~Greets(f)
    BY <2>1 DEF Greets, LI, PW
  <2>6. uid[f] = acct[link[f]] /\ acct[link[f]] \in Uids
    BY <1>4, <1>6, <2>5 DEF Phase, Challenged, Answers, CalmInv, SocketInv, Types, QueuesOK
  <2> QED BY <1>6, <2>2, <2>4, <2>6, UidsAssumption DEF Numbers
<1>10. ~Dangling(f)
  BY DEF CalmInv, PeerInv, Dangling
<1>11. ~zombie[f] /\ auth[f] => LoggedIn(f)
  <2>1. auth[f] => uid[f] = acct[link[f]]
    BY <1>6 DEF Phase, Greets, Challenged, Answers
  <2> QED BY <1>4, <2>1, UidsAssumption DEF CalmInv, SocketInv, Types, QueuesOK, LoggedIn
<1>12. Serves(f, m)
  <2> HIDE DEF m
  <2>1. CASE m.cmd = "LI" /\ \E a \in Addrs : Login(f, m.user, a)
    BY <2>1 DEF Serves
  <2>2. CASE m.cmd = "PW" /\ Password(f, m.n = issued[f])
    <3>1. ~InUseElsewhere(f) /\ uid[f] # NoUid /\ m.n = issued[f]
      BY <1>4, <1>9, <2>2, NameOwned
    <3> QED BY <2>2, <3>1 DEF Password, Serves, Admits
  <2>3. CASE m.cmd \notin {"LI", "PW", "EOF"} /\ Unauthenticated(f)
    BY <1>7, <2>3 DEF Unauthenticated
  <2>4. CASE m.cmd = "CA" /\ \/ \E code \in {12, 13} : CallRefused(f, m.user, code)
                             \/ \E d \in Fds : InitiateCall(f, m.user, d)
    BY <2>4 DEF Serves, CallRefused, InitiateCall, Refuses
  <2>5. CASE m.cmd = "BY" /\ EndCall(f)
    BY <1>10, <2>5 DEF Serves, EndCall, EndsCall
  <2>6. CASE m.cmd = "ER" /\ ForwardMessage(f, m)
    BY <1>10, <2>6 DEF Serves, ForwardMessage, Forwards
  <2>7. CASE m.cmd = "PG" /\ UpdatePing(f)
    BY <2>7 DEF Serves, UpdatePing
  <2> QED BY <1>1, <1>5, <2>1, <2>2, <2>3, <2>4, <2>5, <2>6, <2>7 DEF Handle
<1> QED BY <1>1, <1>2, <1>3, <1>4, <1>7, <1>8, <1>12

\* A step of the daemon that leaves the table of connections alone
StaysOpen == UNCHANGED << up, conns, sock, addr, zombie, reap >>

\* Who stays connected gets what was written, and the daemon loses what it read
LEMMA CalmRelay ==
    ASSUME CalmInv, Types, NEW reads \in SUBSET conns, StaysOpen, Relay(reads)
    PROVE  /\ link' = link
           /\ \A f \in conns : toClient'[link[f]] = toClient[link[f]] \o out'[f]
           /\ \A f \in Fds : toDaemon'[f] = IF f \in reads THEN Tail(toDaemon[f]) ELSE toDaemon[f]
           /\ \A c \in Clients : (\A f \in Fds : link[f] # c) => toClient'[c] = toClient[c]
<1>1. /\ \A f \in conns : f \in Fds /\ link[f] \in Clients /\ sock'[f] /\ f \in conns'
      /\ \A f \in Fds \ conns : link[f] = NoClient /\ toDaemon[f] = << >> /\ f \notin conns'
      /\ \A f, g \in Fds : link[f] = link[g] /\ link[f] # NoClient => f = g
  BY DEF CalmInv, SocketInv, StaysOpen, Types, TypeOK
<1>2. link' = link
  <2>1. link \in [Fds -> Clients \union {NoClient}]
    BY DEF Types, ClientTypes, SocketTypes
  <2> QED BY <1>1, <2>1 DEF Relay
<1>3. ASSUME NEW f \in conns PROVE toClient'[link[f]] = toClient[link[f]] \o out'[f]
  <2>1. f \in Fds /\ link[f] \in Clients /\ link[f] # NoClient
    BY <1>1, ClientsAssumption
  <2>2. (CHOOSE g \in Fds : link[g] = link[f]) = f
    BY <1>1, <2>1
  <2>3. ~(f \notin conns' \/ ~sock'[f])
    BY <1>1
  <2>4. toClient'[link[f]] = toClient[link[f]] \o (IF f \notin conns' \/ ~sock'[f] THEN << Eof >> ELSE out'[f])
    BY <2>1, <2>2 DEF Relay
  <2> QED BY <2>3, <2>4
<1>4. \A f \in Fds : toDaemon'[f] = IF f \in reads THEN Tail(toDaemon[f]) ELSE toDaemon[f]
  BY <1>1 DEF Relay
<1>5. \A c \in Clients : (\A f \in Fds : link[f] # c) => toClient'[c] = toClient[c]
  BY DEF Relay
<1> QED BY <1>2, <1>3, <1>4, <1>5

\* The daemon writes no end of file
LEMMA MessageFields ==
    ASSUME NEW m \in Message
    PROVE  /\ m.cmd \in {"LI", "OK", "MS", "PG", "CB", "ER", "ME"}
           /\ m.cmd = "ME" => m.src \in Ports /\ m.dst \in Ports
BY DEF Message

\* A step of the daemon that closes nothing leaves the connections as they were
LEMMA DaemonSockets ==
    ASSUME CalmInv, Types, Types', NEW reads \in SUBSET conns, StaysOpen, Relay(reads),
           \A f \in reads : toDaemon[f] # << >>,
           UNCHANGED clientVars
    PROVE  SocketInv' /\ ClientInv' /\ EofInv'
<1>1. /\ link' = link
      /\ \A f \in conns : toClient'[link[f]] = toClient[link[f]] \o out'[f]
      /\ \A f \in Fds : toDaemon'[f] = IF f \in reads THEN Tail(toDaemon[f]) ELSE toDaemon[f]
      /\ \A c \in Clients : (\A f \in Fds : link[f] # c) => toClient'[c] = toClient[c]
  BY CalmRelay
<1>2. conns \subseteq Fds
  BY DEF Types, TypeOK
<1>3. SocketInv'
  <2>1. \A f \in Fds : f \notin conns => f \notin reads
    OBVIOUS
  <2> QED BY <1>1, <2>1 DEF SocketInv, CalmInv, StaysOpen, clientVars
<1>4. ClientInv'
  BY <1>1 DEF ClientInv, Fresh, CalmInv, clientVars
<1>5. EofInv'
  <2>1. ASSUME NEW f \in Fds PROVE ~Has(toDaemon'[f], {"EOF"})
    <3>1. toDaemon[f] \in Queue
      BY Queues
    <3> QED BY <1>1, <3>1, TailHas DEF CalmInv, EofInv
  <2>2. ASSUME NEW c \in Clients PROVE ~Has(toClient'[c], {"EOF"})
    <3>1. CASE \E f \in Fds : link[f] = c
      <4>1. PICK f \in Fds : link[f] = c
        BY <3>1
      <4>2. f \in conns
        BY <4>1, ClientsAssumption DEF CalmInv, SocketInv
      <4>3. out'[f] \in Seq(Message) /\ out'[f] \in Queue /\ toClient[c] \in Queue
        <5>1. out'[f] \in Seq(Message)
          BY DEF Types, TypeOK
        <5> QED BY <5>1, Queues DEF Queue, Commands
      <4>4. ~Has(out'[f], {"EOF"})
        BY <4>3, MessageFields DEF Has
      <4>5. ~Has(toClient[c], {"EOF"})
        BY DEF CalmInv, EofInv
      <4>6. ~Has(toClient[c] \o out'[f], {"EOF"})
        BY <4>3, <4>4, <4>5, CatHas
      <4> QED BY <1>1, <4>1, <4>2, <4>6
    <3>2. CASE ~\E f \in Fds : link[f] = c
      BY <1>1, <3>2 DEF CalmInv, EofInv
    <3> QED BY <3>1, <3>2
  <2> QED BY <2>1, <2>2 DEF EofInv
<1> QED BY <1>3, <1>4, <1>5

-----------------------------------------------------------------------------
(***************************************************************************)
(* What a handler writes, and to whom.                                     *)
(***************************************************************************)
LEMMA MessageCommands == Message \subseteq Commands /\ ToDaemon \subseteq Commands
BY DEF Commands

\* What each of the daemon's ways to write puts into the queue of g
LEMMA TellWrites ==
    ASSUME NEW f \in Fds, NEW g \in Fds, NEW m \in Commands
    PROVE  /\ Tell(f, << m >>)[g] \in Queue
           /\ \A S : Has(Tell(f, << m >>)[g], S) <=> g = f /\ m.cmd \in S
           /\ g # f => Tell(f, << m >>)[g] = << >>
<1>1. Tell(f, << m >>)[g] = IF g = f THEN << m >> ELSE << >>
  BY DEF Tell
<1> QED BY <1>1, OneHas, NoneHas

LEMMA SilenceWrites ==
    ASSUME NEW g \in Fds
    PROVE  Silence[g] = << >> /\ Silence[g] \in Queue /\ \A S : ~Has(Silence[g], S)
BY NoneHas DEF Silence

LEMMA StopWrites ==
    ASSUME NEW f \in Fds, NEW g \in Fds
    PROVE  /\ StopMedia(f, << >>)[g] \in Queue
           /\ \A S : Has(StopMedia(f, << >>)[g], S) <=> g \in {f, peer[f]} /\ "MS" \in S
           /\ g \notin {f, peer[f]} => StopMedia(f, << >>)[g] = << >>
<1> DEFINE a == IF g = peer[f] THEN << Plain("MS") >> ELSE << >>
           b == IF g = f THEN << Plain("MS") >> ELSE << >>
<1>1. Plain("MS") \in Commands /\ Plain("MS").cmd = "MS"
  BY MessageTypes, MessageCommands DEF Plain
<1>2. StopMedia(f, << >>)[g] = a \o b
  <2>1. StopMedia(f, << >>)[g] = (IF g = f THEN << >> ELSE << >>) \o a \o b
    BY DEF StopMedia
  <2>2. a \in Queue /\ b \in Queue
    BY <1>1, OneHas, NoneHas
  <2> HIDE DEF a, b
  <2>3. (IF g = f THEN << >> ELSE << >>) \o a = a
    BY <2>2 DEF Queue
  <2> QED BY <2>1, <2>3
<1>3. /\ a \in Queue /\ \A S : Has(a, S) <=> g = peer[f] /\ "MS" \in S
      /\ b \in Queue /\ \A S : Has(b, S) <=> g = f /\ "MS" \in S
  BY <1>1, OneHas, NoneHas
<1>4. g \notin {f, peer[f]} => a = << >> /\ b = << >>
  OBVIOUS
<1> HIDE DEF a, b
<1>5. a \o b \in Queue /\ \A S : Has(a \o b, S) <=> Has(a, S) \/ Has(b, S)
  BY <1>3, CatAt, CatHas
<1>6. g \notin {f, peer[f]} => a \o b = << >>
  BY <1>4
<1>7. \A S : Has(a \o b, S) <=> g \in {f, peer[f]} /\ "MS" \in S
  BY <1>3, <1>5
<1> QED BY <1>2, <1>5, <1>6, <1>7

\* Who calls and who is called are told to start, each with the other's port
LEMMA CallWrites ==
    ASSUME Types, NEW f \in Fds, NEW u \in Uids, NEW d \in Fds, InitiateCall(f, u, d),
           NEW g \in Fds
    PROVE  /\ out'[g] \in Queue
           /\ Has(out'[g], {"ME"}) <=> g \in {f, d}
           /\ ~Has(out'[g], {"LI", "OK", "MS", "PG", "EOF"})
           /\ g \notin {f, d} => out'[g] = << >>
           /\ ~Holds(out'[g], ER(14))
           /\ \A i \in DOMAIN out'[g] : out'[g][i].cmd = "ME" =>
                /\ out'[g][i].src = port'[g] /\ out'[g][i].dst = port'[peer'[g]]
                /\ LET h == peer'[g]
                   IN  out'[g][i].to = IF addr[f] = addr[d] THEN laddr[h] ELSE addr[h]
           /\ g \in {f, d} => /\ port'[g] \in Ports /\ port'[peer'[g]] \in Ports
                              /\ peer'[g] \in {f, d}
<1> DEFINE near == addr[f] = addr[d]
           toSrc == [cmd |-> "ME", src |-> port'[f],
                     to |-> IF near THEN laddr[d] ELSE addr[d], dst |-> port'[d]]
           toDst == [cmd |-> "ME", src |-> port'[d],
                     to |-> IF near THEN laddr[f] ELSE addr[f], dst |-> port'[f]]
           a == IF g = f THEN << ER(10), toSrc >> ELSE << >>
           b == IF g = d THEN << toDst >> ELSE << >>
<1>1. PICK p \in Ports, q \in Ports :
        /\ port' = [port EXCEPT ![f] = p, ![d] = q]
        /\ out' = [k \in Fds |-> (IF k = f THEN << ER(10), toSrc >> ELSE << >>)
                                 \o (IF k = d THEN << toDst >> ELSE << >>)]
  BY DEF InitiateCall
<1>2. out'[g] = a \o b
  BY <1>1
<1>3. port'[f] \in Ports /\ port'[d] \in Ports
  BY <1>1 DEF Types, TypeOK
<1>4. peer'[f] = d /\ peer'[d] = f
  BY DEF InitiateCall, Types, TypeOK
<1>5. toSrc \in Commands /\ toDst \in Commands /\ ER(10) \in Commands
  <2>1. ASSUME NEW far \in Addrs \union {NoAddr}, NEW x \in Ports, NEW y \in Ports
        PROVE  [cmd |-> "ME", src |-> x, to |-> far, dst |-> y] \in Message
    BY DEF Message
  <2>2. /\ (IF near THEN laddr[d] ELSE addr[d]) \in Addrs \union {NoAddr}
        /\ (IF near THEN laddr[f] ELSE addr[f]) \in Addrs \union {NoAddr}
    BY DEF Types, TypeOK
  <2>3. ER(10) \in Message
    BY MessageTypes DEF ResponseCode
  <2>4. toSrc \in Message /\ toDst \in Message
    BY <1>3, <2>1, <2>2
  <2> QED BY <2>3, <2>4, MessageCommands
<1>6. /\ toSrc.cmd = "ME" /\ toSrc.src = port'[f] /\ toSrc.dst = port'[d]
      /\ toSrc.to = IF near THEN laddr[d] ELSE addr[d]
      /\ toDst.cmd = "ME" /\ toDst.src = port'[d] /\ toDst.dst = port'[f]
      /\ toDst.to = IF near THEN laddr[f] ELSE addr[f]
      /\ ER(10).cmd = "ER" /\ ER(10) # ER(14) /\ ER(14).cmd = "ER"
  BY DEF ER
<1> HIDE DEF toSrc, toDst
<1>7. /\ a \in Queue /\ \A i \in DOMAIN a : a[i] = ER(10) \/ a[i] = toSrc
      /\ g = f => Len(a) = 2 /\ a[2] = toSrc /\ 2 \in DOMAIN a
      /\ g # f => a = << >>
  BY <1>5 DEF Queue
<1>8. /\ b \in Queue /\ \A i \in DOMAIN b : b[i] = toDst
      /\ g = d => 1 \in DOMAIN b /\ b[1] = toDst
      /\ g # d => b = << >>
  BY <1>5 DEF Queue
<1> HIDE DEF a, b
<1>9. a \o b \in Queue /\ \A S : Has(a \o b, S) <=> Has(a, S) \/ Has(b, S)
  BY <1>7, <1>8, CatAt, CatHas
<1>10. \A i \in DOMAIN (a \o b) :
          \/ (a \o b)[i] = ER(10)
          \/ (a \o b)[i] = toSrc /\ g = f
          \/ (a \o b)[i] = toDst /\ g = d
  <2>1. \A i \in DOMAIN a : a[i] = ER(10) \/ (a[i] = toSrc /\ g = f)
    BY <1>7
  <2>2. \A i \in DOMAIN b : b[i] = toDst /\ g = d
    BY <1>8
  <2> TAKE i \in DOMAIN (a \o b)
  <2>3. CASE i \in DOMAIN a
    <3>1. (a \o b)[i] = a[i]
      BY <1>7, <1>8, <2>3, CatAt
    <3> QED BY <2>1, <2>3, <3>1
  <2>4. CASE i \notin DOMAIN a
    <3>1. i - Len(a) \in DOMAIN b /\ (a \o b)[i] = b[i - Len(a)]
      BY <1>7, <1>8, <2>4, CatAt
    <3> QED BY <2>2, <3>1
  <2> QED BY <2>3, <2>4
<1>11. Has(a \o b, {"ME"}) <=> g \in {f, d}
  <2>1. g = f => Has(a, {"ME"})
    BY <1>6, <1>7 DEF Has
  <2>2. g = d => Has(b, {"ME"})
    BY <1>6, <1>8 DEF Has
  <2>3. g \notin {f, d} => ~Has(a, {"ME"}) /\ ~Has(b, {"ME"})
    BY <1>7, <1>8, NoneHas
  <2> QED BY <1>9, <2>1, <2>2, <2>3
<1>12. ~Has(a \o b, {"LI", "OK", "MS", "PG", "EOF"}) /\ ~Holds(a \o b, ER(14))
  BY <1>6, <1>10 DEF Has, Holds
<1>13. g \notin {f, d} => a \o b = << >>
  BY <1>7, <1>8
<1>14. ASSUME NEW i \in DOMAIN (a \o b), (a \o b)[i].cmd = "ME"
       PROVE  LET m == (a \o b)[i]
                  h == peer'[g]
              IN  /\ m.src = port'[g] /\ m.dst = port'[h]
                  /\ m.to = IF near THEN laddr[h] ELSE addr[h]
  <2>1. CASE (a \o b)[i] = toSrc /\ g = f
    BY <1>4, <1>6, <2>1
  <2>2. CASE (a \o b)[i] = toDst /\ g = d
    BY <1>4, <1>6, <2>2
  <2> QED BY <1>6, <1>10, <1>14, <2>1, <2>2
<1> QED BY <1>2, <1>3, <1>4, <1>9, <1>11, <1>12, <1>13, <1>14

\* What reading m from f changes in the daemon
ReadShape(f, m) ==
    /\ StaysOpen /\ walk' = walk
    /\ \A g \in Fds : out'[g] \in Queue
    /\ \A g \in Fds \ {f} :
         /\ uid'[g] = uid[g] /\ auth'[g] = auth[g] /\ laddr'[g] = laddr[g]
         /\ ~Has(out'[g], {"LI", "OK"})
         /\ out'[g] # << >> => uid[g] # NoUid
    /\ m.cmd \notin {"LI", "PW"} =>
         UNCHANGED idVars /\ ~Has(out'[f], {"LI", "OK"})
    /\ m.cmd = "LI" =>
         /\ uid'[f] = m.user /\ auth'[f] = auth[f] /\ laddr'[f] \in Addrs
         /\ out'[f] = << Plain("LI") >>
    /\ m.cmd = "PW" =>
         /\ uid'[f] = uid[f] /\ auth'[f] /\ laddr'[f] = laddr[f] /\ out'[f] = << Plain("OK") >>
    /\ \A g \in Fds : age'[g] = IF m.cmd = "PG" /\ g = f THEN 0 ELSE age[g]
    /\ \A g \in Fds : peer'[g] # NoFd =>
         peer'[g] \in conns /\ g \in conns /\ uid[g] # NoUid /\ uid[peer'[g]] # NoUid

\* Reading a command changes no more than ReadShape says
LEMMA ReadsShape ==
    ASSUME Calm, CalmInv, Types, Types', NEW f \in Fds, DaemonReads(f),
           NEW m, m = Head(toDaemon[f])
    PROVE  ReadShape(f, m)
<1>1. /\ f \in conns /\ m \in ToDaemon /\ Serves(f, m)
      /\ m.cmd = "LI" \/ m.cmd = "PW" \/ auth[f]
  BY CalmServes
<1>2. m \in Commands /\ \A g \in Fds : out'[g] \in Queue
  <2>1. \A g \in Fds : out'[g] \in Seq(Message)
    BY DEF Types, TypeOK
  <2> QED BY <1>1, <2>1, MessageCommands DEF Queue, Commands
<1>3. auth[f] => uid[f] # NoUid
  <2>1. acct[link[f]] \in Uids
    BY <1>1 DEF CalmInv, SocketInv, Types, QueuesOK
  <2> QED BY <1>1, <2>1, UidsAssumption DEF CalmInv, LoginInv, Phase, Greets, Challenged, Answers
<1>4. \A g \in Fds : peer[g] # NoFd =>
         peer[g] \in conns /\ g \in conns /\ uid[g] # NoUid /\ uid[peer[g]] # NoUid
  BY DEF CalmInv, PeerInv
<1> USE DEF ReadShape, StaysOpen
<1>5. CASE m.cmd = "LI" /\ \E a \in Addrs : Login(f, m.user, a)
  <2>1. Plain("LI") \in Commands /\ Plain("LI").cmd = "LI"
    BY MessageTypes, MessageCommands DEF Plain
  <2>2. PICK a \in Addrs : Login(f, m.user, a)
    BY <1>5
  <2>3. /\ uid' = [uid EXCEPT ![f] = m.user] /\ laddr' = [laddr EXCEPT ![f] = a]
        /\ out' = Tell(f, << Plain("LI") >>)
        /\ UNCHANGED << up, sockVars, auth, callVars, timeVars, dbVars >>
    BY <2>2 DEF Login
  <2>4. out'[f] = << Plain("LI") >>
    BY <2>3 DEF Tell
  <2>5. /\ StaysOpen /\ walk' = walk /\ age' = age /\ peer' = peer
    BY <2>3 DEF sockVars, callVars, timeVars
  <2>6. ASSUME NEW g \in Fds \ {f}
        PROVE /\ uid'[g] = uid[g] /\ auth'[g] = auth[g] /\ laddr'[g] = laddr[g]
              /\ out'[g] = << >>
    BY <2>3, <2>1, TellWrites DEF Types, TypeOK
  <2>7. uid'[f] = m.user /\ laddr'[f] \in Addrs
    BY <2>3 DEF Types, TypeOK
  <2> QED BY <1>2, <1>4, <1>5, <2>3, <2>4, <2>5, <2>6, <2>7, NoneHas
<1>6. CASE m.cmd = "PW" /\ Admits(f)
  <2>1. Plain("OK") \in Commands /\ Plain("OK").cmd = "OK"
    BY MessageTypes, MessageCommands DEF Plain
  <2>2. out'[f] = << Plain("OK") >>
    BY <1>6 DEF Admits, Tell
  <2>3. StaysOpen /\ walk' = walk /\ age' = age /\ peer' = peer /\ uid' = uid /\ laddr' = laddr
        /\ auth' = [auth EXCEPT ![f] = TRUE] /\ out' = Tell(f, << Plain("OK") >>)
    BY <1>6 DEF Admits, sockVars, callVars, timeVars
  <2>4. ASSUME NEW g \in Fds \ {f} PROVE auth'[g] = auth[g] /\ out'[g] = << >>
    BY <2>1, <2>3, TellWrites DEF Types, TypeOK
  <2>5. auth'[f]
    BY <2>3 DEF Types, TypeOK
  <2> QED BY <1>2, <1>4, <1>6, <2>2, <2>3, <2>4, <2>5, NoneHas
<1>7. CASE m.cmd = "CA" /\ auth[f] /\ Refuses(f)
  <2>1. PICK code \in {12, 13} : out' = Tell(f, << ER(code) >>)
    BY <1>7 DEF Refuses
  <2>2. ER(code) \in Commands /\ ER(code).cmd = "ER"
    BY MessageTypes, MessageCommands DEF ER, ResponseCode
  <2>3. StaysOpen /\ walk' = walk /\ age' = age /\ peer' = peer /\ UNCHANGED idVars
    BY <1>7 DEF Refuses, sockVars, callVars, timeVars
  <2>4. \A g \in Fds : ~Has(out'[g], {"LI", "OK"}) /\ (g # f => out'[g] = << >>)
    BY <2>1, <2>2, TellWrites
  <2> QED BY <1>2, <1>4, <1>7, <2>3, <2>4 DEF idVars
<1>8. ASSUME m.cmd = "CA", auth[f], NEW d \in Fds, InitiateCall(f, m.user, d) PROVE ReadShape(f, m)
  <2>1. StaysOpen /\ walk' = walk /\ age' = age /\ UNCHANGED idVars
    BY <1>8 DEF InitiateCall, sockVars, timeVars
  <2>2. peer' = [peer EXCEPT ![f] = d, ![d] = f] /\ d \in conns /\ uid[d] = m.user
    BY <1>8 DEF InitiateCall, IsConnectionOf
  <2>3. m.user \in Uids
    BY <1>1, <1>8, CommandFields
  <2>4. \A g \in Fds : peer'[g] = IF g = d THEN f ELSE IF g = f THEN d ELSE peer[g]
    BY <2>2 DEF Types, TypeOK
  <2>5. ASSUME NEW g \in Fds PROVE ~Has(out'[g], {"LI", "OK"}) /\ (g \notin {f, d} => out'[g] = << >>)
    <3>1. ~Has(out'[g], {"LI", "OK", "MS", "PG", "EOF"}) /\ (g \notin {f, d} => out'[g] = << >>)
      BY <1>8, <2>3, CallWrites
    <3> QED BY <3>1 DEF Has
  <2>6. uid[d] # NoUid /\ uid[f] # NoUid
    BY <1>3, <1>8, <2>2, <2>3, UidsAssumption
  <2>7. \A g \in Fds : peer'[g] # NoFd =>
           peer'[g] \in conns /\ g \in conns /\ uid[g] # NoUid /\ uid[peer'[g]] # NoUid
    BY <1>1, <1>4, <2>2, <2>4, <2>6
  <2>8. \A g \in Fds \ {f} : ~Has(out'[g], {"LI", "OK"}) /\ (out'[g] # << >> => uid[g] # NoUid)
    BY <2>5, <2>6
  <2> QED BY <1>2, <1>8, <2>1, <2>5, <2>7, <2>8 DEF idVars
<1>9. CASE m.cmd = "BY" /\ auth[f] /\ EndsCall(f)
  <2>1. StaysOpen /\ walk' = walk /\ age' = age /\ UNCHANGED idVars
    BY <1>9 DEF EndsCall, sockVars, timeVars
  <2>2. \A g \in Fds : peer'[g] # NoFd => peer'[g] = peer[g]
    BY <1>9 DEF EndsCall, HangUp, Cleared
  <2>3. ASSUME NEW g \in Fds
        PROVE  ~Has(out'[g], {"LI", "OK"}) /\ (g \notin {f, peer[f]} => out'[g] = << >>)
    <3>1. out' = StopMedia(f, << >>)
      BY <1>9 DEF EndsCall, HangUp
    <3>2. Has(StopMedia(f, << >>)[g], {"LI", "OK"}) <=> g \in {f, peer[f]} /\ "MS" \in {"LI", "OK"}
      BY StopWrites
    <3> QED BY <3>1, <3>2, StopWrites
  <2>4. ASSUME NEW g \in Fds \ {f}, g = peer[f] PROVE uid[g] # NoUid
    <3>1. peer[f] # NoFd
      BY <2>4, FdsAssumption DEF NoFd
    <3> QED BY <1>4, <2>4, <3>1
  <2> QED BY <1>2, <1>4, <1>9, <2>1, <2>2, <2>3, <2>4 DEF idVars
<1>10. CASE m.cmd = "ER" /\ auth[f] /\ Forwards(f, m)
  <2>1. StaysOpen /\ walk' = walk /\ age' = age /\ peer' = peer /\ UNCHANGED idVars
    BY <1>10 DEF Forwards, sockVars, callVars, timeVars
  <2>2. ASSUME NEW g \in Fds
        PROVE  ~Has(out'[g], {"LI", "OK"}) /\ (out'[g] # << >> => uid[g] # NoUid)
    <3>1. CASE peer[f] = NoFd
      <4>1. out' = Silence
        BY <1>10, <3>1 DEF Forwards
      <4> QED BY <4>1, SilenceWrites
    <3>2. CASE peer[f] # NoFd
      <4>1. peer[f] \in Fds /\ out' = Tell(peer[f], << m >>) /\ uid[peer[f]] # NoUid
        BY <1>10, <1>4, <3>2 DEF Forwards, Types, TypeOK
      <4>2. Has(Tell(peer[f], << m >>)[g], {"LI", "OK"}) <=> g = peer[f] /\ m.cmd \in {"LI", "OK"}
        BY <1>2, <4>1, TellWrites
      <4> QED BY <1>2, <1>10, <4>1, <4>2, TellWrites
    <3> QED BY <3>1, <3>2
  <2> QED BY <1>2, <1>4, <1>10, <2>1, <2>2 DEF idVars
<1>11. CASE m.cmd = "PG" /\ auth[f] /\ UpdatePing(f)
  <2>1. StaysOpen /\ walk' = walk /\ peer' = peer /\ UNCHANGED idVars /\ out' = Silence
        /\ age' = [age EXCEPT ![f] = 0]
    BY <1>1, <1>11 DEF UpdatePing, callVars, timeVars, Refreshed
  <2>2. \A g \in Fds : age'[g] = IF g = f THEN 0 ELSE age[g]
    BY <2>1 DEF Types, TypeOK
  <2>3. \A g \in Fds : out'[g] = << >> /\ ~Has(out'[g], {"LI", "OK"})
    BY <2>1, SilenceWrites
  <2> QED BY <1>2, <1>4, <1>11, <2>1, <2>2, <2>3 DEF idVars
<1> QED BY <1>1, <1>5, <1>6, <1>7, <1>8, <1>9, <1>10, <1>11 DEF Serves

-----------------------------------------------------------------------------
(***************************************************************************)
(* The login goes on.                                                      *)
(***************************************************************************)
LEMMA QueuesNext ==
    ASSUME Types'
    PROVE  /\ \A f \in Fds : toDaemon'[f] \in Seq(ToDaemon) /\ toDaemon'[f] \in Queue
           /\ \A c \in Clients : toClient'[c] \in Seq(Message \union {Eof}) /\ toClient'[c] \in Queue
           /\ \A f \in Fds : out'[f] \in Seq(Message) /\ out'[f] \in Queue
BY DEF Types, TypeOK, QueuesOK, ClientTypes, SocketTypes, Queue, Commands

\* A write leaves the head of a queue that is not empty
LEMMA CatHead ==
    ASSUME NEW q \in Queue, NEW s \in Queue, q # << >>
    PROVE  q \o s # << >> /\ Head(q \o s) = Head(q)
<1>1. Len(q) \in Nat \ {0} /\ Head(q) = q[1] /\ 1 \in DOMAIN q
  BY TailAt
<1>2. q \o s \in Queue /\ Len(q \o s) > 0 /\ (q \o s)[1] = q[1]
  <2>1. q \o s \in Queue /\ Len(q \o s) = Len(q) + Len(s) /\ Len(s) \in Nat
    BY CatAt
  <2>2. (q \o s)[1] = q[1]
    BY <1>1, CatAt DEF Queue
  <2>3. Len(q) + Len(s) > 0
    BY <1>1, <2>1
  <2> QED BY <2>1, <2>2, <2>3
<1>3. q \o s # << >>
  BY <1>2 DEF Queue
<1>4. Head(q \o s) = (q \o s)[1]
  BY <1>2, <1>3, TailAt
<1> QED BY <1>1, <1>2, <1>3, <1>4

\* What neither takes a login further nor begins one leaves it where it is
LEMMA SameLogin ==
    ASSUME Types, Types', NEW g \in Fds, NEW c \in Clients, link[g] = c, link'[g] = c,
           SameOf(toDaemon[g], toDaemon'[g], {"LI", "PW"}),
           SameOf(toClient[c], toClient'[c], {"LI", "OK"}),
           reauth'[c] = reauth[c], issued'[g] = issued[g], seen'[c] = seen[c],
           acct'[c] = acct[c], Tokens(g), Numbers(g)
    PROVE  Tokens(g)' /\ Numbers(g)'
<1>1. /\ toDaemon[g] \in Queue /\ toDaemon'[g] \in Queue
      /\ toClient[c] \in Queue /\ toClient'[c] \in Queue
  BY Queues, QueuesNext
<1>2. Has(toDaemon'[g], {"LI", "PW"}) <=> Has(toDaemon[g], {"LI", "PW"})
  BY <1>1, SameHas
<1>3. /\ Has(toClient'[c], {"LI", "OK"}) <=> Has(toClient[c], {"LI", "OK"})
      /\ Has(toClient'[c], {"LI"}) <=> Has(toClient[c], {"LI"})
  BY <1>1, SameHas
<1>4. Tokens(g)'
  BY <1>2, <1>3 DEF Tokens, SameOf
<1>5. \A n \in Nat : PW(n) \in Commands /\ PW(n).cmd = "PW"
  BY CommandTypes, MessageCommands DEF PW
<1>6. \A u \in Uids : LI(u) \in Commands /\ LI(u).cmd = "LI"
  BY CommandTypes, MessageCommands DEF LI
<1>7. Numbers(g)'
  BY <1>3, <1>5, <1>6 DEF Numbers, SameOf
<1> QED BY <1>4, <1>7

\* The login of g is where it was after a step of the daemon that has no part in it
LEMMA DaemonLogin ==
    ASSUME CalmInv, Types, Types', NEW reads \in SUBSET conns, StaysOpen, Relay(reads),
           UNCHANGED clientVars, NEW g \in conns,
           uid'[g] = uid[g], auth'[g] = auth[g], issued'[g] = issued[g],
           ~Has(out'[g], {"LI", "OK"}), out'[g] # << >> => uid[g] # NoUid,
           g \in reads => /\ auth[g] /\ toDaemon[g] # << >>
                          /\ Head(toDaemon[g]).cmd \notin {"LI", "PW"}
    PROVE  Tokens(g)' /\ Numbers(g)' /\ Phase(g)'
<1> DEFINE c == link[g]
<1>1. g \in Fds /\ c \in Clients /\ link'[g] = c
  BY CalmRelay DEF CalmInv, SocketInv, Types, TypeOK
<1>2. /\ toClient'[c] = toClient[c] \o out'[g]
      /\ toDaemon'[g] = IF g \in reads THEN Tail(toDaemon[g]) ELSE toDaemon[g]
  BY <1>1, CalmRelay
<1>3. toDaemon[g] \in Queue /\ toClient[c] \in Queue /\ out'[g] \in Queue
  BY <1>1, Queues, QueuesNext
<1>4. Tokens(g) /\ Numbers(g) /\ Phase(g)
  BY DEF CalmInv, LoginInv
<1>5. SameOf(toDaemon[g], toDaemon'[g], {"LI", "PW"})
  BY <1>2, <1>3, SelfSame, TailSame
<1>6. SameOf(toClient[c], toClient'[c], {"LI", "OK"})
  BY <1>2, <1>3, CatSame
<1>7. Tokens(g)' /\ Numbers(g)'
  BY <1>1, <1>4, <1>5, <1>6, SameLogin DEF clientVars
<1>8. Phase(g)'
  <2>1. CASE Greets(g)
    <3>1. out'[g] = << >> /\ g \notin reads
      BY <2>1 DEF Greets
    <3>2. toClient'[c] = << >> /\ toDaemon'[g] = toDaemon[g]
      BY <1>2, <2>1, <3>1 DEF Greets
    <3> QED BY <1>1, <2>1, <3>2 DEF Phase, Greets, clientVars
  <2>2. CASE Challenged(g)
    <3>1. toDaemon'[g] = toDaemon[g] /\ toClient[c] # << >>
      BY <1>2, <2>2 DEF Challenged
    <3>2. toClient'[c] # << >> /\ Head(toClient'[c]) = Head(toClient[c])
      BY <1>2, <1>3, <3>1, CatHead
    <3> QED BY <1>1, <2>2, <3>1, <3>2 DEF Phase, Challenged, clientVars
  <2>3. CASE Answers(g)
    <3>1. toDaemon'[g] = toDaemon[g]
      BY <1>2, <2>3 DEF Answers
    <3> QED BY <1>1, <2>3, <3>1 DEF Phase, Answers, clientVars
  <2>4. CASE uid[g] = acct[c] /\ auth[g]
    BY <1>1, <2>4 DEF Phase, clientVars
  <2> QED BY <1>4, <2>1, <2>2, <2>3, <2>4 DEF Phase
<1> QED BY <1>7, <1>8

\* LI is answered with a challenge
LEMMA GreetLogin ==
    ASSUME Calm, CalmInv, Types, Types', NEW f \in Fds, DaemonReads(f),
           Head(toDaemon[f]).cmd = "LI"
    PROVE  Tokens(f)' /\ Numbers(f)' /\ Phase(f)' /\ uid'[f] # NoUid
<1> DEFINE m == Head(toDaemon[f])
           c == link[f]
           d == toDaemon[f]
           q == toClient[c]
<1>1. /\ f \in conns /\ m \in ToDaemon /\ d # << >> /\ Holds(d, m) /\ c \in Clients
  BY CalmServes DEF CalmInv, SocketInv
<1>2. ReadShape(f, m) /\ Relay({f}) /\ UNCHANGED clientVars
      /\ issued' = [issued EXCEPT ![f] = @ + 1]
  BY ReadsShape DEF DaemonReads
<1>3. link'[f] = c /\ toDaemon'[f] = Tail(d) /\ toClient'[c] = q \o << Plain("LI") >>
  <2>1. {f} \in SUBSET conns
    BY <1>1
  <2>2. StaysOpen /\ out'[f] = << Plain("LI") >>
    BY <1>2 DEF ReadShape
  <2> QED BY <1>1, <1>2, <2>1, <2>2, CalmRelay
<1>4. Tokens(f) /\ Numbers(f) /\ Phase(f)
  BY <1>1 DEF CalmInv, LoginInv
<1>5. m = LI(m.user) /\ m.user \in Uids /\ m.user = acct[c]
  BY <1>1, <1>4, CommandFields DEF Numbers
<1>6. d \in Queue /\ q \in Queue /\ Tail(d) \in Queue
  BY <1>1, Queues, TailAt
<1>7. uid'[f] = acct[c] /\ auth'[f] = auth[f] /\ acct'[c] = acct[c]
  BY <1>2, <1>5 DEF ReadShape, clientVars
<1>8. Has(d, {"LI", "PW"}) /\ ~Has(Tail(d), {"LI", "PW"}) /\ Once(Tail(d), {"LI", "PW"})
  BY <1>1, <1>4, <1>6, TailHas, TailOnce DEF Tokens
<1>9. ~Has(q, {"LI", "OK"}) /\ ~reauth[c]
  BY <1>4, <1>8 DEF Tokens
<1>10. Plain("LI") \in Commands /\ Plain("LI").cmd = "LI"
  BY MessageTypes, MessageCommands DEF Plain
<1> DEFINE r == q \o << Plain("LI") >>
<1>11. Once(r, {"LI", "OK"}) /\ Has(r, {"LI"})
  <2>1. << Plain("LI") >> \in Queue /\ Has(<< Plain("LI") >>, {"LI"})
    BY <1>10, OneHas
  <2> QED BY <1>6, <1>9, <1>10, <2>1, CatOnce, CatHas
<1>12. Tokens(f)'
  BY <1>2, <1>3, <1>8, <1>9, <1>11 DEF Tokens, clientVars
<1>13. Numbers(f)'
  <2>1. issued'[f] = issued[f] + 1
    BY <1>2 DEF Types, ClientTypes, SocketTypes
  <2>2. issued[f] = seen[c]
    <3>1. ~Has(q, {"LI"})
      BY <1>9 DEF Has
    <3> QED BY <1>4, <3>1 DEF Numbers
  <2>3. \A k : Holds(Tail(d), k) => k.cmd \notin {"LI", "PW"}
    BY <1>8 DEF Has, Holds
  <2>4. (\A n \in Nat : PW(n).cmd = "PW") /\ (\A u \in Uids : LI(u).cmd = "LI")
    BY DEF PW, LI
  <2> QED BY <1>2, <1>3, <1>11, <2>1, <2>2, <2>3, <2>4 DEF Numbers, clientVars
<1>14. Phase(f)'
  <2>1. CASE Greets(f)
    <3>1. Tail(d) = << >> /\ r = << Plain("LI") >>
      BY <1>10, <2>1 DEF Greets
    <3>2. r # << >> /\ Head(r) = Plain("LI")
      BY <3>1
    <3> QED BY <1>2, <1>3, <1>7, <1>10, <2>1, <3>1, <3>2 DEF Phase, Challenged, Greets, clientVars
  <2>2. CASE auth[f]
    BY <1>3, <1>7, <2>2 DEF Phase
  <2>3. ~Challenged(f) /\ ~Answers(f)
    BY <1>1 DEF Challenged, Answers
  <2> QED BY <1>4, <2>1, <2>2, <2>3 DEF Phase
<1> QED BY <1>5, <1>7, <1>12, <1>13, <1>14, UidsAssumption

\* The right PW is answered with OK
LEMMA AnswerLogin ==
    ASSUME Calm, CalmInv, Types, Types', NEW f \in Fds, DaemonReads(f),
           Head(toDaemon[f]).cmd = "PW"
    PROVE  Tokens(f)' /\ Numbers(f)' /\ Phase(f)'
<1> DEFINE m == Head(toDaemon[f])
           c == link[f]
           d == toDaemon[f]
           q == toClient[c]
<1>1. /\ f \in conns /\ m \in ToDaemon /\ d # << >> /\ Holds(d, m) /\ c \in Clients
  BY CalmServes DEF CalmInv, SocketInv
<1>2. ReadShape(f, m) /\ Relay({f}) /\ UNCHANGED clientVars /\ issued' = issued
  BY ReadsShape DEF DaemonReads
<1>3. link'[f] = c /\ toDaemon'[f] = Tail(d) /\ toClient'[c] = q \o << Plain("OK") >>
  <2>1. {f} \in SUBSET conns
    BY <1>1
  <2>2. StaysOpen /\ out'[f] = << Plain("OK") >>
    BY <1>2 DEF ReadShape
  <2> QED BY <1>1, <1>2, <2>1, <2>2, CalmRelay
<1>4. Tokens(f) /\ Numbers(f) /\ Phase(f)
  BY <1>1 DEF CalmInv, LoginInv
<1>5. uid'[f] = uid[f] /\ auth'[f] /\ acct'[c] = acct[c]
  BY <1>2 DEF ReadShape, clientVars
<1>6. d \in Queue /\ q \in Queue /\ Tail(d) \in Queue
  BY <1>1, Queues, TailAt
<1>7. uid[f] = acct[c]
  <2>1. ~Greets(f)
    BY DEF Greets, LI
  <2> QED BY <1>4, <2>1 DEF Phase, Challenged, Answers
<1>8. Has(d, {"LI", "PW"}) /\ ~Has(Tail(d), {"LI", "PW"}) /\ Once(Tail(d), {"LI", "PW"})
  BY <1>1, <1>4, <1>6, TailHas, TailOnce DEF Tokens
<1>9. ~Has(q, {"LI", "OK"}) /\ ~reauth[c]
  BY <1>4, <1>8 DEF Tokens
<1>10. Plain("OK") \in Commands /\ Plain("OK").cmd = "OK"
  BY MessageTypes, MessageCommands DEF Plain
<1> DEFINE r == q \o << Plain("OK") >>
<1>11. Once(r, {"LI", "OK"}) /\ ~Has(r, {"LI"})
  <2>1. << Plain("OK") >> \in Queue /\ ~Has(<< Plain("OK") >>, {"LI"})
    BY <1>10, OneHas
  <2>2. ~Has(q, {"LI"})
    BY <1>9 DEF Has
  <2> QED BY <1>6, <1>9, <1>10, <2>1, <2>2, CatOnce, CatHas
<1>12. Tokens(f)'
  BY <1>2, <1>3, <1>8, <1>9, <1>11 DEF Tokens, clientVars
<1>13. Numbers(f)'
  <2>1. issued[f] = seen[c]
    <3>1. ~Has(q, {"LI"})
      BY <1>9 DEF Has
    <3> QED BY <1>4, <3>1 DEF Numbers
  <2>2. \A k : Holds(Tail(d), k) => k.cmd \notin {"LI", "PW"}
    BY <1>8 DEF Has, Holds
  <2>3. (\A n \in Nat : PW(n).cmd = "PW") /\ (\A u \in Uids : LI(u).cmd = "LI")
    BY DEF PW, LI
  <2> QED BY <1>2, <1>3, <1>11, <2>1, <2>2, <2>3 DEF Numbers, clientVars
<1>14. Phase(f)'
  BY <1>3, <1>5, <1>7 DEF Phase
<1> QED BY <1>12, <1>13, <1>14

-----------------------------------------------------------------------------
(***************************************************************************)
(* The daemon's steps.                                                     *)
(***************************************************************************)
LEMMA ReadsPing ==
    ASSUME Calm, CalmInv, Types, Types', NEW f \in Fds, DaemonReads(f)
    PROVE  PingInv'
<1> DEFINE m == Head(toDaemon[f])
<1>1. /\ f \in conns /\ m \in ToDaemon /\ toDaemon[f] # << >> /\ walk = {}
      /\ conns \subseteq Fds /\ \A g \in conns : link[g] \in Clients
  BY CalmServes DEF CalmInv, SocketInv, Command, Idle, Types, TypeOK
<1>2. ReadShape(f, m) /\ Relay({f})
  BY ReadsShape DEF DaemonReads
<1>3. StaysOpen /\ {f} \in SUBSET conns
  BY <1>1, <1>2 DEF ReadShape
<1>4. /\ link' = link
      /\ \A g \in conns : toClient'[link[g]] = toClient[link[g]] \o out'[g]
      /\ \A g \in Fds : toDaemon'[g] = IF g = f THEN Tail(toDaemon[g]) ELSE toDaemon[g]
  BY <1>2, <1>3, CalmRelay
<1>5. ASSUME NEW g \in conns
      PROVE  age'[g] = 0 \/ Has(toDaemon'[g], {"PG"}) \/ Has(toClient'[link'[g]], {"PG"})
  <2>1. g \in Fds /\ toDaemon[g] \in Queue /\ toClient[link[g]] \in Queue /\ out'[g] \in Queue
    BY <1>1, Queues, QueuesNext
  <2>2. age[g] = 0 \/ Has(toDaemon[g], {"PG"}) \/ Has(toClient[link[g]], {"PG"})
    BY DEF CalmInv, PingInv
  <2>3. Has(toClient[link[g]], {"PG"}) => Has(toClient'[link'[g]], {"PG"})
    <3>1. toClient'[link'[g]] = toClient[link[g]] \o out'[g]
      BY <1>4
    <3> QED BY <2>1, <3>1, CatHas
  <2>4. CASE g = f /\ m.cmd = "PG"
    BY <1>2, <2>1, <2>4 DEF ReadShape
  <2>5. CASE ~(g = f /\ m.cmd = "PG")
    <3>1. age'[g] = age[g]
      BY <1>2, <2>1, <2>5 DEF ReadShape
    <3>2. Has(toDaemon[g], {"PG"}) => Has(toDaemon'[g], {"PG"})
      BY <1>1, <1>4, <2>1, <2>5, TailHas
    <3> QED BY <2>2, <2>3, <3>1, <3>2
  <2> QED BY <2>4, <2>5
<1>6. walk' = {} /\ conns' = conns
  BY <1>1, <1>2 DEF ReadShape, StaysOpen
<1> QED BY <1>5, <1>6 DEF PingInv

\* The daemon reads a command
LEMMA ReadsCalm ==
    ASSUME Calm, CalmInv, Types, Types', NEW f \in Fds, DaemonReads(f)
    PROVE  CalmInv'
<1> DEFINE m == Head(toDaemon[f])
<1>1. /\ f \in conns /\ m \in ToDaemon /\ toDaemon[f] # << >>
      /\ m.cmd = "LI" \/ m.cmd = "PW" \/ auth[f]
      /\ conns \subseteq Fds /\ \A g \in conns : link[g] \in Clients
  BY CalmServes DEF CalmInv, SocketInv, Types, TypeOK
<1>2. ReadShape(f, m) /\ Relay({f}) /\ UNCHANGED << clientVars, left >>
      /\ issued' = IF m.cmd = "LI" THEN [issued EXCEPT ![f] = @ + 1] ELSE issued
  BY ReadsShape DEF DaemonReads
<1>3. StaysOpen /\ {f} \in SUBSET conns /\ conns' = conns
  BY <1>1, <1>2 DEF ReadShape, StaysOpen
<1>4. SpentInv'
  BY <1>2 DEF CalmInv, SpentInv
<1>5. SocketInv' /\ ClientInv' /\ EofInv'
  BY <1>1, <1>2, <1>3, DaemonSockets
<1>6. ASSUME NEW g \in conns PROVE Tokens(g)' /\ Numbers(g)' /\ Phase(g)'
  <2>1. CASE g = f /\ m.cmd = "LI"
    BY <2>1, GreetLogin
  <2>2. CASE g = f /\ m.cmd = "PW"
    BY <2>2, AnswerLogin
  <2>3. CASE ~(g = f /\ m.cmd \in {"LI", "PW"})
    <3>1. uid'[g] = uid[g] /\ auth'[g] = auth[g] /\ ~Has(out'[g], {"LI", "OK"})
      BY <1>1, <1>2, <2>3 DEF ReadShape, idVars
    <3>2. issued'[g] = issued[g]
      BY <1>1, <1>2, <2>3 DEF Types, ClientTypes, SocketTypes
    <3>3. g = f => uid[g] # NoUid
      <4>1. acct[link[f]] \in Uids
        BY <1>1 DEF Types, QueuesOK
      <4> QED BY <1>1, <2>3, <4>1, UidsAssumption
              DEF CalmInv, LoginInv, Phase, Greets, Challenged, Answers
    <3>4. out'[g] # << >> => uid[g] # NoUid
      BY <1>1, <1>2, <3>3 DEF ReadShape
    <3>5. g \in {f} => /\ auth[g] /\ toDaemon[g] # << >>
                       /\ Head(toDaemon[g]).cmd \notin {"LI", "PW"}
      BY <1>1, <2>3
    <3> QED BY <1>2, <1>3, <3>1, <3>2, <3>4, <3>5, DaemonLogin
  <2> QED BY <2>1, <2>2, <2>3
<1>7. ASSUME NEW g \in conns, uid'[g] # NoUid PROVE laddr'[g] \in Addrs
  <2>1. CASE g = f /\ m.cmd = "LI"
    BY <1>2, <2>1 DEF ReadShape
  <2>2. CASE ~(g = f /\ m.cmd = "LI")
    <3>1. uid'[g] = uid[g] /\ laddr'[g] = laddr[g]
      BY <1>1, <1>2, <2>2 DEF ReadShape, idVars
    <3> QED BY <1>7, <3>1 DEF CalmInv, LoginInv
  <2> QED BY <2>1, <2>2
<1>8. LoginInv'
  BY <1>3, <1>6, <1>7 DEF LoginInv
<1>9. PeerInv'
  <2>1. ASSUME NEW g \in conns, uid[g] # NoUid PROVE uid'[g] # NoUid
    <3>1. CASE g = f /\ m.cmd = "LI"
      BY <3>1, GreetLogin
    <3>2. CASE ~(g = f /\ m.cmd = "LI")
      <4>1. uid'[g] = uid[g]
        BY <1>1, <1>2, <3>2 DEF ReadShape, idVars
      <4> QED BY <2>1, <4>1
    <3> QED BY <3>1, <3>2
  <2> QED BY <1>2, <1>3, <2>1 DEF ReadShape, PeerInv
<1>10. PingInv'
  BY ReadsPing
<1> QED BY <1>4, <1>5, <1>8, <1>9, <1>10 DEF CalmInv

\* The ping timer fires when nothing is on its way, so nobody owes an answer
LEMMA PingsCalm ==
    ASSUME Calm, CalmInv, Types, Types', DaemonPings
    PROVE  CalmInv' /\ StaysOpen /\ UNCHANGED << callVars, dbVars, idVars, clientVars, left >>
           /\ Relay({}) /\ \A f \in Fds : out'[f] = << >>
<1>1. left["sweep"] = 0
  BY DEF CalmInv, SpentInv
<1>2. Quiet /\ PingTimerData /\ Pinging /\ Relay({}) /\ UNCHANGED << clientVars, issued, left >>
  BY <1>1 DEF DaemonPings, Spend
<1>3. /\ walk' = conns /\ out' = Silence
      /\ StaysOpen /\ UNCHANGED << idVars, callVars, age, dbVars >>
  BY <1>2 DEF PingTimerData, StaysOpen, sockVars, idVars, callVars, dbVars
<1>4. conns \subseteq Fds /\ (\A g \in conns : link[g] \in Clients) /\ conns' = conns
  BY <1>3 DEF CalmInv, SocketInv, Types, TypeOK, StaysOpen
<1>5. \A g \in Fds : out'[g] = << >> /\ ~Has(out'[g], {"LI", "OK"})
  BY <1>3, SilenceWrites
<1>6. SocketInv' /\ ClientInv' /\ EofInv'
  BY <1>2, <1>3, DaemonSockets
<1>7. SpentInv' /\ PeerInv'
  BY <1>2, <1>3, <1>4 DEF CalmInv, SpentInv, PeerInv, callVars, idVars
<1>8. LoginInv'
  <2>1. ASSUME NEW g \in conns PROVE Tokens(g)' /\ Numbers(g)' /\ Phase(g)'
    <3>1. /\ uid'[g] = uid[g] /\ auth'[g] = auth[g] /\ issued'[g] = issued[g] /\ g \notin {}
          /\ ~Has(out'[g], {"LI", "OK"}) /\ out'[g] = << >> /\ {} \in SUBSET conns
      BY <1>2, <1>3, <1>4, <1>5 DEF idVars
    <3> QED BY <1>2, <1>3, <3>1, DaemonLogin
  <2> QED BY <1>3, <1>4, <2>1 DEF LoginInv, CalmInv, idVars
<1>9. PingInv'
  <2>1. ASSUME NEW g \in conns PROVE auth[g] /\ age[g] = 0
    <3>1. toDaemon[g] = << >> /\ toClient[link[g]] = << >>
      BY <1>2, <1>4 DEF Quiet
    <3>2. auth[g]
      BY <3>1 DEF CalmInv, LoginInv, Phase, Greets, Challenged, Answers
    <3>3. age[g] = 0
      BY <3>1, NoneHas DEF CalmInv, PingInv
    <3> QED BY <3>2, <3>3
  <2> QED BY <1>2, <1>3, <1>4, <2>1 DEF PingInv, idVars
<1> QED BY <1>2, <1>3, <1>5, <1>6, <1>7, <1>8, <1>9 DEF CalmInv

\* Nobody is found dead: each connection is pinged
LEMMA VisitsCalm ==
    ASSUME Calm, CalmInv, Types, Types', NEW f \in Fds, DaemonVisits(f)
    PROVE  CalmInv' /\ StaysOpen /\ UNCHANGED << callVars, dbVars, idVars, clientVars, left >>
           /\ Relay({}) /\ out' = Tell(f, << Plain("PG") >>)
<1>1. f \in walk /\ f \in conns /\ auth[f] /\ age[f] = 0 /\ PingLimit > 0
  BY DEF DaemonVisits, PingVisit, CalmInv, PingInv, Calm
<1>2. /\ age' = [age EXCEPT ![f] = @ + 1] /\ walk' = walk \ {f}
      /\ out' = Tell(f, << Plain("PG") >>)
      /\ UNCHANGED << up, conns, sock, addr, zombie, idVars, callVars, reap, dbVars >>
      /\ Relay({}) /\ UNCHANGED << clientVars, issued, left >>
  <2>1. PingVisit(f) /\ ~(age[f] >= PingLimit)
    BY <1>1, LimitsAssumption DEF DaemonVisits
  <2> QED BY <2>1 DEF DaemonVisits, PingVisit
<1>3. StaysOpen
  BY <1>2 DEF StaysOpen
<1>4. conns \subseteq Fds /\ (\A g \in conns : link[g] \in Clients) /\ conns' = conns
  BY <1>2 DEF CalmInv, SocketInv, Types, TypeOK
<1>5. Plain("PG") \in Commands /\ Plain("PG").cmd = "PG"
  BY MessageTypes, MessageCommands DEF Plain
<1>6. ASSUME NEW g \in Fds
      PROVE  /\ out'[g] \in Queue /\ ~Has(out'[g], {"LI", "OK"})
             /\ g # f => out'[g] = << >>
             /\ Has(out'[f], {"PG"})
  <2>1. Has(out'[g], {"LI", "OK"}) <=> g = f /\ "PG" \in {"LI", "OK"}
    BY <1>2, <1>5, TellWrites
  <2>2. Has(out'[f], {"PG"})
    BY <1>2, <1>5, TellWrites
  <2> QED BY <1>2, <1>5, <2>1, <2>2, TellWrites
<1>7. SocketInv' /\ ClientInv' /\ EofInv'
  BY <1>2, <1>3, DaemonSockets
<1>8. SpentInv' /\ PeerInv'
  BY <1>2, <1>4 DEF CalmInv, SpentInv, PeerInv, callVars, idVars
<1>9. LoginInv'
  <2>1. uid[f] # NoUid
    <3>1. acct[link[f]] \in Uids
      BY <1>1, <1>4 DEF Types, QueuesOK
    <3> QED BY <1>1, <3>1, UidsAssumption DEF CalmInv, LoginInv, Phase, Greets, Challenged, Answers
  <2>2. ASSUME NEW g \in conns PROVE Tokens(g)' /\ Numbers(g)' /\ Phase(g)'
    <3>1. /\ uid'[g] = uid[g] /\ auth'[g] = auth[g] /\ issued'[g] = issued[g] /\ g \notin {}
          /\ ~Has(out'[g], {"LI", "OK"}) /\ {} \in SUBSET conns
      BY <1>2, <1>4, <1>6 DEF idVars
    <3>2. out'[g] # << >> => uid[g] # NoUid
      BY <1>4, <1>6, <2>1
    <3> QED BY <1>2, <1>3, <3>1, <3>2, DaemonLogin
  <2> QED BY <1>2, <1>4, <2>2 DEF LoginInv, CalmInv, idVars
<1>10. PingInv'
  <2>1. /\ link' = link
        /\ \A g \in conns : toClient'[link[g]] = toClient[link[g]] \o out'[g]
        /\ \A g \in Fds : toDaemon'[g] = toDaemon[g]
    <3>1. {} \in SUBSET conns
      OBVIOUS
    <3> QED BY <1>2, <1>3, <3>1, CalmRelay
  <2>2. ASSUME NEW g \in conns
        PROVE  age'[g] = 0 \/ Has(toDaemon'[g], {"PG"}) \/ Has(toClient'[link'[g]], {"PG"})
    <3>1. g \in Fds /\ toClient[link[g]] \in Queue /\ out'[g] \in Queue
      BY <1>4, <1>6, Queues
    <3>2. Has(toClient'[link'[g]], {"PG"}) <=> Has(toClient[link[g]], {"PG"}) \/ Has(out'[g], {"PG"})
      <4>1. toClient'[link'[g]] = toClient[link[g]] \o out'[g]
        BY <2>1
      <4> QED BY <3>1, <4>1, CatHas
    <3>3. g # f => age'[g] = age[g]
      BY <1>2, <3>1 DEF Types, TypeOK
    <3> QED BY <1>6, <2>1, <3>1, <3>2, <3>3 DEF CalmInv, PingInv
  <2>3. ASSUME NEW g \in walk' PROVE g \in conns' /\ auth'[g] /\ age'[g] = 0
    <3>1. g \in walk /\ g # f /\ g \in Fds
      BY <1>2, <2>3 DEF Types, TypeOK
    <3> QED BY <1>2, <1>4, <3>1 DEF CalmInv, PingInv, idVars, Types, TypeOK
  <2>4. ~Pinging => walk' = {}
    BY <1>2 DEF CalmInv, PingInv
  <2> QED BY <1>4, <2>2, <2>3, <2>4 DEF PingInv
<1> QED BY <1>2, <1>3, <1>7, <1>8, <1>9, <1>10 DEF CalmInv

\* The daemon's steps: of the others, none can happen
LEMMA DaemonCalm ==
    ASSUME Calm, CalmInv, Types, Types', Daemon
    PROVE  /\ CalmInv'
           /\ \E f \in Fds : \/ DaemonReads(f) \/ DaemonVisits(f) \/ DaemonPings
<1>1. left["shutdown"] = 0 /\ up /\ ~reap
  BY DEF CalmInv, SpentInv, SocketInv
<1>2. ~DaemonReaps /\ ~DaemonDies /\ ~DaemonRestarts
  <2>1. ~DaemonReaps
    BY <1>1 DEF DaemonReaps, ZombieData
  <2>2. ~DaemonDies
    BY <1>1 DEF DaemonDies, Spend
  <2>3. ~DaemonRestarts
    BY <1>1 DEF DaemonRestarts, Restart
  <2> QED BY <2>1, <2>2, <2>3
<1>3. CASE DaemonPings
  <2>1. conns # {} /\ conns \subseteq Fds
    BY <1>3 DEF DaemonPings, PingTimerData, Types, TypeOK
  <2> QED BY <1>3, <2>1, PingsCalm
<1>4. CASE \E f \in Fds : DaemonReads(f) \/ DaemonVisits(f)
  BY <1>4, ReadsCalm, VisitsCalm
<1> QED BY <1>2, <1>3, <1>4 DEF Daemon

-----------------------------------------------------------------------------
(***************************************************************************)
(* The clients' steps.                                                     *)
(***************************************************************************)
\* The client at f's other end writes msgs, and has q to read then
Acts(f, msgs, q) ==
    /\ msgs \in Seq(ToDaemon) /\ msgs \in Queue
    /\ UNCHANGED << vars, link, issued, once, acct, tcp, retry >>
    /\ toDaemon' = [toDaemon EXCEPT ![f] = @ \o msgs]
    /\ toClient' = [toClient EXCEPT ![link[f]] = q]
    /\ \A d \in Clients \ {link[f]} :
         seen'[d] = seen[d] /\ reauth'[d] = reauth[d] /\ button'[d] = button[d] /\ media'[d] = media[d]
    /\ SpentInv'

\* What it does to the login
TakesChallenge(f, msgs) ==
    LET c == link[f]
    IN  /\ msgs = << PW(seen[c] + 1) >> /\ seen'[c] = seen[c] + 1
        /\ reauth'[c] = reauth[c] /\ button'[c] = button[c] /\ media'[c] = media[c]
TakesOk(f, msgs) ==
    LET c == link[f]
    IN  msgs = << >> /\ seen'[c] = seen[c] /\ reauth'[c] /\ media'[c] = media[c]
Otherwise(f, msgs) ==
    LET c == link[f]
    IN  ~Has(msgs, {"LI", "PW", "EOF"}) /\ seen'[c] = seen[c] /\ reauth'[c] = reauth[c]
ReadKind(f, m, msgs) ==
    \/ m.cmd = "LI" /\ TakesChallenge(f, msgs)
    \/ m.cmd = "OK" /\ TakesOk(f, msgs)
    \/ /\ m.cmd \notin {"LI", "OK", "EOF"} /\ Otherwise(f, msgs)
       /\ m.cmd = "PG" => Has(msgs, {"PG"})
Relogs(f, msgs) ==
    LET c == link[f]
    IN  /\ msgs = << LI(acct[c]) >> /\ seen'[c] = seen[c] /\ reauth[c] /\ ~reauth'[c]
        /\ button'[c] = button[c] /\ media'[c] = media[c]
Kind(f, msgs, q) ==
    LET c == link[f]
    IN  \/ /\ toClient[c] # << >> /\ q = Tail(toClient[c])
           /\ ReadKind(f, Head(toClient[c]), msgs)
        \/ q = toClient[c] /\ Relogs(f, msgs)
        \/ q = toClient[c] /\ Otherwise(f, msgs) /\ (button[c] \/ media[c] # NoMedia)

\* A connected client
LEMMA SendTo ==
    ASSUME CalmInv, Types, NEW f \in conns, NEW msgs, Send(link[f], msgs)
    PROVE  toDaemon' = [toDaemon EXCEPT ![f] = @ \o msgs]
<1>1. f \in Fds /\ link[f] # NoClient
  BY ClientsAssumption DEF CalmInv, SocketInv, Types, TypeOK
<1>2. \A g \in Fds : link[g] = link[f] <=> g = f
  BY <1>1 DEF CalmInv, SocketInv
<1>3. toDaemon \in [Fds -> Seq(ToDaemon)]
  BY DEF Types, QueuesOK
<1> QED BY <1>1, <1>2, <1>3 DEF Send

LEMMA SaysNothing ==
    ASSUME Types, NEW f \in Fds, UNCHANGED toDaemon
    PROVE  toDaemon' = [toDaemon EXCEPT ![f] = @ \o << >>]
<1>1. toDaemon \in [Fds -> Seq(ToDaemon)]
  BY DEF Types, QueuesOK
<1>2. toDaemon[f] \o << >> = toDaemon[f]
  BY <1>1
<1> QED BY <1>1, <1>2

LEMMA KeepsQueue ==
    ASSUME Types, NEW c \in Clients, UNCHANGED toClient
    PROVE  toClient' = [toClient EXCEPT ![c] = toClient[c]]
BY DEF Types, ClientTypes, SocketTypes

\* A client writes one command, or none
LEMMA Words ==
    ASSUME NEW m \in ToDaemon
    PROVE  /\ << m >> \in Seq(ToDaemon) /\ << m >> \in Queue
           /\ \A S : Has(<< m >>, S) <=> m.cmd \in S
<1>1. m \in Commands
  BY MessageCommands
<1> QED BY <1>1, OneHas

LEMMA NoWords ==
    << >> \in Seq(ToDaemon) /\ << >> \in Queue /\ \A S : ~Has(<< >>, S)
BY NoneHas

\* Who has no connection does nothing but get one
LEMMA ClientConnected ==
    ASSUME Calm, CalmInv, Types, NEW c \in Clients, Client(c), ~Connected(c)
    PROVE  /\ \/ Reauthenticates(c) \/ ClientReads(c) \/ MediaTimeout(c) \/ HearsBye(c)
              \/ \E u \in Uids : Click(c, u)
           /\ \E f \in conns : link[f] = c
<1>1. /\ up /\ ~retry[c] /\ left["settings"] = 0 /\ left["quit"] = 0
  BY DEF CalmInv, SocketInv, ClientInv, SpentInv
<1>2. ~ConnectFails(c) /\ ~Reconnects(c) /\ ~Relaunch(c)
  <2>1. ~ConnectFails(c)
    BY <1>1 DEF ConnectFails
  <2>2. ~Reconnects(c)
    BY <1>1 DEF Reconnects
  <2>3. ~Relaunch(c)
    BY <1>1 DEF Relaunch, Spend
  <2> QED BY <2>1, <2>2, <2>3
<1>3. \A u \in Uids : ~Settings(c, u)
  BY <1>1 DEF Settings, Spend
<1>4. \/ Reauthenticates(c) \/ ClientReads(c) \/ MediaTimeout(c) \/ HearsBye(c)
      \/ \E u \in Uids : Click(c, u)
  BY <1>2, <1>3 DEF Client
<1>5. ~Fresh(c)
  BY <1>4 DEF Fresh, Reauthenticates, ClientReads, MediaTimeout, HearsBye, Click
<1>6. PICK f \in Fds : link[f] = c
  BY <1>5 DEF CalmInv, ClientInv
<1>7. f \in conns
  BY <1>6, ClientsAssumption DEF CalmInv, SocketInv
<1> QED BY <1>4, <1>6, <1>7

\* The budgets that are spent stay spent
LEMMA StaysSpent ==
    ASSUME CalmInv, Types, UNCHANGED left \/ \E what \in Budgets : Spend(what)
    PROVE  SpentInv'
<1>1. left \in [Budgets -> Nat] /\ \A b \in {"settings", "sweep", "quit", "shutdown"} : left[b] = 0
  BY DEF CalmInv, SpentInv, Types, ClientTypes, SocketTypes
<1>2. CASE UNCHANGED left
  BY <1>1, <1>2 DEF SpentInv
<1>3. ASSUME NEW what \in Budgets, Spend(what) PROVE SpentInv'
  <2>1. left[what] > 0 /\ left' = [left EXCEPT ![what] = @ - 1]
    BY <1>3 DEF Spend
  <2>2. what \notin {"settings", "sweep", "quit", "shutdown"}
    BY <1>1, <2>1
  <2>3. \A b \in Budgets : b # what => left'[b] = left[b]
    BY <1>1, <2>1
  <2> QED BY <1>1, <2>2, <2>3 DEF SpentInv, Budgets
<1> QED BY <1>2, <1>3

\* Who stops his codec stops no other
LEMMA StopsOthers ==
    ASSUME Types, NEW c \in Clients, NEW others, StopsMedia(c, others)
    PROVE  /\ \A d \in Clients \ {c} : button'[d] = button[d] /\ media'[d] = media[d]
           /\ media'[c] = NoMedia
BY DEF StopsMedia, Types, ClientTypes, MediaTypes

\* A client reads a command
LEMMA ReadsActs ==
    ASSUME Calm, CalmInv, Types, NEW f \in conns, ClientReads(link[f]),
           NEW c, c = link[f], NEW m, m = Head(toClient[c])
    PROVE  /\ toClient[c] # << >> /\ c \in Clients /\ f \in Fds
           /\ m \in Message
           /\ \E msgs : /\ Acts(f, msgs, Tail(toClient[c])) /\ ReadKind(f, m, msgs)
                        /\ Decodes[c] => ~Has(msgs, {"ER"})
<1> DEFINE q == Tail(toClient[c])
<1>1. f \in Fds /\ c \in Clients /\ toClient[c] # << >>
  BY DEF CalmInv, SocketInv, Types, TypeOK, ClientReads
<1>2. toClient[c] \in Queue /\ toClient[c] \in Seq(Message \union {Eof}) /\ m \in Message \union {Eof}
  BY <1>1, Queues
<1>3. m.cmd # "EOF" /\ m \in Message
  <2>1. ~Has(toClient[c], {"EOF"})
    BY <1>1 DEF CalmInv, EofInv
  <2>2. m.cmd # "EOF"
    BY <1>1, <1>2, <2>1, TailHas
  <2> QED BY <1>2, <2>2 DEF Eof
<1>4. /\ Challenge(c, m) \/ LoginOk(c, m) \/ Response(c, m) \/ MediaStart(c, m)
         \/ MediaStop(c, m) \/ Ping(c, m)
      /\ toClient' = [toClient EXCEPT ![c] = q]
      /\ UNCHANGED << vars, link, issued, once, acct >>
  BY <1>3 DEF ClientReads, ConnectionLost
<1>5. /\ reauth \in [Clients -> BOOLEAN] /\ button \in [Clients -> BOOLEAN]
      /\ media \in [Clients -> Media \union {NoMedia}] /\ seen \in [Clients -> Nat]
      /\ byes \subseteq Bye
  BY DEF Types, ClientTypes, FlagTypes, MediaTypes, QueuesOK
<1>6. "fault" \in Budgets
  BY DEF Budgets
<1> HIDE DEF q
<1> DEFINE Done == \E msgs : /\ Acts(f, msgs, q) /\ ReadKind(f, m, msgs)
                             /\ Decodes[c] => ~Has(msgs, {"ER"})
<1> SUFFICES Done
  BY <1>1, <1>3 DEF q
<1>7. CASE Challenge(c, m)
  <2> DEFINE w == PW(seen[c] + 1)
  <2>1. seen'[c] = seen[c] + 1 /\ seen[c] + 1 \in Nat /\ w \in ToDaemon
    BY <1>1, <1>5, <1>7, CommandTypes DEF Challenge
  <2>2. toDaemon' = [toDaemon EXCEPT ![f] = @ \o << w >>]
    BY <1>7, <2>1, SendTo DEF Challenge
  <2>3. SpentInv'
    BY <1>7, StaysSpent DEF Challenge
  <2>4. << w >> \in Seq(ToDaemon) /\ << w >> \in Queue /\ ~Has(<< w >>, {"ER"})
    <3>1. w.cmd = "PW"
      BY DEF PW
    <3> QED BY <2>1, <3>1, Words
  <2>5. Acts(f, << w >>, q)
    BY <1>1, <1>4, <1>5, <1>7, <2>2, <2>3, <2>4 DEF Acts, Challenge
  <2>6. ReadKind(f, m, << w >>)
    BY <1>7, <2>1 DEF ReadKind, TakesChallenge, Challenge
  <2> QED BY <2>4, <2>5, <2>6
<1>8. CASE LoginOk(c, m)
  <2>1. toDaemon' = [toDaemon EXCEPT ![f] = @ \o << >>]
    BY <1>1, <1>8, SaysNothing DEF LoginOk
  <2>2. SpentInv'
    BY <1>8, StaysSpent DEF LoginOk
  <2>3. Acts(f, << >>, q)
    BY <1>1, <1>4, <1>5, <1>8, <2>1, <2>2, NoWords DEF Acts, LoginOk
  <2>4. ReadKind(f, m, << >>)
    BY <1>1, <1>5, <1>8 DEF ReadKind, TakesOk, LoginOk
  <2> QED BY <2>3, <2>4, NoWords
<1>9. ASSUME NEW msgs \in Seq(ToDaemon), msgs \in Queue, ~Has(msgs, {"LI", "PW", "EOF"}),
             toDaemon' = [toDaemon EXCEPT ![f] = @ \o msgs], SpentInv',
             \A d \in Clients \ {c} : button'[d] = button[d] /\ media'[d] = media[d],
             UNCHANGED << tcp, retry, reauth, seen >>, m.cmd \notin {"LI", "OK", "EOF"},
             m.cmd = "PG" => Has(msgs, {"PG"})
      PROVE  Acts(f, msgs, q) /\ ReadKind(f, m, msgs)
  BY <1>4, <1>9 DEF Acts, ReadKind, Otherwise
<1>10. CASE Response(c, m)
  <2>1. SpentInv' /\ m.cmd = "ER" /\ UNCHANGED << tcp, retry, reauth, seen >>
    BY <1>10, StaysSpent DEF Response
  <2>2. CASE m.code = 14 /\ Send(c, << Plain("BY") >>) /\ StopsMedia(c, byes)
    <3>1. Plain("BY") \in ToDaemon /\ Plain("BY").cmd = "BY"
      BY CommandTypes DEF Plain
    <3>2. toDaemon' = [toDaemon EXCEPT ![f] = @ \o << Plain("BY") >>]
      BY <2>2, SendTo
    <3>3. ~Has(<< Plain("BY") >>, {"LI", "PW", "EOF"}) /\ ~Has(<< Plain("BY") >>, {"ER"})
          /\ << Plain("BY") >> \in Seq(ToDaemon)
          /\ << Plain("BY") >> \in Queue
      BY <3>1, Words
    <3>4. \A d \in Clients \ {c} : button'[d] = button[d] /\ media'[d] = media[d]
      BY <1>1, <2>2, StopsOthers
    <3>5. Acts(f, << Plain("BY") >>, q) /\ ReadKind(f, m, << Plain("BY") >>)
      BY <1>9, <2>1, <3>2, <3>3, <3>4
    <3> QED BY <3>3, <3>5
  <2>3. CASE UNCHANGED << toDaemon, media, byes >>
             /\ (button' = [button EXCEPT ![c] = FALSE] \/ UNCHANGED button)
    <3>1. toDaemon' = [toDaemon EXCEPT ![f] = @ \o << >>]
      BY <1>1, <2>3, SaysNothing
    <3>2. \A d \in Clients \ {c} : button'[d] = button[d] /\ media'[d] = media[d]
      BY <1>1, <1>5, <2>3
    <3>3. Acts(f, << >>, q) /\ ReadKind(f, m, << >>)
      BY <1>9, <2>1, <3>1, <3>2, NoWords
    <3> QED BY <3>3, NoWords
  <2> QED BY <1>10, <2>2, <2>3 DEF Response
<1>11. CASE MediaStart(c, m)
  <2>1. SpentInv' /\ m.cmd = "ME" /\ UNCHANGED << tcp, retry, reauth, seen >>
    BY <1>6, <1>11, StaysSpent DEF MediaStart
  <2>2. CASE m.to # NoAddr /\ ~Decodes[c] /\ Send(c, << ER(14) >>) /\ UNCHANGED << media, button >>
    <3>1. ER(14) \in ToDaemon /\ ER(14).cmd = "ER"
      BY CommandTypes DEF ER
    <3>2. toDaemon' = [toDaemon EXCEPT ![f] = @ \o << ER(14) >>]
      BY <2>2, SendTo
    <3>3. ~Has(<< ER(14) >>, {"LI", "PW", "EOF"}) /\ << ER(14) >> \in Seq(ToDaemon)
          /\ << ER(14) >> \in Queue
      BY <3>1, Words
    <3>4. Acts(f, << ER(14) >>, q) /\ ReadKind(f, m, << ER(14) >>)
      BY <1>9, <2>1, <2>2, <3>2, <3>3
    <3> QED BY <2>2, <3>4
  <2>3. CASE UNCHANGED toDaemon
    <3>1. toDaemon' = [toDaemon EXCEPT ![f] = @ \o << >>]
      BY <1>1, <2>3, SaysNothing
    <3>2. \A d \in Clients \ {c} : button'[d] = button[d] /\ media'[d] = media[d]
      BY <1>1, <1>5, <1>11 DEF MediaStart
    <3>3. Acts(f, << >>, q) /\ ReadKind(f, m, << >>)
      BY <1>9, <2>1, <3>1, <3>2, NoWords
    <3> QED BY <3>3, NoWords
  <2> QED BY <1>11, <2>2, <2>3 DEF MediaStart
<1>12. CASE MediaStop(c, m)
  <2>1. SpentInv' /\ m.cmd = "MS" /\ UNCHANGED << tcp, retry, reauth, seen, toDaemon >>
    BY <1>12, StaysSpent DEF MediaStop
  <2>2. toDaemon' = [toDaemon EXCEPT ![f] = @ \o << >>]
    BY <1>1, <2>1, SaysNothing
  <2>3. \A d \in Clients \ {c} : button'[d] = button[d] /\ media'[d] = media[d]
    BY <1>1, <1>12, StopsOthers DEF MediaStop
  <2>4. Acts(f, << >>, q) /\ ReadKind(f, m, << >>)
    BY <1>9, <2>1, <2>2, <2>3, NoWords
  <2> QED BY <2>4, NoWords
<1>13. CASE Ping(c, m)
  <2>1. SpentInv' /\ m.cmd = "PG" /\ UNCHANGED << tcp, retry, reauth, seen, button, media >>
    BY <1>13, StaysSpent DEF Ping
  <2>2. Plain("PG") \in ToDaemon /\ Plain("PG").cmd = "PG"
    BY CommandTypes DEF Plain
  <2>3. toDaemon' = [toDaemon EXCEPT ![f] = @ \o << Plain("PG") >>]
    BY <1>13, SendTo DEF Ping
  <2>4. /\ ~Has(<< Plain("PG") >>, {"LI", "PW", "EOF"}) /\ << Plain("PG") >> \in Seq(ToDaemon)
        /\ << Plain("PG") >> \in Queue /\ Has(<< Plain("PG") >>, {"PG"})
        /\ ~Has(<< Plain("PG") >>, {"ER"})
    BY <2>2, Words
  <2>5. Acts(f, << Plain("PG") >>, q) /\ ReadKind(f, m, << Plain("PG") >>)
    BY <1>9, <2>1, <2>3, <2>4
  <2> QED BY <2>4, <2>5
<1> HIDE DEF Done
<1> QED BY <1>4, <1>7, <1>8, <1>10, <1>11, <1>12, <1>13

\* A client does anything else
LEMMA OthersAct ==
    ASSUME Calm, CalmInv, Types, NEW f \in conns, NEW c, c = link[f]
    PROVE  /\ c \in Clients /\ f \in Fds
           /\ Reauthenticates(c) =>
                \E msgs : Acts(f, msgs, toClient[c]) /\ Kind(f, msgs, toClient[c])
                          /\ media' = media /\ ~Has(msgs, {"ER"})
           /\ (\E u \in Uids : Click(c, u)) =>
                \E msgs : Acts(f, msgs, toClient[c]) /\ Kind(f, msgs, toClient[c])
                          /\ media' = media /\ ~Has(msgs, {"ER"})
           /\ MediaTimeout(c) \/ HearsBye(c) =>
                \E msgs : Acts(f, msgs, toClient[c]) /\ Kind(f, msgs, toClient[c])
                          /\ media'[c] = NoMedia /\ ~Has(msgs, {"ER"})
<1>1. f \in Fds /\ c \in Clients
  BY DEF CalmInv, SocketInv, Types, TypeOK
<1>2. /\ reauth \in [Clients -> BOOLEAN] /\ button \in [Clients -> BOOLEAN]
      /\ media \in [Clients -> Media \union {NoMedia}] /\ acct \in [Clients -> Uids]
      /\ byes \subseteq Bye /\ toClient' = toClient <=> UNCHANGED toClient
  BY DEF Types, ClientTypes, FlagTypes, MediaTypes, QueuesOK
<1>3. UNCHANGED toClient => toClient' = [toClient EXCEPT ![c] = toClient[c]]
  BY <1>1, KeepsQueue
<1>4. {"fault", "click", "reauth"} \subseteq Budgets
  BY DEF Budgets
<1>5. ASSUME Reauthenticates(c)
      PROVE  \E msgs : Acts(f, msgs, toClient[c]) /\ Kind(f, msgs, toClient[c])
                       /\ media' = media /\ ~Has(msgs, {"ER"})
  <2> DEFINE w == LI(acct[c])
  <2>1. w \in ToDaemon /\ w.cmd = "LI"
    BY <1>1, <1>2, CommandTypes DEF LI
  <2>2. toDaemon' = [toDaemon EXCEPT ![f] = @ \o << w >>]
    BY <1>5, SendTo DEF Reauthenticates
  <2>3. SpentInv'
    BY <1>4, <1>5, StaysSpent DEF Reauthenticates
  <2>4. << w >> \in Seq(ToDaemon) /\ << w >> \in Queue /\ ~Has(<< w >>, {"ER"})
    BY <2>1, Words
  <2>5. UNCHANGED << vars, link, issued, once, acct, tcp, retry, seen, button, media, toClient >>
        /\ reauth[c] /\ reauth' = [reauth EXCEPT ![c] = FALSE]
    BY <1>5 DEF Reauthenticates
  <2>6. ~reauth'[c] /\ \A d \in Clients \ {c} : reauth'[d] = reauth[d]
    BY <1>1, <1>2, <2>5
  <2>7. Acts(f, << w >>, toClient[c])
    BY <1>3, <2>2, <2>3, <2>4, <2>5, <2>6 DEF Acts
  <2>8. Relogs(f, << w >>)
    BY <2>5, <2>6 DEF Relogs
  <2> QED BY <2>4, <2>5, <2>7, <2>8 DEF Kind
<1>6. ASSUME NEW u \in Uids, Click(c, u)
      PROVE  \E msgs : Acts(f, msgs, toClient[c]) /\ Kind(f, msgs, toClient[c])
                       /\ media' = media /\ ~Has(msgs, {"ER"})
  <2> DEFINE w == IF media[c] = NoMedia THEN CA(u) ELSE Plain("BY")
  <2>1. w \in ToDaemon /\ w.cmd \in {"CA", "BY"}
    BY CommandTypes DEF CA, Plain
  <2>2. toDaemon' = [toDaemon EXCEPT ![f] = @ \o << w >>]
    BY <1>6, SendTo DEF Click
  <2>3. SpentInv'
    BY <1>4, <1>6, StaysSpent DEF Click
  <2> HIDE DEF w
  <2>4. << w >> \in Seq(ToDaemon) /\ << w >> \in Queue /\ ~Has(<< w >>, {"ER"})
        /\ ~Has(<< w >>, {"LI", "PW", "EOF"})
    BY <2>1, Words
  <2>5. UNCHANGED << vars, link, issued, toClient, clientVars >> /\ button[c]
    BY <1>6 DEF Click
  <2>6. UNCHANGED << once, acct, tcp, retry, seen, reauth, button, media >>
    BY <2>5 DEF clientVars
  <2>7. Acts(f, << w >>, toClient[c])
    BY <1>3, <2>2, <2>3, <2>4, <2>5, <2>6 DEF Acts
  <2>8. Otherwise(f, << w >>)
    BY <2>4, <2>6 DEF Otherwise
  <2> QED BY <2>4, <2>5, <2>6, <2>7, <2>8 DEF Kind
<1>7. ASSUME MediaTimeout(c) \/ HearsBye(c)
      PROVE  \E msgs : Acts(f, msgs, toClient[c]) /\ Kind(f, msgs, toClient[c])
                       /\ media'[c] = NoMedia /\ ~Has(msgs, {"ER"})
  <2>1. SpentInv'
    BY <1>4, <1>7, StaysSpent DEF MediaTimeout, HearsBye
  <2>2. UNCHANGED << vars, netVars, issued, tcp, once, retry, reauth, acct, seen >>
        /\ media[c] # NoMedia /\ \E others : StopsMedia(c, others)
    BY <1>7 DEF MediaTimeout, HearsBye
  <2>3. /\ \A d \in Clients \ {c} : button'[d] = button[d] /\ media'[d] = media[d]
        /\ media'[c] = NoMedia
    BY <1>1, <2>2, StopsOthers
  <2>4. toDaemon' = [toDaemon EXCEPT ![f] = @ \o << >>]
    BY <1>1, <2>2, SaysNothing DEF netVars
  <2>5. Acts(f, << >>, toClient[c])
    BY <1>3, <2>1, <2>2, <2>3, <2>4, NoWords DEF Acts, netVars
  <2>6. Otherwise(f, << >>)
    BY <2>2, NoWords DEF Otherwise
  <2> QED BY <2>2, <2>3, <2>5, <2>6, NoWords DEF Kind
<1> QED BY <1>1, <1>5, <1>6, <1>7

\* What an action leaves to the others
LEMMA ActsElsewhere ==
    ASSUME Calm, CalmInv, Types, NEW f \in conns, NEW msgs, NEW q, Acts(f, msgs, q)
    PROVE  /\ f \in Fds /\ link[f] \in Clients /\ link' = link /\ conns' = conns /\ conns \subseteq Fds
           /\ toDaemon'[f] = toDaemon[f] \o msgs /\ toClient'[link[f]] = q
           /\ \A g \in Fds \ {f} : toDaemon'[g] = toDaemon[g]
           /\ \A d \in Clients \ {link[f]} : toClient'[d] = toClient[d]
           /\ \A g \in conns \ {f} : link[g] \in Clients \ {link[f]}
           /\ UNCHANGED << uid, auth, laddr, age, walk, peer >>
<1>1. f \in Fds /\ link[f] \in Clients /\ conns \subseteq Fds /\ \A g \in conns : link[g] \in Clients
  BY DEF CalmInv, SocketInv, Types, TypeOK
<1>2. \A g \in conns \ {f} : link[g] # link[f]
  BY <1>1, ClientsAssumption DEF CalmInv, SocketInv
<1>3. toDaemon \in [Fds -> Seq(ToDaemon)] /\ toClient \in [Clients -> Seq(Message \union {Eof})]
  BY DEF Types, QueuesOK, ClientTypes, SocketTypes
<1>4. UNCHANGED << uid, auth, laddr, age, walk, peer, conns >>
  BY DEF Acts, vars, idVars, sockVars, timeVars, callVars
<1> QED BY <1>1, <1>2, <1>3, <1>4 DEF Acts

\* The end of the queue that is read
LEMMA KindReads ==
    ASSUME Types, NEW f \in Fds, link[f] \in Clients, NEW msgs, NEW q, Kind(f, msgs, q)
    PROVE  q \in Queue /\ \A S : Has(q, S) => Has(toClient[link[f]], S)
<1>1. toClient[link[f]] \in Queue
  BY Queues
<1> QED BY <1>1, TailAt, TailHas DEF Kind

\* After a step of a client: connections and calls, ...
LEMMA ActsSockets ==
    ASSUME Calm, CalmInv, Types, Types', NEW f \in conns, NEW msgs, NEW q,
           Acts(f, msgs, q), Kind(f, msgs, q)
    PROVE  SpentInv' /\ SocketInv' /\ ClientInv' /\ EofInv' /\ PeerInv'
<1> DEFINE c == link[f]
<1>1. SpentInv' /\ PeerInv'
  <2>1. UNCHANGED << peer, conns, uid >>
    BY ActsElsewhere
  <2>2. SpentInv'
    BY DEF Acts
  <2> QED BY <2>1, <2>2 DEF CalmInv, PeerInv
<1>2. SocketInv'
  <2>1. UNCHANGED << up, reap, acct, link, conns, sock, zombie, addr >>
    BY DEF Acts, vars, sockVars, timeVars
  <2>2. \A g \in Fds \ conns : toDaemon'[g] = toDaemon[g]
    BY ActsElsewhere
  <2> QED BY <2>1, <2>2 DEF CalmInv, SocketInv
<1>3. ClientInv'
  <2>1. UNCHANGED << tcp, retry, link >>
    BY DEF Acts
  <2>2. ASSUME NEW d \in Clients, ~\E g \in Fds : link[g] = d PROVE Fresh(d)'
    <3>1. d # c
      BY <2>2, ActsElsewhere
    <3> QED BY <2>1, <2>2, <3>1, ActsElsewhere DEF Fresh, Acts, CalmInv, ClientInv
  <2> QED BY <2>1, <2>2 DEF CalmInv, ClientInv
<1>4. EofInv'
  <2>1. ~Has(msgs, {"EOF"})
    <3>1. PW(seen[c] + 1).cmd = "PW" /\ LI(acct[c]).cmd = "LI"
      BY DEF PW, LI
    <3>2. \A w : w.cmd # "EOF" => ~Has(<< w >>, {"EOF"})
      BY DEF Has
    <3>3. ~Has(msgs, {"LI", "PW", "EOF"}) => ~Has(msgs, {"EOF"})
      BY DEF Has
    <3> QED BY <3>1, <3>2, <3>3, NoneHas
            DEF Kind, ReadKind, TakesChallenge, TakesOk, Otherwise, Relogs
  <2>2. ~Has(toDaemon'[f], {"EOF"})
    <3>1. toDaemon[f] \in Queue /\ msgs \in Queue /\ toDaemon'[f] = toDaemon[f] \o msgs /\ f \in Fds
      <4>1. msgs \in Queue
        BY DEF Acts
      <4> QED BY <4>1, Queues, ActsElsewhere
    <3>2. ~Has(toDaemon[f], {"EOF"})
      BY <3>1 DEF CalmInv, EofInv
    <3> QED BY <2>1, <3>1, <3>2, CatHas
  <2>3. ~Has(toClient'[c], {"EOF"})
    <3>1. c \in Clients /\ toClient'[c] = q /\ f \in Fds
      BY ActsElsewhere
    <3>2. ~Has(toClient[c], {"EOF"})
      BY <3>1 DEF CalmInv, EofInv
    <3> QED BY <3>1, <3>2, KindReads
  <2> QED BY <2>2, <2>3, ActsElsewhere DEF CalmInv, EofInv
<1> QED BY <1>1, <1>2, <1>3, <1>4

\* ... pings ...
LEMMA ActsPing ==
    ASSUME Calm, CalmInv, Types, Types', NEW f \in conns, NEW msgs, NEW q,
           Acts(f, msgs, q), Kind(f, msgs, q)
    PROVE  PingInv'
<1> DEFINE c == link[f]
<1>1. ASSUME NEW g \in conns
      PROVE  age[g] = 0 \/ Has(toDaemon'[g], {"PG"}) \/ Has(toClient'[link[g]], {"PG"})
  <2>1. age[g] = 0 \/ Has(toDaemon[g], {"PG"}) \/ Has(toClient[link[g]], {"PG"})
    BY DEF CalmInv, PingInv
  <2>2. CASE g # f
    BY <2>1, <2>2, ActsElsewhere
  <2>3. CASE g = f
    <3>1. /\ toDaemon[f] \in Queue /\ msgs \in Queue /\ toDaemon'[f] = toDaemon[f] \o msgs
          /\ toClient[c] \in Queue /\ toClient'[c] = q
      <4>1. msgs \in Queue
        BY DEF Acts
      <4> QED BY <4>1, Queues, ActsElsewhere
    <3>2. Has(toDaemon'[f], {"PG"}) <=> Has(toDaemon[f], {"PG"}) \/ Has(msgs, {"PG"})
      BY <3>1, CatHas
    <3>3. Has(toClient[c], {"PG"}) => Has(q, {"PG"}) \/ Has(msgs, {"PG"})
      <4>1. CASE q = toClient[c]
        BY <4>1
      <4>2. CASE toClient[c] # << >> /\ q = Tail(toClient[c]) /\ ReadKind(f, Head(toClient[c]), msgs)
        BY <3>1, <4>2, TailHas DEF ReadKind
      <4> QED BY <4>1, <4>2 DEF Kind
    <3> QED BY <2>1, <2>3, <3>1, <3>2, <3>3
  <2> QED BY <2>2, <2>3
<1>2. UNCHANGED << link, conns, age, walk, auth >>
  BY ActsElsewhere
<1> QED BY <1>1, <1>2 DEF CalmInv, PingInv

\* ... and logins
LEMMA ActsLogin ==
    ASSUME Calm, CalmInv, Types, Types', NEW f \in conns, NEW msgs, NEW q,
           Acts(f, msgs, q), Kind(f, msgs, q)
    PROVE  LoginInv'
<1> DEFINE c == link[f]
           d == toDaemon[f]
           o == toClient[c]
<1>1. /\ f \in Fds /\ c \in Clients /\ link' = link /\ conns' = conns /\ conns \subseteq Fds
      /\ toDaemon'[f] = d \o msgs /\ toClient'[c] = q
      /\ \A g \in Fds \ {f} : toDaemon'[g] = toDaemon[g]
      /\ \A e \in Clients \ {c} : toClient'[e] = toClient[e]
      /\ \A g \in conns \ {f} : link[g] \in Clients \ {c}
      /\ UNCHANGED << uid, auth, laddr >>
  BY ActsElsewhere
<1>2. /\ UNCHANGED << issued, acct >> /\ msgs \in Queue
      /\ \A e \in Clients \ {c} : /\ seen'[e] = seen[e] /\ reauth'[e] = reauth[e]
                                  /\ button'[e] = button[e] /\ media'[e] = media[e]
  BY DEF Acts
<1>3. ASSUME NEW g \in conns PROVE Tokens(g) /\ Numbers(g) /\ Phase(g) /\ (uid[g] # NoUid => laddr[g] \in Addrs)
  BY DEF CalmInv, LoginInv
<1>4. ASSUME NEW g \in conns, g # f PROVE Tokens(g)' /\ Numbers(g)' /\ Phase(g)'
  <2> DEFINE e == link[g]
  <2>1. g \in Fds /\ e \in Clients \ {c} /\ link'[g] = e
        /\ toDaemon'[g] = toDaemon[g] /\ toClient'[e] = toClient[e]
        /\ seen'[e] = seen[e] /\ reauth'[e] = reauth[e] /\ button'[e] = button[e]
        /\ media'[e] = media[e] /\ issued'[g] = issued[g] /\ acct'[e] = acct[e]
    BY <1>1, <1>2, <1>4
  <2>2. Tokens(g)' /\ Numbers(g)'
    BY <1>3, <2>1, SelfSame, SameLogin
  <2>3. Phase(g)'
    BY <1>1, <1>3, <2>1 DEF Phase, Greets, Challenged, Answers
  <2> QED BY <2>2, <2>3
<1>5. d \in Queue /\ o \in Queue /\ seen[c] \in Nat
  BY <1>1, Queues DEF Types, QueuesOK
<1>6. uid'[f] = uid[f] /\ auth'[f] = auth[f] /\ link'[f] = c /\ acct'[c] = acct[c]
  BY <1>1, <1>2
<1>7. Answers(f) => Answers(f)'
  <2> SUFFICES ASSUME Answers(f) PROVE Answers(f)'
    OBVIOUS
  <2>1. d # << >> /\ Head(d).cmd = "PW"
    BY DEF Answers
  <2>2. d \o msgs # << >> /\ Head(d \o msgs) = Head(d)
    BY <1>2, <1>5, <2>1, CatHead
  <2> QED BY <1>1, <1>6, <2>1, <2>2 DEF Answers
<1>8. uid[f] = acct[c] /\ auth[f] => (uid[f] = acct[c] /\ auth[f])' /\ Phase(f)'
  BY <1>6 DEF Phase
<1> SUFFICES Tokens(f)' /\ Numbers(f)' /\ Phase(f)'
  BY <1>1, <1>3, <1>4 DEF LoginInv
<1>9. CASE /\ Otherwise(f, msgs)
           /\ \/ o # << >> /\ q = Tail(o) /\ Head(o).cmd \notin {"LI", "OK", "EOF"}
              \/ q = o /\ (button[c] \/ media[c] # NoMedia)
  <2>1. ~Has(msgs, {"LI", "PW"}) /\ seen'[c] = seen[c] /\ reauth'[c] = reauth[c]
    BY <1>9 DEF Otherwise, Has
  <2>2. SameOf(d, d \o msgs, {"LI", "PW"})
    BY <1>2, <1>5, <2>1, CatSame
  <2>3. SameOf(o, q, {"LI", "OK"})
    BY <1>5, <1>9, SelfSame, TailSame
  <2>4. Tokens(f)' /\ Numbers(f)'
    BY <1>1, <1>2, <1>3, <1>6, <2>1, <2>2, <2>3, SameLogin
  <2>5. ~Greets(f) /\ ~Challenged(f)
    BY <1>9 DEF Greets, Challenged
  <2>6. Phase(f)'
    BY <1>3, <1>7, <1>8, <2>5 DEF Phase
  <2> QED BY <2>4, <2>6
<1>10. CASE o # << >> /\ q = Tail(o) /\ Head(o).cmd = "LI" /\ TakesChallenge(f, msgs)
  <2> DEFINE w == PW(seen[c] + 1)
  <2>1. /\ msgs = << w >> /\ seen'[c] = seen[c] + 1 /\ reauth'[c] = reauth[c]
        /\ w \in Commands /\ w.cmd = "PW"
    <3>1. w \in ToDaemon
      BY <1>5, CommandTypes
    <3>2. w.cmd = "PW"
      BY DEF PW
    <3> QED BY <1>10, <3>1, <3>2, MessageCommands DEF TakesChallenge
  <2>2. Has(o, {"LI", "OK"}) /\ Has(o, {"LI"}) /\ ~Has(q, {"LI", "OK"}) /\ Once(q, {"LI", "OK"})
    BY <1>3, <1>5, <1>10, TailHas, TailOnce DEF Tokens
  <2>3. ~Has(q, {"LI"})
    BY <2>2 DEF Has
  <2>4. ~Has(d, {"LI", "PW"}) /\ ~reauth[c]
    BY <1>3, <2>2 DEF Tokens
  <2>5. Once(d \o << w >>, {"LI", "PW"})
    BY <1>5, <2>1, <2>4, CatOnce
  <2>6. Tokens(f)'
    BY <1>1, <1>6, <2>1, <2>2, <2>4, <2>5 DEF Tokens
  <2>7. issued[f] = seen[c] + 1
    BY <1>3, <2>2 DEF Numbers
  <2>8. \A k : Holds(d \o << w >>, k) => Holds(d, k) \/ k = w
    BY <1>5, <2>1, CatHolds, OneHas
  <2>9. \A k : Holds(d, k) => k.cmd \notin {"LI", "PW"}
    BY <2>4 DEF Has, Holds
  <2>10. \A n \in Nat : Holds(d \o << w >>, PW(n)) => n = seen[c] + 1
    <3> SUFFICES ASSUME NEW n \in Nat, Holds(d \o << w >>, PW(n)) PROVE n = seen[c] + 1
      OBVIOUS
    <3>1. PW(n).cmd = "PW" /\ PW(n).n = n /\ w.n = seen[c] + 1
      BY DEF PW
    <3> HIDE DEF w
    <3>2. PW(n) = w
      BY <2>8, <2>9, <3>1
    <3> QED BY <3>1, <3>2
  <2>11. \A u \in Uids : ~Holds(d \o << w >>, LI(u))
    <3>1. \A u \in Uids : LI(u).cmd = "LI"
      BY DEF LI
    <3> HIDE DEF w
    <3> QED BY <2>1, <2>8, <2>9, <3>1
  <2> HIDE DEF w
  <2>12. Numbers(f)'
    BY <1>1, <1>2, <1>6, <2>1, <2>3, <2>7, <2>10, <2>11 DEF Numbers
  <2>13. Phase(f)'
    <3>1. CASE Challenged(f)
      <4>1. d \o << w >> = << w >>
        BY <2>1, <3>1 DEF Challenged
      <4>2. << w >> # << >> /\ Head(<< w >>) = w
        OBVIOUS
      <4> QED BY <1>1, <1>6, <2>1, <3>1, <4>1, <4>2 DEF Phase, Answers, Challenged
    <3>2. ~Greets(f)
      BY <1>10 DEF Greets
    <3> QED BY <1>3, <1>7, <1>8, <3>1, <3>2 DEF Phase
  <2> QED BY <2>6, <2>12, <2>13
<1>11. CASE o # << >> /\ q = Tail(o) /\ Head(o).cmd = "OK" /\ TakesOk(f, msgs)
  <2>1. msgs = << >> /\ seen'[c] = seen[c] /\ d \o msgs = d
    BY <1>5, <1>11 DEF TakesOk, Queue
  <2>2. Has(o, {"LI", "OK"}) /\ ~Has(q, {"LI", "OK"}) /\ Once(q, {"LI", "OK"})
    BY <1>3, <1>5, <1>11, TailHas, TailOnce DEF Tokens
  <2>3. ~Has(d, {"LI", "PW"})
    BY <1>3, <2>2 DEF Tokens
  <2>4. Tokens(f)'
    BY <1>1, <1>3, <1>6, <2>1, <2>2, <2>3 DEF Tokens
  <2>5. ~Has(q, {"LI"}) /\ ~Has(o, {"LI"})
    <3>1. ~Has(q, {"LI"})
      BY <2>2 DEF Has
    <3> QED BY <1>5, <1>11, <3>1, TailHas
  <2>6. Numbers(f)'
    BY <1>1, <1>2, <1>3, <1>6, <2>1, <2>5 DEF Numbers
  <2>7. ~Greets(f) /\ ~Challenged(f)
    BY <1>11 DEF Greets, Challenged
  <2>8. Phase(f)'
    BY <1>3, <1>7, <1>8, <2>7 DEF Phase
  <2> QED BY <2>4, <2>6, <2>8
<1>12. CASE q = o /\ Relogs(f, msgs)
  <2> DEFINE w == LI(acct[c])
  <2>1. /\ msgs = << w >> /\ seen'[c] = seen[c] /\ reauth[c] /\ ~reauth'[c]
        /\ w \in Commands /\ w.cmd = "LI" /\ w.user = acct[c]
    <3>1. w \in ToDaemon
      BY <1>1, CommandTypes DEF Types, QueuesOK
    <3>2. w.cmd = "LI" /\ w.user = acct[c]
      BY DEF LI
    <3> QED BY <1>12, <3>1, <3>2, MessageCommands DEF Relogs
  <2>2. ~Has(d, {"LI", "PW"}) /\ ~Has(o, {"LI", "OK"})
    BY <1>3, <2>1 DEF Tokens
  <2>3. Once(d \o << w >>, {"LI", "PW"})
    BY <1>5, <2>1, <2>2, CatOnce
  <2>4. Tokens(f)'
    BY <1>1, <1>3, <1>6, <1>12, <2>1, <2>2, <2>3 DEF Tokens
  <2>5. \A k : Holds(d \o << w >>, k) => Holds(d, k) \/ k = w
    BY <1>5, <2>1, CatHolds, OneHas
  <2>6. \A k : Holds(d, k) => k.cmd \notin {"LI", "PW"}
    BY <2>2 DEF Has, Holds
  <2>7. \A n \in Nat : ~Holds(d \o << w >>, PW(n))
    <3>1. \A n \in Nat : PW(n).cmd = "PW"
      BY DEF PW
    <3> HIDE DEF w
    <3> QED BY <2>1, <2>5, <2>6, <3>1
  <2>8. \A u \in Uids : Holds(d \o << w >>, LI(u)) => u = acct[c]
    <3>1. \A u \in Uids : LI(u).cmd = "LI" /\ LI(u).user = u
      BY DEF LI
    <3> HIDE DEF w
    <3> QED BY <2>1, <2>5, <2>6, <3>1
  <2> HIDE DEF w
  <2>9. Numbers(f)'
    BY <1>1, <1>2, <1>3, <1>6, <1>12, <2>1, <2>7, <2>8 DEF Numbers
  <2>10. ~Greets(f) /\ ~Challenged(f) /\ ~Answers(f)
    <3>1. ~Greets(f)
      <4>1. LI(acct[c]) \in Commands /\ LI(acct[c]).cmd = "LI"
        BY <2>1 DEF w
      <4>2. Has(<< LI(acct[c]) >>, {"LI", "PW"})
        BY <4>1, OneHas
      <4> QED BY <2>2, <4>2 DEF Greets
    <3>2. ~Challenged(f)
      BY <1>5, <2>2, TailHas DEF Challenged
    <3>3. ~Answers(f)
      BY <1>5, <2>2, TailHas DEF Answers
    <3> QED BY <3>1, <3>2, <3>3
  <2>11. Phase(f)'
    BY <1>3, <1>8, <2>10 DEF Phase
  <2> QED BY <2>4, <2>9, <2>11
<1> QED BY <1>9, <1>10, <1>11, <1>12 DEF Kind, ReadKind

\* A client gets its connection
LEMMA ConnectedShape ==
    ASSUME Calm, CalmInv, Types, NEW c \in Clients, Connected(c)
    PROVE  \E f \in Fds :
             /\ f \notin conns /\ NewConnection(f, Host[c]) /\ Fresh(c)
             /\ \A g \in Fds : link[g] # c /\ link'[g] = IF g = f THEN c ELSE link[g]
             /\ \A g \in Fds : toDaemon'[g] = IF g = f THEN << LI(acct[c]) >> ELSE toDaemon[g]
             /\ \A d \in Clients : toClient'[d] = IF d = c THEN << >> ELSE toClient[d]
             /\ issued'[f] = 0 /\ \A g \in Fds \ {f} : issued'[g] = issued[g]
             /\ seen'[c] = 0 /\ \A d \in Clients \ {c} : seen'[d] = seen[d]
             /\ tcp'[c] = "open" /\ \A d \in Clients \ {c} : tcp'[d] = tcp[d]
             /\ UNCHANGED << retry, reauth, acct, button, media, byes, left >>
             /\ \A g \in Fds \ {f} : UNCHANGED << sock[g], addr[g], zombie[g], age[g], uid[g], auth[g],
                                                  laddr[g], peer[g], cid[g], port[g] >>
             /\ conns' = conns \union {f} /\ sock'[f] /\ addr'[f] = Host[c] /\ ~zombie'[f]
             /\ age'[f] = 0 /\ uid'[f] = NoUid /\ ~auth'[f] /\ peer'[f] = NoFd
             /\ UNCHANGED << up, walk, reap >> /\ walk = {}
<1>1. PICK f \in Fds :
         /\ LowestFree(f) /\ NewConnection(f, Host[c])
         /\ link' = [link EXCEPT ![f] = c]
         /\ toDaemon' = [toDaemon EXCEPT ![f] = << LI(acct[c]) >>]
         /\ issued' = [issued EXCEPT ![f] = 0]
  BY DEF Connected
<1>2. f \notin conns
  BY <1>1 DEF CalmInv, SocketInv, LowestFree
<1>3. tcp[c] = "connecting"
  BY DEF Connected
<1>4. Fresh(c) /\ \A g \in Fds : link[g] # c
  BY <1>3 DEF CalmInv, ClientInv
<1>5. /\ link \in [Fds -> Clients \union {NoClient}] /\ toDaemon \in [Fds -> Seq(ToDaemon)]
      /\ issued \in [Fds -> Nat] /\ seen \in [Clients -> Nat]
      /\ toClient \in [Clients -> Seq(Message \union {Eof})]
      /\ tcp \in [Clients -> {"connecting", "open", "closed"}]
  BY DEF Types, ClientTypes, SocketTypes, QueuesOK
<1>6. /\ \A g \in Fds : link'[g] = IF g = f THEN c ELSE link[g]
      /\ \A g \in Fds : toDaemon'[g] = IF g = f THEN << LI(acct[c]) >> ELSE toDaemon[g]
      /\ issued'[f] = 0 /\ \A g \in Fds \ {f} : issued'[g] = issued[g]
  BY <1>1, <1>5
<1>7. /\ \A d \in Clients : toClient'[d] = IF d = c THEN << >> ELSE toClient[d]
      /\ seen'[c] = 0 /\ \A d \in Clients \ {c} : seen'[d] = seen[d]
      /\ tcp'[c] = "open" /\ \A d \in Clients \ {c} : tcp'[d] = tcp[d]
      /\ UNCHANGED << retry, reauth, acct, button, media, byes, left >>
  BY <1>5 DEF Connected
<1>8. /\ conns' = conns \union {f} /\ sock' = [sock EXCEPT ![f] = TRUE]
      /\ addr' = [addr EXCEPT ![f] = Host[c]] /\ zombie' = [zombie EXCEPT ![f] = FALSE]
      /\ age' = [age EXCEPT ![f] = 0] /\ Forget({f}) /\ Idle
      /\ UNCHANGED << up, walk, reap >>
  BY <1>1 DEF NewConnection, timeVars
<1>9. /\ \A g \in Fds \ {f} : UNCHANGED << sock[g], addr[g], zombie[g], age[g] >>
      /\ sock'[f] /\ addr'[f] = Host[c] /\ ~zombie'[f] /\ age'[f] = 0
  BY <1>8 DEF Types, TypeOK
<1>10. /\ \A g \in Fds \ {f} : UNCHANGED << uid[g], auth[g], laddr[g], peer[g], cid[g], port[g] >>
       /\ uid'[f] = NoUid /\ ~auth'[f] /\ peer'[f] = NoFd
  BY <1>8 DEF Forget, Cleared
<1>11. walk = {}
  BY <1>8 DEF Idle
<1>12. \A g \in Fds \ {f} : UNCHANGED << sock[g], addr[g], zombie[g], age[g], uid[g], auth[g],
                                         laddr[g], peer[g], cid[g], port[g] >>
  BY <1>9, <1>10
<1> WITNESS f \in Fds
<1> QED BY <1>1, <1>2, <1>4, <1>6, <1>7, <1>8, <1>9, <1>10, <1>11, <1>12

\* A new connection finds a descriptor that nobody is said to hold
LEMMA ConnectedCalm ==
    ASSUME Calm, CalmInv, Types, Types', NEW c \in Clients, Connected(c)
    PROVE  CalmInv'
<1>1. PICK f \in Fds :
             /\ f \notin conns /\ NewConnection(f, Host[c]) /\ Fresh(c)
             /\ \A g \in Fds : link[g] # c /\ link'[g] = IF g = f THEN c ELSE link[g]
             /\ \A g \in Fds : toDaemon'[g] = IF g = f THEN << LI(acct[c]) >> ELSE toDaemon[g]
             /\ \A d \in Clients : toClient'[d] = IF d = c THEN << >> ELSE toClient[d]
             /\ issued'[f] = 0 /\ \A g \in Fds \ {f} : issued'[g] = issued[g]
             /\ seen'[c] = 0 /\ \A d \in Clients \ {c} : seen'[d] = seen[d]
             /\ tcp'[c] = "open" /\ \A d \in Clients \ {c} : tcp'[d] = tcp[d]
             /\ UNCHANGED << retry, reauth, acct, button, media, byes, left >>
             /\ \A g \in Fds \ {f} : UNCHANGED << sock[g], addr[g], zombie[g], age[g], uid[g], auth[g],
                                                  laddr[g], peer[g], cid[g], port[g] >>
             /\ conns' = conns \union {f} /\ sock'[f] /\ addr'[f] = Host[c] /\ ~zombie'[f]
             /\ age'[f] = 0 /\ uid'[f] = NoUid /\ ~auth'[f] /\ peer'[f] = NoFd
             /\ UNCHANGED << up, walk, reap >> /\ walk = {}
  BY ConnectedShape
<1>2. conns \subseteq Fds /\ \A g \in conns : g # f /\ link[g] \in Clients \ {c}
  BY <1>1 DEF CalmInv, SocketInv, Types, TypeOK
<1>3. /\ LI(acct[c]) \in Commands /\ LI(acct[c]).cmd = "LI" /\ acct[c] \in Uids
      /\ LI(acct[c]).user = acct[c]
  BY CommandTypes, MessageCommands DEF Types, QueuesOK, LI
<1>4. SpentInv'
  BY <1>1 DEF CalmInv, SpentInv
<1>5. SocketInv'
  <2>1. \A g, h \in Fds : link'[g] = link'[h] /\ link'[g] # NoClient => g = h
    BY <1>1 DEF CalmInv, SocketInv
  <2>2. ASSUME NEW g \in Fds
        PROVE  IF g \in conns'
               THEN link'[g] \in Clients /\ sock'[g] /\ ~zombie'[g] /\ addr'[g] = Host[link'[g]]
               ELSE link'[g] = NoClient /\ ~sock'[g] /\ toDaemon'[g] = << >>
    <3>1. CASE g = f
      BY <1>1, <3>1
    <3>2. CASE g # f
      BY <1>1, <3>2 DEF CalmInv, SocketInv
    <3> QED BY <3>1, <3>2
  <2> QED BY <1>1, <2>1, <2>2 DEF CalmInv, SocketInv
<1>6. ClientInv'
  <2> SUFFICES ASSUME NEW d \in Clients
               PROVE  ~retry'[d] /\ IF \E g \in Fds : link'[g] = d THEN tcp'[d] = "open" ELSE Fresh(d)'
    BY DEF ClientInv
  <2>1. CASE d = c
    BY <1>1, <2>1 DEF CalmInv, ClientInv
  <2>2. CASE d # c
    <3>1. (\E g \in Fds : link'[g] = d) <=> \E g \in Fds : link[g] = d
      <4>1. link[f] = NoClient
        BY <1>1 DEF CalmInv, SocketInv
      <4> QED BY <1>1, <2>2, <4>1, ClientsAssumption
    <3> QED BY <1>1, <2>2, <3>1 DEF CalmInv, ClientInv, Fresh
  <2> QED BY <2>1, <2>2
<1>7. EofInv'
  <2>1. ~Has(<< LI(acct[c]) >>, {"EOF"}) /\ ~Has(<< >>, {"EOF"})
    <3>1. Has(<< LI(acct[c]) >>, {"EOF"}) <=> LI(acct[c]).cmd \in {"EOF"}
      BY <1>3, OneHas
    <3> QED BY <1>3, <3>1, NoneHas
  <2>2. ASSUME NEW g \in Fds PROVE ~Has(toDaemon'[g], {"EOF"})
    <3>1. CASE g = f
      <4>1. toDaemon'[g] = << LI(acct[c]) >>
        BY <1>1, <3>1
      <4> QED BY <2>1, <4>1
    <3>2. CASE g # f
      BY <1>1, <3>2 DEF CalmInv, EofInv
    <3> QED BY <3>1, <3>2
  <2>3. ASSUME NEW d \in Clients PROVE ~Has(toClient'[d], {"EOF"})
    BY <1>1, <2>1 DEF CalmInv, EofInv
  <2> QED BY <2>2, <2>3 DEF EofInv
<1>8. PeerInv'
  <2>1. ASSUME NEW g \in Fds, peer'[g] # NoFd
        PROVE  g \in conns' /\ peer'[g] \in conns' /\ uid'[g] # NoUid /\ uid'[peer'[g]] # NoUid
    <3>1. g # f /\ peer'[g] = peer[g]
      BY <1>1, <2>1
    <3>2. g \in conns /\ peer[g] \in conns /\ uid[g] # NoUid /\ uid[peer[g]] # NoUid
      BY <2>1, <3>1 DEF CalmInv, PeerInv
    <3>3. uid'[g] = uid[g] /\ uid'[peer[g]] = uid[peer[g]]
      BY <1>1, <1>2, <3>2
    <3> QED BY <1>1, <3>1, <3>2, <3>3
  <2> QED BY <2>1 DEF PeerInv
<1>9. LoginInv'
  <2>1. ASSUME NEW g \in conns
        PROVE  Tokens(g)' /\ Numbers(g)' /\ Phase(g)' /\ (uid'[g] # NoUid => laddr'[g] \in Addrs)
    <3> DEFINE e == link[g]
    <3>1. g \in Fds /\ e \in Clients \ {c} /\ link'[g] = e
          /\ toDaemon'[g] = toDaemon[g] /\ toClient'[e] = toClient[e]
          /\ seen'[e] = seen[e] /\ UNCHANGED << reauth, button, media, acct >>
          /\ issued'[g] = issued[g] /\ UNCHANGED << uid[g], auth[g], laddr[g] >>
      BY <1>1, <1>2
    <3>2. Tokens(g) /\ Numbers(g) /\ Phase(g) /\ (uid[g] # NoUid => laddr[g] \in Addrs)
      BY DEF CalmInv, LoginInv
    <3>3. Tokens(g)' /\ Numbers(g)'
      BY <3>1, <3>2, SelfSame, SameLogin
    <3>4. Phase(g)'
      BY <3>1, <3>2 DEF Phase, Greets, Challenged, Answers
    <3> QED BY <3>1, <3>2, <3>3, <3>4
  <2>2. /\ link'[f] = c /\ toDaemon'[f] = << LI(acct[c]) >> /\ toClient'[c] = << >>
        /\ UNCHANGED << reauth, button, media, acct >> /\ ~reauth[c] /\ ~button[c]
        /\ media[c] = NoMedia /\ issued'[f] = 0 /\ seen'[c] = 0
        /\ uid'[f] = NoUid /\ ~auth'[f]
    BY <1>1 DEF Fresh
  <2>3. /\ \A S : Once(<< LI(acct[c]) >>, S) /\ ~Has(<< >>, S) /\ Once(<< >>, S)
        /\ \A k : Holds(<< LI(acct[c]) >>, k) <=> k = LI(acct[c])
    BY <1>3, OneHas, NoneHas
  <2>4. Tokens(f)'
    BY <2>2, <2>3 DEF Tokens
  <2>5. Numbers(f)'
    <3>1. \A n \in Nat : PW(n).cmd = "PW"
      BY DEF PW
    <3>2. \A u \in Uids : LI(u).user = u
      BY DEF LI
    <3>3. \A n \in Nat : ~Holds(<< LI(acct[c]) >>, PW(n))
      BY <1>3, <2>3, <3>1
    <3>4. \A u \in Uids : Holds(<< LI(acct[c]) >>, LI(u)) => u = acct[c]
      BY <1>3, <2>3, <3>2
    <3> QED BY <2>2, <2>3, <3>3, <3>4 DEF Numbers
  <2>6. Phase(f)'
    BY <2>2 DEF Phase, Greets
  <2> QED BY <1>1, <2>1, <2>2, <2>4, <2>5, <2>6 DEF LoginInv
<1>10. PingInv'
  <2>1. ASSUME NEW g \in conns'
        PROVE  age'[g] = 0 \/ Has(toDaemon'[g], {"PG"}) \/ Has(toClient'[link'[g]], {"PG"})
    <3>1. CASE g = f
      BY <1>1, <3>1
    <3>2. CASE g # f
      <4>1. g \in conns /\ g \in Fds /\ link'[g] = link[g] /\ toDaemon'[g] = toDaemon[g]
            /\ toClient'[link[g]] = toClient[link[g]] /\ age'[g] = age[g]
        BY <1>1, <1>2, <3>2
      <4> QED BY <4>1 DEF CalmInv, PingInv
    <3> QED BY <3>1, <3>2
  <2> QED BY <1>1, <2>1 DEF PingInv
<1> QED BY <1>4, <1>5, <1>6, <1>7, <1>8, <1>9, <1>10 DEF CalmInv

\* A client's step keeps the invariant
LEMMA ActsCalm ==
    ASSUME Calm, CalmInv, Types, Types', NEW f \in conns, NEW msgs, NEW q,
           Acts(f, msgs, q), Kind(f, msgs, q)
    PROVE  CalmInv'
BY ActsSockets, ActsLogin, ActsPing DEF CalmInv

LEMMA ClientCalm ==
    ASSUME Calm, CalmInv, Types, Types', NEW c \in Clients, Client(c)
    PROVE  CalmInv'
<1>1. CASE Connected(c)
  BY <1>1, ConnectedCalm
<1>2. CASE ~Connected(c)
  <2>1. PICK f \in conns : link[f] = c
    BY <1>2, ClientConnected
  <2>2. \E msgs, q : Acts(f, msgs, q) /\ Kind(f, msgs, q)
    <3>1. CASE ClientReads(c)
      <4>1. ClientReads(link[f])
        BY <2>1, <3>1
      <4>2. toClient[c] # << >> /\ \E msgs : /\ Acts(f, msgs, Tail(toClient[c]))
                                             /\ ReadKind(f, Head(toClient[c]), msgs)
        BY <2>1, <4>1, ReadsActs
      <4> QED BY <2>1, <4>2 DEF Kind
    <3>2. CASE \/ Reauthenticates(c) \/ MediaTimeout(c) \/ HearsBye(c)
               \/ \E u \in Uids : Click(c, u)
      BY <2>1, <3>2, OthersAct
    <3> QED BY <1>2, <3>1, <3>2, ClientConnected
  <2> QED BY <2>2, ActsCalm
<1> QED BY <1>1, <1>2

\* The invariant says nothing of byes
LEMMA CalmUnchanged ==
    ASSUME CalmInv, UNCHANGED << vars, netVars, issued, tcp, retry, reauth, acct, seen,
                                 button, media, left >>
    PROVE  CalmInv'
<1>1. UNCHANGED << up, reap, conns, sock, addr, zombie, age, uid, auth, laddr, peer, walk,
                   link, toDaemon, toClient, issued, tcp, retry, reauth, acct, seen, button,
                   media, left >>
  BY DEF vars, sockVars, idVars, callVars, timeVars, netVars
<1>2. SpentInv' /\ SocketInv' /\ ClientInv' /\ EofInv' /\ PeerInv' /\ PingInv'
  BY <1>1 DEF CalmInv, SpentInv, SocketInv, ClientInv, Fresh, EofInv, PeerInv, PingInv
<1>3. LoginInv'
  BY <1>1 DEF CalmInv, LoginInv, Tokens, Numbers, Phase, Greets, Challenged, Answers
<1> QED BY <1>2, <1>3 DEF CalmInv

\* Every step keeps the invariant; it holds at the start
LEMMA CalmStep ==
    ASSUME Calm, CalmInv, Types, Types', [SystemNext]_systemVars
    PROVE  CalmInv'
<1>1. CASE Daemon
  BY <1>1, DaemonCalm
<1>2. CASE \E c \in Clients : Client(c)
  BY <1>2, ClientCalm
<1>3. CASE ByeIsLost
  BY <1>3, CalmUnchanged DEF ByeIsLost
<1>4. CASE UNCHANGED systemVars
  BY <1>4, CalmUnchanged DEF systemVars, clientVars
<1> QED BY <1>1, <1>2, <1>3, <1>4 DEF SystemNext, Rest

LEMMA CalmStart ==
    ASSUME Calm, SystemInit
    PROVE  CalmInv
<1>1. SpentInv
  BY DEF SpentInv, SystemInit, Calm
<1>2. SocketInv
  BY DEF SocketInv, SystemInit, Init
<1>3. ClientInv
  BY ClientsAssumption DEF ClientInv, Fresh, SystemInit
<1>4. EofInv
  BY NoneHas DEF EofInv, SystemInit
<1>5. PeerInv /\ LoginInv
  BY DEF PeerInv, LoginInv, SystemInit, Init
<1>6. PingInv
  BY DEF PingInv, SystemInit, Init
<1> QED BY <1>1, <1>2, <1>3, <1>4, <1>5, <1>6 DEF CalmInv

\* A connection stays as long as the system is calm, and a login over it goes round
\* once for each time the client's timer lets it: whatever the users call, hang up
\* and lose of their sound, nobody is refused or reaped.
THEOREM CalmSystem ==
    ASSUME Calm
    PROVE  SystemSpec => [](CalmInv /\ Types)
<1>1. Types /\ CalmInv /\ [SystemNext]_systemVars /\ Types' => CalmInv'
  BY CalmStep
<1>2. SystemInit => CalmInv
  BY CalmStart
<1>3. SystemSpec => []Types
  <2>1. TypeOK' /\ ClientTypes /\ [SystemNext]_systemVars => ClientTypes'
    BY ClientStep DEF TypeOK
  <2>2. QueuesOK /\ [SystemNext]_systemVars => QueuesOK'
    BY SystemStep
  <2> QED BY <2>1, <2>2, ClientInit, QueuesInit, SystemRunsTheDaemon, TypeCorrect, PTL
          DEF SystemSpec, Types
<1> QED BY <1>1, <1>2, <1>3, PTL DEF SystemSpec

-----------------------------------------------------------------------------
(***************************************************************************)
(* Streams.                                                                *)
(***************************************************************************)
AheadOf(f) == Ahead(media[link[f]], toClient[link[f]])

\* f's far end has left him by another call: the row of theirs that goes on is held by
\* nobody but it
Left(f) == \E r \in (1..nrows) \ ended : \A g \in Fds : cid[g] = r => g # f /\ peer[g] = f

\* A client no call is to is stopped, or will be; one in a call runs, or will, with the
\* ports the daemon has given to the two, unless it was left
StreamInv ==
    \A f \in conns :
        /\ peer[f] = NoFd => AheadOf(f) = {}
        /\ peer[f] # NoFd /\ peer[peer[f]] = f
             => AheadOf(f) \subseteq {<< port[f], port[peer[f]] >>} \/ Left(f)

\* Where calls stay as they are, so does who was left
LEMMA SameCalls ==
    ASSUME UNCHANGED << cid, peer, calls, ended >>, NEW f
    PROVE  Left(f)' <=> Left(f)
BY DEF Left, nrows

\* A step that leaves the calls alone and lets nothing more run
LEMMA StreamSame ==
    ASSUME StreamInv, UNCHANGED << callVars, calls, ended, conns >>,
           \A g \in conns : AheadOf(g)' \subseteq AheadOf(g)
    PROVE  StreamInv'
<1>1. UNCHANGED << cid, peer, port, calls, ended, conns >>
  BY DEF callVars
<1>2. \A f : Left(f)' <=> Left(f)
  BY <1>1, SameCalls
<1> QED BY <1>1, <1>2 DEF StreamInv

\* What is ahead of f after a step of the daemon
LEMMA AheadRelayed ==
    ASSUME CalmInv, Types, Types', NEW reads \in SUBSET conns, StaysOpen, Relay(reads),
           UNCHANGED media, NEW g \in conns
    PROVE  /\ g \in Fds /\ toClient[link[g]] \in Queue /\ out'[g] \in Queue
           /\ AheadOf(g)' = Ahead(media[link[g]], toClient[link[g]] \o out'[g])
           /\ ~Has(out'[g], {"ME", "MS"}) => AheadOf(g)' = AheadOf(g)
<1>1. g \in Fds /\ link[g] \in Clients /\ link' = link
      /\ toClient'[link[g]] = toClient[link[g]] \o out'[g]
  BY CalmRelay DEF CalmInv, SocketInv, Types, TypeOK
<1>2. toClient[link[g]] \in Queue /\ out'[g] \in Queue
  BY <1>1, Queues, QueuesNext
<1>3. AheadOf(g)' = Ahead(media[link[g]], toClient[link[g]] \o out'[g])
  <2>1. AheadOf(g)' = Ahead(media'[link'[g]], toClient'[link'[g]])
    BY DEF AheadOf, Ahead, MayRun
  <2> QED BY <1>1, <2>1
<1>4. ~Has(out'[g], {"ME", "MS"}) => AheadOf(g)' = AheadOf(g)
  BY <1>2, <1>3, AheadNeutral DEF AheadOf
<1> QED BY <1>1, <1>2, <1>3, <1>4

\* A call ends: both are stopped
LEMMA StreamHangUp ==
    ASSUME Calm, CalmInv, Types, Types', StreamInv, NEW f \in conns, StaysOpen, Relay({f}),
           UNCHANGED << media, calls >>, HangUp(f)
    PROVE  StreamInv'
<1>1. {f} \in SUBSET conns /\ conns' = conns /\ conns \subseteq Fds /\ f \in Fds
  BY DEF StaysOpen, Types, TypeOK
<1>2. \A g \in Fds : /\ peer'[g] = IF g \in {f, peer[f]} THEN NoFd ELSE peer[g]
                     /\ cid'[g] = IF g \in {f, peer[f]} THEN NoCid ELSE cid[g]
                     /\ port'[g] = IF g \in {f, peer[f]} THEN 0 ELSE port[g]
  BY DEF HangUp, Cleared, BothEnds
<1>3. ended' = ended \union RowEndedBy(f) /\ nrows' = nrows /\ out' = StopMedia(f, << >>)
  BY DEF HangUp, nrows
<1>4. peer \in [Fds -> Fds \union {NoFd}] /\ calls \in Seq(Uids \union {NoUid}) /\ nrows \in Nat
  BY DEF Types, TypeOK, nrows
<1>5. ASSUME NEW g \in conns, g \in {f, peer[f]} PROVE AheadOf(g)' = {}
  <2>1. /\ g \in Fds /\ toClient[link[g]] \in Queue /\ out'[g] \in Queue
        /\ AheadOf(g)' = Ahead(media[link[g]], toClient[link[g]] \o out'[g])
    BY <1>1, AheadRelayed
  <2>2. Has(out'[g], {"MS"}) /\ ~Has(out'[g], {"ME"})
    <3>1. Has(StopMedia(f, << >>)[g], {"MS"}) <=> g \in {f, peer[f]} /\ "MS" \in {"MS"}
      BY <1>1, <2>1, StopWrites
    <3>2. Has(StopMedia(f, << >>)[g], {"ME"}) <=> g \in {f, peer[f]} /\ "MS" \in {"ME"}
      BY <1>1, <2>1, StopWrites
    <3> QED BY <1>3, <1>5, <3>1, <3>2
  <2> QED BY <2>1, <2>2, AheadStopped
<1>6. ASSUME NEW g \in conns, g \notin {f, peer[f]} PROVE AheadOf(g)' = AheadOf(g)
  <2>1. g \in Fds /\ (~Has(out'[g], {"ME", "MS"}) => AheadOf(g)' = AheadOf(g))
    BY <1>1, AheadRelayed
  <2>2. out'[g] = << >>
    BY <1>1, <1>3, <1>6, <2>1, StopWrites
  <2> QED BY <2>1, <2>2, NoneHas
<1>7. ASSUME NEW g \in Fds, g \notin {f, peer[f]}, Left(g) PROVE Left(g)'
  <2>1. PICK r \in (1..nrows) \ ended : \A k \in Fds : cid[k] = r => k # g /\ peer[k] = g
    BY <1>7 DEF Left
  <2>2. r \notin RowEndedBy(f)
    <3>1. cid[f] = r => peer[f] = g
      BY <1>1, <2>1
    <3> QED BY <1>7, <3>1 DEF RowEndedBy
  <2>3. r # NoCid
    BY <1>4, <2>1 DEF NoCid
  <2>4. \A k \in Fds : cid'[k] = r => k # g /\ peer'[k] = g
    BY <1>2, <2>1, <2>3
  <2>5. r \in (1..nrows') \ ended'
    BY <1>3, <2>1, <2>2
  <2> QED BY <2>4, <2>5 DEF Left
<1>8. ASSUME NEW g \in conns, peer'[g] # NoFd, peer'[peer'[g]] = g
      PROVE  AheadOf(g)' \subseteq {<< port'[g], port'[peer'[g]] >>} \/ Left(g)'
  <2> DEFINE h == peer[g]
  <2>1. g \in Fds /\ g \notin {f, peer[f]} /\ peer'[g] = h /\ h \in Fds
    BY <1>1, <1>2, <1>4, <1>8
  <2>2. g # NoFd
    BY <2>1, FdsAssumption DEF NoFd
  <2>3. h \notin {f, peer[f]} /\ peer[h] = g /\ port'[h] = port[h] /\ port'[g] = port[g]
    BY <1>2, <1>8, <2>1, <2>2
  <2>4. AheadOf(g) \subseteq {<< port[g], port[h] >>} \/ Left(g)
    BY <1>8, <2>1, <2>3 DEF StreamInv
  <2> QED BY <1>6, <1>7, <2>1, <2>3, <2>4
<1>9. ASSUME NEW g \in conns, peer'[g] = NoFd PROVE AheadOf(g)' = {}
  BY <1>1, <1>2, <1>5, <1>6, <1>9 DEF StreamInv
<1> QED BY <1>1, <1>8, <1>9 DEF StreamInv

\* A call starts both its ends, and nobody else
LEMMA CallStarts ==
    ASSUME CalmInv, Types, Types', NEW f \in conns, NEW u \in Uids, NEW d \in Fds, StaysOpen,
           Relay({f}), UNCHANGED media, InitiateCall(f, u, d), NEW g \in conns
    PROVE  /\ g \notin {f, d} => AheadOf(g)' = AheadOf(g)
           /\ g \in {f, d} =>
                /\ AheadOf(g)' \subseteq AheadOf(g) \union {<< port'[g], port'[peer'[g]] >>}
                /\ AheadOf(g)' # {}
<1>1. {f} \in SUBSET conns /\ conns \subseteq Fds /\ f \in Fds
  BY DEF Types, TypeOK
<1>2. ASSUME g \notin {f, d} PROVE AheadOf(g)' = AheadOf(g)
  <2>1. g \in Fds /\ (~Has(out'[g], {"ME", "MS"}) => AheadOf(g)' = AheadOf(g))
    BY <1>1, AheadRelayed
  <2>2. out'[g] = << >>
    BY <1>1, <1>2, <2>1, CallWrites
  <2> QED BY <2>1, <2>2, NoneHas
<1>3. ASSUME g \in {f, d}
      PROVE  /\ AheadOf(g)' \subseteq AheadOf(g) \union {<< port'[g], port'[peer'[g]] >>}
             /\ AheadOf(g)' # {}
  <2>1. /\ g \in Fds /\ toClient[link[g]] \in Queue /\ out'[g] \in Queue
        /\ AheadOf(g)' = Ahead(media[link[g]], toClient[link[g]] \o out'[g])
    BY <1>1, AheadRelayed
  <2>2. /\ Has(out'[g], {"ME"}) /\ ~Has(out'[g], {"MS"})
        /\ port'[g] \in Ports /\ port'[peer'[g]] \in Ports
        /\ \A i \in DOMAIN out'[g] : out'[g][i].cmd = "ME" =>
              out'[g][i].src = port'[g] /\ out'[g][i].dst = port'[peer'[g]]
    <3>1. /\ Has(out'[g], {"ME"}) <=> g \in {f, d}
          /\ ~Has(out'[g], {"LI", "OK", "MS", "PG", "EOF"})
          /\ \A i \in DOMAIN out'[g] : out'[g][i].cmd = "ME" =>
                out'[g][i].src = port'[g] /\ out'[g][i].dst = port'[peer'[g]]
          /\ g \in {f, d} => port'[g] \in Ports /\ port'[peer'[g]] \in Ports
      BY <1>1, <2>1, CallWrites
    <3>2. ~Has(out'[g], {"MS"})
      BY <3>1 DEF Has
    <3> QED BY <1>3, <3>1, <3>2
  <2>3. /\ Ahead(media[link[g]], toClient[link[g]] \o out'[g])
              \subseteq AheadOf(g) \union {<< port'[g], port'[peer'[g]] >>}
        /\ << port'[g], port'[peer'[g]] >> \in Ahead(media[link[g]], toClient[link[g]] \o out'[g])
    BY <2>1, <2>2, AheadStarted DEF AheadOf
  <2> QED BY <2>1, <2>3
<1> QED BY <1>2, <1>3

\* A call begins: both are started.  Who calls out of a call leaves his far end
LEMMA StreamCall ==
    ASSUME Calm, CalmInv, Types, Types', CallInv, StreamInv, NEW f \in conns, NEW u \in Uids,
           NEW d \in Fds, StaysOpen, Relay({f}), UNCHANGED media, InitiateCall(f, u, d)
    PROVE  StreamInv'
<1>1. {f} \in SUBSET conns /\ conns' = conns /\ conns \subseteq Fds /\ f \in Fds /\ d \in conns
      /\ peer[d] = NoFd
  BY DEF StaysOpen, Types, TypeOK, InitiateCall, IsConnectionOf
<1>2. PICK p \in Ports, q \in Ports : port' = [port EXCEPT ![f] = p, ![d] = q]
  BY DEF InitiateCall
<1>3. cid' = [cid EXCEPT ![f] = nrows + 1, ![d] = nrows + 1]
  BY DEF InitiateCall, LatestRow, Calm
<1>4. /\ peer \in [Fds -> Fds \union {NoFd}] /\ calls \in Seq(Uids \union {NoUid}) /\ nrows \in Nat
      /\ cid \in [Fds -> Nat \union {NoCid}] /\ port \in [Fds -> Ports \union {0}]
  BY DEF Types, TypeOK, nrows
<1>5. \A g \in Fds : /\ peer'[g] = IF g = d THEN f ELSE IF g = f THEN d ELSE peer[g]
                     /\ cid'[g] = IF g \in {f, d} THEN nrows + 1 ELSE cid[g]
                     /\ g \notin {f, d} => port'[g] = port[g]
  BY <1>2, <1>3, <1>4 DEF InitiateCall
<1>6. nrows' = nrows + 1 /\ ended' = ended
  BY <1>4 DEF InitiateCall, nrows
<1>7. ASSUME NEW g \in conns, g \notin {f, d} PROVE AheadOf(g)' = AheadOf(g)
  BY <1>7, CallStarts
<1>8. ASSUME NEW g \in conns, g \in {f, d}
      PROVE  AheadOf(g)' \subseteq AheadOf(g) \union {<< port'[g], port'[peer'[g]] >>}
  BY <1>8, CallStarts
<1>9. ASSUME NEW g \in Fds, Left(g) PROVE Left(g)'
  <2>1. PICK r \in (1..nrows) \ ended : \A k \in Fds : cid[k] = r => k # g /\ peer[k] = g
    BY <1>9 DEF Left
  <2>2. \A k \in Fds : cid'[k] = r => k \notin {f, d} /\ cid[k] = r
    BY <1>4, <1>5, <2>1
  <2>3. r \in (1..nrows') \ ended'
    BY <1>4, <1>6, <2>1
  <2> QED BY <1>5, <2>1, <2>2, <2>3 DEF Left
<1>10. ASSUME peer[f] # NoFd PROVE Left(f)'
  <2> DEFINE r == cid[f]
  <2>1. r # NoCid /\ r \in (1..nrows) \ ended
    BY <1>1, <1>10 DEF CallInv, CallFieldsAgree, HeldRowIsOpen, Calm
  <2>2. ASSUME NEW k \in Fds, cid'[k] = r PROVE k # f /\ peer'[k] = f
    <3>1. k \notin {f, d} /\ cid[k] = r
      BY <1>4, <1>5, <2>1, <2>2
    <3>2. peer[k] = f
      BY <1>1, <2>1, <3>1 DEF CallInv, RowSharedByFarEnds, Calm
    <3> QED BY <1>5, <3>1, <3>2
  <2>3. r \in (1..nrows') \ ended'
    BY <1>4, <1>6, <2>1
  <2> QED BY <2>2, <2>3 DEF Left
<1>11. ASSUME NEW g \in conns, peer'[g] # NoFd, peer'[peer'[g]] = g
       PROVE  AheadOf(g)' \subseteq {<< port'[g], port'[peer'[g]] >>} \/ Left(g)'
  <2>1. CASE g = d
    <3>1. AheadOf(d) = {}
      BY <1>1 DEF StreamInv
    <3> QED BY <1>8, <2>1, <3>1
  <2>2. CASE g = f /\ g # d
    <3>1. CASE peer[f] = NoFd
      <4>1. AheadOf(f) = {}
        BY <3>1 DEF StreamInv
      <4> QED BY <1>8, <2>2, <4>1
    <3>2. CASE peer[f] # NoFd
      BY <1>10, <2>2, <3>2
    <3> QED BY <3>1, <3>2
  <2>3. CASE g \notin {f, d}
    <3> DEFINE h == peer[g]
    <3>1. g \in Fds /\ peer'[g] = h /\ h \in Fds
      BY <1>1, <1>4, <1>5, <1>11, <2>3
    <3>2. h \notin {f, d} /\ peer[h] = g /\ port'[h] = port[h] /\ port'[g] = port[g]
      BY <1>5, <1>11, <2>3, <3>1
    <3>3. AheadOf(g) \subseteq {<< port[g], port[h] >>} \/ Left(g)
      BY <1>11, <3>1, <3>2 DEF StreamInv
    <3> QED BY <1>7, <1>9, <2>3, <3>1, <3>2, <3>3
  <2> QED BY <2>1, <2>2, <2>3
<1>12. ASSUME NEW g \in conns, peer'[g] = NoFd PROVE AheadOf(g)' = {}
  <2>1. f # NoFd /\ d # NoFd
    BY <1>1, FdsAssumption DEF NoFd
  <2>2. g \notin {f, d} /\ peer[g] = NoFd
    BY <1>1, <1>5, <1>12, <2>1
  <2> QED BY <1>7, <2>2 DEF StreamInv
<1> QED BY <1>1, <1>11, <1>12 DEF StreamInv

\* The daemon reads a command: only CA and BY start or stop
LEMMA StreamReads ==
    ASSUME Calm, CalmInv, Types, Types', CallInv, StreamInv, NEW f \in Fds, DaemonReads(f)
    PROVE  StreamInv'
<1> DEFINE m == Head(toDaemon[f])
<1>1. /\ f \in conns /\ m \in ToDaemon /\ Serves(f, m) /\ {f} \in SUBSET conns /\ conns \subseteq Fds
  BY CalmServes DEF CalmInv, SocketInv, Types, TypeOK
<1>2. ReadShape(f, m) /\ Relay({f}) /\ UNCHANGED << clientVars, left >>
  BY ReadsShape DEF DaemonReads
<1>3. StaysOpen /\ UNCHANGED << media, conns >>
  BY <1>2 DEF ReadShape, StaysOpen, clientVars
<1> HIDE DEF m
<1>4. ASSUME UNCHANGED << callVars, calls, ended >>, \A g \in conns : ~Has(out'[g], {"ME", "MS"})
      PROVE  StreamInv'
  <2>1. \A g \in conns : AheadOf(g)' = AheadOf(g)
    BY <1>1, <1>2, <1>3, <1>4, AheadRelayed
  <2> QED BY <1>3, <1>4, <2>1, StreamSame
<1>5. ASSUME NEW d \in Fds, NEW w \in Commands, w.cmd \notin {"ME", "MS"}, out' = Tell(d, << w >>)
      PROVE  \A g \in conns : ~Has(out'[g], {"ME", "MS"})
  BY <1>1, <1>5, TellWrites
<1>6. /\ Plain("LI") \in Commands /\ Plain("OK") \in Commands /\ m \in Commands
      /\ \A code \in {12, 13} : ER(code) \in Commands
  <2>1. {12, 13} \subseteq ResponseCode
    BY DEF ResponseCode
  <2> QED BY <1>1, <2>1, MessageTypes, MessageCommands
<1>7. Plain("LI").cmd = "LI" /\ Plain("OK").cmd = "OK" /\ \A code : ER(code).cmd = "ER"
  BY DEF Plain, ER
<1>8. CASE m.cmd = "LI" /\ \E a \in Addrs : Login(f, m.user, a)
  <2>1. out' = Tell(f, << Plain("LI") >>) /\ UNCHANGED << callVars, calls, ended >>
    BY <1>8 DEF Login, dbVars
  <2> QED BY <1>4, <1>5, <1>6, <1>7, <2>1
<1>9. CASE m.cmd = "PW" /\ Admits(f)
  <2>1. out' = Tell(f, << Plain("OK") >>) /\ UNCHANGED << callVars, calls, ended >>
    BY <1>9 DEF Admits
  <2> QED BY <1>4, <1>5, <1>6, <1>7, <2>1
<1>10. CASE m.cmd = "CA" /\ Refuses(f)
  <2>1. PICK code \in {12, 13} : out' = Tell(f, << ER(code) >>)
    BY <1>10 DEF Refuses
  <2>2. UNCHANGED << callVars, calls, ended >>
    BY <1>10 DEF Refuses, dbVars
  <2> QED BY <1>4, <1>5, <1>6, <1>7, <2>1, <2>2
<1>11. CASE m.cmd = "CA" /\ \E d \in Fds : InitiateCall(f, m.user, d)
  <2>1. m.user \in Uids
    BY <1>1, <1>11, CommandFields
  <2> QED BY <1>1, <1>2, <1>3, <1>11, <2>1, StreamCall
<1>12. CASE m.cmd = "BY" /\ EndsCall(f)
  BY <1>1, <1>2, <1>3, <1>12, StreamHangUp DEF EndsCall
<1>13. CASE m.cmd = "ER" /\ Forwards(f, m)
  <2>1. UNCHANGED << callVars, calls, ended >>
    BY <1>13 DEF Forwards, dbVars
  <2>2. CASE peer[f] = NoFd
    <3>1. out' = Silence
      BY <1>13, <2>2 DEF Forwards
    <3> QED BY <1>1, <1>4, <2>1, <3>1, SilenceWrites
  <2>3. CASE peer[f] # NoFd
    <3>1. out' = Tell(peer[f], << m >>)
      BY <1>13, <2>3 DEF Forwards
    <3>2. peer[f] \in Fds
      BY <1>1, <2>3 DEF Types, TypeOK
    <3> QED BY <1>4, <1>5, <1>6, <1>13, <2>1, <3>1, <3>2
  <2> QED BY <2>2, <2>3
<1>14. CASE m.cmd = "PG" /\ UpdatePing(f)
  <2>1. UNCHANGED << callVars, calls, ended >> /\ out' = Silence
    BY <1>14 DEF UpdatePing, dbVars
  <2> QED BY <1>1, <1>4, <2>1, SilenceWrites
<1> QED BY <1>1, <1>8, <1>9, <1>10, <1>11, <1>12, <1>13, <1>14 DEF Serves

\* ... and its other steps start and stop nothing
LEMMA StreamDaemon ==
    ASSUME Calm, CalmInv, Types, Types', CallInv, StreamInv, Daemon
    PROVE  StreamInv'
<1>1. CASE \E f \in Fds : DaemonReads(f)
  BY <1>1, StreamReads
<1>2. ASSUME StaysOpen, UNCHANGED << callVars, dbVars, clientVars >>, Relay({}),
             \A g \in Fds : ~Has(out'[g], {"ME", "MS"})
      PROVE  StreamInv'
  <2>1. UNCHANGED << media, conns >> /\ {} \in SUBSET conns /\ conns \subseteq Fds
    BY <1>2 DEF StaysOpen, clientVars, Types, TypeOK
  <2>2. \A g \in conns : AheadOf(g)' = AheadOf(g)
    BY <1>2, <2>1, AheadRelayed
  <2> QED BY <1>2, <2>1, <2>2, StreamSame DEF dbVars
<1>3. CASE DaemonPings
  <2>1. /\ StaysOpen /\ UNCHANGED << callVars, dbVars, clientVars >> /\ Relay({})
        /\ \A g \in Fds : out'[g] = << >>
    BY <1>3, PingsCalm
  <2> QED BY <1>2, <2>1, NoneHas
<1>4. ASSUME NEW f \in Fds, DaemonVisits(f) PROVE StreamInv'
  <2>1. /\ StaysOpen /\ UNCHANGED << callVars, dbVars, clientVars >> /\ Relay({})
        /\ out' = Tell(f, << Plain("PG") >>)
    BY <1>4, VisitsCalm
  <2>2. Plain("PG") \in Commands /\ Plain("PG").cmd = "PG"
    BY MessageTypes, MessageCommands DEF Plain
  <2> QED BY <1>2, <2>1, <2>2, TellWrites
<1> QED BY <1>1, <1>3, <1>4, DaemonCalm

\* What reading its command m does to a client's codec
LEMMA ReadsMedia ==
    ASSUME Types, NEW c \in Clients, ClientReads(c), NEW m, m = Head(toClient[c])
    PROVE  /\ m.cmd = "MS" => media'[c] = NoMedia
           /\ m.cmd = "ME" =>
                \/ media' = media
                \/ media[c] = NoMedia /\ media'[c] = [src |-> m.src, to |-> m.to, dst |-> m.dst]
           /\ m.cmd \notin {"ME", "MS"} =>
                \/ media' = media /\ apart \subseteq apart'
                \/ media'[c] = NoMedia /\ Send(c, << Plain("BY") >>)
           /\ m.cmd = "ME" /\ media'[c] = NoMedia => c \in apart'
<1>1. /\ Challenge(c, m) \/ LoginOk(c, m) \/ Response(c, m) \/ MediaStart(c, m)
         \/ MediaStop(c, m) \/ Ping(c, m) \/ ConnectionLost(c, m)
  BY DEF ClientReads
<1>2. \A others : StopsMedia(c, others) => media'[c] = NoMedia
  BY StopsOthers
<1>3. media \in [Clients -> Media \union {NoMedia}]
  BY DEF Types, ClientTypes, MediaTypes
<1>4. m.cmd = "MS" => media'[c] = NoMedia
  BY <1>1, <1>2 DEF Challenge, LoginOk, Response, MediaStart, MediaStop, Ping, ConnectionLost
<1>5. ASSUME m.cmd = "ME"
      PROVE  /\ \/ media' = media
                \/ media[c] = NoMedia /\ media'[c] = [src |-> m.src, to |-> m.to, dst |-> m.dst]
             /\ media'[c] = NoMedia => c \in apart'
  <2>1. MediaStart(c, m)
    BY <1>1, <1>5 DEF Challenge, LoginOk, Response, MediaStop, Ping, ConnectionLost
  <2> QED BY <1>3, <2>1 DEF MediaStart, Spend
<1>6. ASSUME m.cmd \notin {"ME", "MS"}
      PROVE  \/ media' = media /\ apart \subseteq apart'
             \/ media'[c] = NoMedia /\ Send(c, << Plain("BY") >>)
  BY <1>1, <1>2, <1>6 DEF Challenge, LoginOk, Response, MediaStart, MediaStop, Ping, ConnectionLost
<1> QED BY <1>4, <1>5, <1>6

\* A step of a client starts nothing that was not ahead of it, nor anything of another's
LEMMA ClientStream ==
    ASSUME Calm, CalmInv, Types, Types', NEW f \in conns, Client(link[f])
    PROVE  /\ UNCHANGED << vars, link >>
           /\ AheadOf(f)' \subseteq AheadOf(f)
           /\ \A g \in conns \ {f} : AheadOf(g)' = AheadOf(g)
<1> DEFINE c == link[f]
           q == toClient[c]
<1>1. f \in Fds /\ c \in Clients /\ q \in Queue
  BY Queues DEF CalmInv, SocketInv, Types, TypeOK
<1>2. ~Connected(c)
  <2>1. tcp[c] = "open"
    BY <1>1 DEF CalmInv, ClientInv
  <2> QED BY <2>1 DEF Connected
<1>3. /\ \/ Reauthenticates(c) \/ ClientReads(c) \/ MediaTimeout(c) \/ HearsBye(c)
         \/ \E u \in Uids : Click(c, u)
  BY <1>1, <1>2, ClientConnected
<1>4. \A g : AheadOf(g)' = Ahead(media'[link'[g]], toClient'[link'[g]])
  BY DEF AheadOf, Ahead, MayRun
<1>5. ASSUME NEW msgs, NEW r, Acts(f, msgs, r)
      PROVE  /\ UNCHANGED << vars, link >>
             /\ AheadOf(f)' = Ahead(media'[c], r)
             /\ \A g \in conns \ {f} : AheadOf(g)' = AheadOf(g)
  <2>1. /\ link' = link /\ toClient'[c] = r
        /\ \A d \in Clients \ {c} : toClient'[d] = toClient[d]
        /\ \A g \in conns \ {f} : link[g] \in Clients \ {c}
    BY <1>5, ActsElsewhere
  <2>2. UNCHANGED vars /\ \A d \in Clients \ {c} : media'[d] = media[d]
    BY <1>5 DEF Acts
  <2>3. \A g \in conns \ {f} : AheadOf(g)' = AheadOf(g)
    BY <1>4, <2>1, <2>2 DEF AheadOf
  <2> QED BY <1>4, <2>1, <2>2, <2>3
<1>6. CASE ClientReads(c)
  <2> DEFINE m == Head(q)
  <2>1. q # << >> /\ \E msgs : Acts(f, msgs, Tail(q))
    BY <1>6, ReadsActs
  <2>2. AheadOf(f)' = Ahead(media'[c], Tail(q)) /\ AheadOf(f) = Ahead(media[c], q)
    BY <1>5, <2>1 DEF AheadOf
  <2>3. CASE m.cmd = "MS"
    <3>1. media'[c] = NoMedia
      BY <1>1, <1>6, <2>3, ReadsMedia
    <3>2. Ahead(NoMedia, Tail(q)) = Ahead(media[c], q)
      BY <1>1, <2>1, <2>3, AheadReads
    <3> QED BY <1>5, <2>1, <2>2, <3>1, <3>2
  <2>4. CASE m.cmd = "ME"
    <3>1. CASE media' = media
      <4>1. Ahead(media[c], Tail(q)) \subseteq Ahead(media[c], q)
        BY <1>1, <2>1, <2>4, AheadReads
      <4> QED BY <1>5, <2>1, <2>2, <3>1, <4>1
    <3>2. CASE media[c] = NoMedia /\ media'[c] = [src |-> m.src, to |-> m.to, dst |-> m.dst]
      <4>1. CASE media'[c] = NoMedia
        <5>1. Ahead(NoMedia, Tail(q)) \subseteq Ahead(NoMedia, q)
          BY <1>1, <2>1, <2>4, AheadReads
        <5> QED BY <1>5, <2>1, <2>2, <3>2, <4>1, <5>1
      <4>2. CASE media'[c] # NoMedia
        <5>1. media'[c].src = m.src /\ media'[c].dst = m.dst
          BY <3>2
        <5>2. Ahead(media'[c], Tail(q)) \subseteq Ahead(NoMedia, q)
          BY <1>1, <2>1, <2>4, <4>2, <5>1, AheadObeys
        <5> QED BY <1>5, <2>1, <2>2, <3>2, <5>2
      <4> QED BY <4>1, <4>2
    <3> QED BY <1>1, <1>6, <2>4, <3>1, <3>2, ReadsMedia
  <2>5. CASE m.cmd \notin {"ME", "MS"}
    <3>1. media'[c] = media[c] \/ media'[c] = NoMedia
      BY <1>1, <1>6, <2>5, ReadsMedia
    <3>2. Ahead(media[c], Tail(q)) = Ahead(media[c], q)
      BY <1>1, <2>1, <2>5, AheadReads
    <3>3. Ahead(NoMedia, Tail(q)) \subseteq Ahead(media[c], Tail(q))
      BY AheadDrops
    <3> QED BY <1>5, <2>1, <2>2, <3>1, <3>2, <3>3
  <2> QED BY <2>3, <2>4, <2>5
<1>7. CASE Reauthenticates(c) \/ \E u \in Uids : Click(c, u)
  <2>1. media' = media /\ \E msgs : Acts(f, msgs, q)
    BY <1>7, OthersAct
  <2>2. AheadOf(f)' = AheadOf(f)
    BY <1>5, <2>1 DEF AheadOf
  <2> QED BY <1>5, <2>1, <2>2
<1>8. CASE MediaTimeout(c) \/ HearsBye(c)
  <2>1. media'[c] = NoMedia /\ \E msgs : Acts(f, msgs, q)
    BY <1>8, OthersAct
  <2>2. AheadOf(f)' \subseteq AheadOf(f)
    BY <1>5, <2>1, AheadDrops DEF AheadOf
  <2> QED BY <1>5, <2>1, <2>2
<1> QED BY <1>3, <1>6, <1>7, <1>8

\* A client that gets its connection is in no call and runs nothing
LEMMA ConnectedStream ==
    ASSUME Calm, CalmInv, Types, NEW c \in Clients, Connected(c)
    PROVE  \E f \in Fds :
             /\ f \notin conns /\ conns' = conns \union {f} /\ conns \subseteq Fds
             /\ peer'[f] = NoFd /\ cid'[f] = NoCid /\ AheadOf(f)' = {}
             /\ \A g \in Fds \ {f} : UNCHANGED << peer[g], cid[g], port[g] >>
             /\ \A g \in conns : AheadOf(g)' = AheadOf(g)
             /\ UNCHANGED << calls, ended, left, media >>
             /\ \A g \in Fds : toDaemon'[g] = IF g = f THEN << LI(acct[c]) >> ELSE toDaemon[g]
             /\ \A d \in Clients : toClient'[d] = IF d = c THEN << >> ELSE toClient[d]
<1>1. PICK f \in Fds :
             /\ f \notin conns /\ NewConnection(f, Host[c]) /\ Fresh(c)
             /\ \A g \in Fds : link[g] # c /\ link'[g] = IF g = f THEN c ELSE link[g]
             /\ \A g \in Fds : toDaemon'[g] = IF g = f THEN << LI(acct[c]) >> ELSE toDaemon[g]
             /\ \A d \in Clients : toClient'[d] = IF d = c THEN << >> ELSE toClient[d]
             /\ UNCHANGED << retry, reauth, acct, button, media, byes, left >>
             /\ \A g \in Fds \ {f} : UNCHANGED << sock[g], addr[g], zombie[g], age[g], uid[g], auth[g],
                                                  laddr[g], peer[g], cid[g], port[g] >>
             /\ conns' = conns \union {f} /\ peer'[f] = NoFd
  BY ConnectedShape
<1>2. conns \subseteq Fds /\ \A g \in conns : g # f /\ link[g] \in Clients \ {c}
  BY <1>1 DEF CalmInv, SocketInv, Types, TypeOK
<1>3. cid'[f] = NoCid /\ UNCHANGED << calls, ended >>
  BY <1>1 DEF NewConnection, Forget, Cleared, dbVars
<1>4. \A g : AheadOf(g)' = Ahead(media'[link'[g]], toClient'[link'[g]])
  BY DEF AheadOf, Ahead, MayRun
<1>5. AheadOf(f)' = {}
  <2>1. link'[f] = c /\ toClient'[c] = << >> /\ media'[c] = NoMedia
    BY <1>1 DEF Fresh
  <2> QED BY <1>4, <2>1, AheadNothing
<1>6. \A g \in conns : AheadOf(g)' = AheadOf(g)
  <2> SUFFICES ASSUME NEW g \in conns PROVE AheadOf(g)' = AheadOf(g)
    OBVIOUS
  <2>1. link'[g] = link[g] /\ toClient'[link[g]] = toClient[link[g]] /\ media' = media
    BY <1>1, <1>2
  <2> QED BY <1>4, <2>1 DEF AheadOf
<1> WITNESS f \in Fds
<1> QED BY <1>1, <1>2, <1>3, <1>5, <1>6

\* Every step keeps the invariant; it holds at the start
LEMMA StreamStep ==
    ASSUME Calm, CalmInv, Types, Types', CallInv, StreamInv, [SystemNext]_systemVars
    PROVE  StreamInv'
<1>1. CASE Daemon
  BY <1>1, StreamDaemon
<1>2. ASSUME NEW c \in Clients, Connected(c) PROVE StreamInv'
  <2>1. PICK f \in Fds :
             /\ f \notin conns /\ conns' = conns \union {f} /\ conns \subseteq Fds
             /\ peer'[f] = NoFd /\ cid'[f] = NoCid /\ AheadOf(f)' = {}
             /\ \A g \in Fds \ {f} : UNCHANGED << peer[g], cid[g], port[g] >>
             /\ \A g \in conns : AheadOf(g)' = AheadOf(g)
             /\ UNCHANGED << calls, ended >>
    BY <1>2, ConnectedStream
  <2>2. ASSUME NEW g \in conns, Left(g) PROVE Left(g)'
    <3>1. PICK r \in (1..nrows) \ ended : \A k \in Fds : cid[k] = r => k # g /\ peer[k] = g
      BY <2>2 DEF Left
    <3>2. r # NoCid
      BY <3>1 DEF NoCid, nrows, Types, TypeOK
    <3>3. \A k \in Fds : cid'[k] = r => k # g /\ peer'[k] = g
      BY <2>1, <3>1, <3>2
    <3>4. r \in (1..nrows') \ ended'
      BY <2>1, <3>1 DEF nrows
    <3> QED BY <3>3, <3>4 DEF Left
  <2>3. ASSUME NEW g \in conns', peer'[g] = NoFd PROVE AheadOf(g)' = {}
    BY <2>1, <2>3 DEF StreamInv
  <2>4. ASSUME NEW g \in conns', peer'[g] # NoFd, peer'[peer'[g]] = g
        PROVE  AheadOf(g)' \subseteq {<< port'[g], port'[peer'[g]] >>} \/ Left(g)'
    <3>1. g \in conns /\ g \in Fds \ {f} /\ peer'[g] = peer[g]
      BY <2>1, <2>4
    <3>2. peer[g] \in conns
      BY <2>4, <3>1 DEF CalmInv, PeerInv
    <3>3. peer[g] \in Fds \ {f}
      BY <2>1, <3>2
    <3>4. AheadOf(g) \subseteq {<< port[g], port[peer[g]] >>} \/ Left(g)
      BY <2>1, <2>4, <3>1, <3>3 DEF StreamInv
    <3> QED BY <2>1, <2>2, <3>1, <3>3, <3>4
  <2> QED BY <2>3, <2>4 DEF StreamInv
<1>3. ASSUME NEW c \in Clients, Client(c), ~Connected(c) PROVE StreamInv'
  <2>1. PICK f \in conns : link[f] = c
    BY <1>3, ClientConnected
  <2>2. /\ UNCHANGED << vars, link >>
        /\ AheadOf(f)' \subseteq AheadOf(f)
        /\ \A g \in conns \ {f} : AheadOf(g)' = AheadOf(g)
    BY <1>3, <2>1, ClientStream
  <2>3. UNCHANGED << callVars, calls, ended, conns >>
    BY <2>2 DEF vars, dbVars, sockVars
  <2> QED BY <2>2, <2>3, StreamSame
<1>4. ASSUME UNCHANGED << vars, netVars, media >> PROVE StreamInv'
  <2>1. UNCHANGED << callVars, calls, ended, conns, link, toClient, media >>
    BY <1>4 DEF vars, dbVars, sockVars, netVars
  <2>2. \A g \in conns : AheadOf(g)' = AheadOf(g)
    BY <2>1 DEF AheadOf, Ahead, MayRun
  <2> QED BY <2>1, <2>2, StreamSame
<1>5. CASE ByeIsLost
  BY <1>4, <1>5 DEF ByeIsLost
<1>6. CASE UNCHANGED systemVars
  BY <1>4, <1>6 DEF systemVars, clientVars
<1> QED BY <1>1, <1>2, <1>3, <1>5, <1>6 DEF SystemNext, Rest

LEMMA StreamStart ==
    ASSUME SystemInit
    PROVE  StreamInv
BY DEF StreamInv, SystemInit, Init

\* What the runs check of the states in which nothing is on its way
LEMMA QuietStreams ==
    ASSUME CalmInv, Types, Quiet, NEW f \in Fds, link[f] # NoClient, media[link[f]] # NoMedia
    PROVE  /\ f \in conns
           /\ AheadOf(f) = {<< media[link[f]].src, media[link[f]].dst >>}
<1>1. f \in conns /\ link[f] \in Clients
  BY DEF CalmInv, SocketInv
<1>2. toClient[link[f]] = << >> /\ media[link[f]] \in Media
  BY <1>1 DEF Quiet, Types, ClientTypes, MediaTypes
<1> QED BY <1>1, <1>2, AheadNow DEF AheadOf

\* An open row that two hold is held by a session and its far end
LEMMA RowsHeld ==
    ASSUME Calm, CallInv, NoneOverrun, NEW r \in (1..nrows) \ ended
    PROVE  \E g, h \in Fds : /\ g # h /\ cid[g] = r /\ cid[h] = r
                             /\ peer[g] = h /\ peer[h] = g
<1>1. PICK g, h \in Fds : g # h /\ cid[g] = r /\ cid[h] = r
  BY DEF NoneOverrun
<1>2. cid[g] # NoCid
  BY <1>1 DEF CallInv, RowsExist, NoCid, nrows
<1> QED BY <1>1, <1>2 DEF CallInv, RowSharedByFarEnds, Calm

\* In a quiet state what is ahead of a client is what it runs
LEMMA NobodyStreams ==
    ASSUME Calm, CalmInv, Types, CallInv, StreamInv
    PROVE  NobodyLeftStreaming
<1> SUFFICES ASSUME Quiet, NoneOverrun, NEW f \in Fds, link[f] # NoClient,
                    media[link[f]] # NoMedia
             PROVE  peer[f] # NoFd /\ peer[peer[f]] = f
  BY DEF NobodyLeftStreaming
<1>1. f \in conns /\ AheadOf(f) # {}
  BY QuietStreams
<1>2. peer[f] # NoFd
  BY <1>1 DEF StreamInv
<1>3. cid[f] # NoCid /\ cid[f] \in (1..nrows) \ ended
  BY <1>2 DEF CallInv, CallFieldsAgree, HeldRowIsOpen, Calm
<1>4. PICK g, h \in Fds : g # h /\ cid[g] = cid[f] /\ cid[h] = cid[f]
  BY <1>3, RowsHeld
<1>5. PICK k \in Fds : k # f /\ cid[k] = cid[f]
  BY <1>4
<1>6. peer[f] = k /\ peer[k] = f
  BY <1>3, <1>5 DEF CallInv, RowSharedByFarEnds, Calm
<1> QED BY <1>2, <1>6

\* ... and where nobody was left, it is between the ports of the call
LEMMA StreamsSendAcross ==
    ASSUME Calm, CalmInv, Types, CallInv, StreamInv
    PROVE  StreamsMeet
<1> SUFFICES ASSUME Quiet, NoneOverrun, NEW f \in Fds, NEW g \in Fds,
                    link[f] # NoClient, link[g] # NoClient, peer[f] = g, peer[g] = f,
                    media[link[f]] # NoMedia, media[link[g]] # NoMedia
             PROVE  media[link[f]].dst = media[link[g]].src
  BY DEF StreamsMeet
<1>1. \A h : ~Left(h)
  <2> SUFFICES ASSUME NEW h, NEW r \in (1..nrows) \ ended,
                      \A k \in Fds : cid[k] = r => k # h /\ peer[k] = h
               PROVE  FALSE
    BY DEF Left
  <2>1. PICK a, b \in Fds : a # b /\ cid[a] = r /\ cid[b] = r /\ peer[a] = b /\ peer[b] = a
    BY RowsHeld
  <2> QED BY <2>1
<1>2. f # NoFd /\ g # NoFd
  BY FdsAssumption DEF NoFd
<1>3. f \in conns /\ AheadOf(f) = {<< media[link[f]].src, media[link[f]].dst >>}
  BY QuietStreams
<1>4. g \in conns /\ AheadOf(g) = {<< media[link[g]].src, media[link[g]].dst >>}
  BY QuietStreams
<1>5. AheadOf(f) \subseteq {<< port[f], port[g] >>}
  BY <1>1, <1>2, <1>3 DEF StreamInv
<1>6. AheadOf(g) \subseteq {<< port[g], port[f] >>}
  BY <1>1, <1>2, <1>4 DEF StreamInv
<1>7. media[link[f]].dst = port[g]
  BY <1>3, <1>5
<1>8. media[link[g]].src = port[g]
  BY <1>4, <1>6
<1> QED BY <1>7, <1>8

\* The daemon's calls, and what the codecs at their ends run or are about to,
\* belong together in every state of a calm system.
THEOREM StreamSystem ==
    ASSUME Calm
    PROVE  SystemSpec => [](CalmInv /\ Types /\ CallInv /\ StreamInv)
<1>1. CalmInv /\ Types /\ Types' /\ CallInv /\ StreamInv /\ [SystemNext]_systemVars => StreamInv'
  BY StreamStep
<1>2. SystemInit => StreamInv
  BY StreamStart
<1>3. SystemSpec => [](CalmInv /\ Types)
  BY CalmSystem
<1>4. SystemSpec => []CallInv
  BY SystemRunsTheDaemon, CallsConsistent, PTL
<1> QED BY <1>1, <1>2, <1>3, <1>4, PTL DEF SystemSpec

\* stopMedia reaches both ends: once all is delivered, no codec of a calm system
\* runs on in a call that its far end has left, but by another call.
THEOREM NobodyStreamsAlone ==
    ASSUME Calm
    PROVE  SystemSpec => []NobodyLeftStreaming
<1>1. CalmInv /\ Types /\ CallInv /\ StreamInv => NobodyLeftStreaming
  BY NobodyStreams
<1> QED BY <1>1, StreamSystem, PTL

\* The ports of the two MEs of a call are each other's, and no later call of either
\* end mixes with them: two clients in a call send to each other's ports.
THEOREM CallersMeet ==
    ASSUME Calm
    PROVE  SystemSpec => []StreamsMeet
<1>1. CalmInv /\ Types /\ CallInv /\ StreamInv => StreamsMeet
  BY StreamsSendAcross
<1> QED BY <1>1, StreamSystem, PTL

-----------------------------------------------------------------------------
(***************************************************************************)
(* Agreement.                                                              *)
(***************************************************************************)
\* A client that the daemon has in a call runs, or will; or it has hung up; or it is
\* apart, and nothing is on its way that would start or stop it
Agrees(f) ==
    \/ peer[f] = NoFd
    \/ AheadOf(f) # {}
    \/ link[f] \in apart /\ ~Has(toClient[link[f]], {"ME", "MS"})
    \/ Has(toDaemon[f], {"BY"})
AgreeInv == \A f \in conns : Agrees(f)

\* Whether anything is ahead of a queue that starts or stops depends on the queue alone
LEMMA AheadStays ==
    ASSUME NEW q \in Queue, Has(q, {"ME", "MS"}), NEW x, Ahead(x, q) # {}, NEW y,
           \A i \in DOMAIN q : q[i].cmd = "ME" => q[i].src \in Ports /\ q[i].dst \in Ports
    PROVE  Ahead(y, q) # {}
<1>1. CASE Has(q, {"MS"})
  <2>1. PICK p \in Ports, r \in Ports : MayRun(x, q, p, r)
    BY DEF Ahead
  <2>2. MayRun(y, q, p, r)
    BY <1>1, <2>1 DEF MayRun
  <2>3. << p, r >> \in Ahead(y, q)
    BY <2>2 DEF Ahead
  <2> QED BY <2>3
<1>2. CASE ~Has(q, {"MS"})
  <2>1. PICK i \in DOMAIN q : q[i].cmd = "ME"
    BY <1>2 DEF Has
  <2>2. \A j \in DOMAIN q : q[j].cmd # "MS"
    BY <1>2 DEF Has
  <2>3. MayRun(y, q, q[i].src, q[i].dst)
    BY <2>1, <2>2 DEF MayRun
  <2>4. << q[i].src, q[i].dst >> \in Ahead(y, q)
    BY <2>1, <2>3 DEF Ahead
  <2> QED BY <2>4
<1> QED BY <1>1, <1>2

\* What a daemon's step leaves of it, where what it writes does
LEMMA AgreeRelayed ==
    ASSUME CalmInv, Types, Types', AgreeInv, NEW reads \in SUBSET conns, StaysOpen, Relay(reads),
           UNCHANGED clientVars, \A g \in reads : toDaemon[g] # << >>,
           \A g \in conns : \/ peer'[g] = NoFd \/ AheadOf(g)' # {}
                            \/ /\ peer'[g] = peer[g] /\ ~Has(out'[g], {"ME", "MS"})
                               /\ g \in reads => Head(toDaemon[g]).cmd # "BY"
    PROVE  AgreeInv'
<1>1. /\ link' = link /\ conns' = conns /\ conns \subseteq Fds
      /\ \A g \in conns : toClient'[link[g]] = toClient[link[g]] \o out'[g]
      /\ \A g \in Fds : toDaemon'[g] = IF g \in reads THEN Tail(toDaemon[g]) ELSE toDaemon[g]
  BY CalmRelay DEF StaysOpen, Types, TypeOK
<1>2. UNCHANGED << media, apart >>
  BY DEF clientVars
<1>3. ASSUME NEW g \in conns, peer'[g] = peer[g], ~Has(out'[g], {"ME", "MS"}),
             g \in reads => Head(toDaemon[g]).cmd # "BY"
      PROVE  Agrees(g)'
  <2>1. g \in Fds /\ toClient[link[g]] \in Queue /\ out'[g] \in Queue /\ AheadOf(g)' = AheadOf(g)
    BY <1>2, <1>3, AheadRelayed
  <2>2. Has(toClient'[link[g]], {"ME", "MS"}) <=> Has(toClient[link[g]], {"ME", "MS"})
    <3>1. toClient'[link[g]] = toClient[link[g]] \o out'[g]
      BY <1>1, <1>3
    <3>2. Has(toClient[link[g]] \o out'[g], {"ME", "MS"})
              <=> Has(toClient[link[g]], {"ME", "MS"}) \/ Has(out'[g], {"ME", "MS"})
      BY <2>1, CatHas
    <3> QED BY <1>3, <3>1, <3>2
  <2>3. toDaemon[g] \in Queue
    BY <2>1, Queues
  <2>4. Has(toDaemon[g], {"BY"}) => Has(toDaemon'[g], {"BY"})
    BY <1>1, <1>3, <2>1, <2>3, TailHas
  <2> QED BY <1>1, <1>2, <1>3, <2>1, <2>2, <2>4 DEF AgreeInv, Agrees
<1> QED BY <1>1, <1>3 DEF AgreeInv, Agrees

\* The daemon reads a command: a call starts both its ends, a BY ends it for both
LEMMA AgreeReads ==
    ASSUME Calm, CalmInv, Types, Types', AgreeInv, NEW f \in Fds, DaemonReads(f)
    PROVE  AgreeInv'
<1> DEFINE m == Head(toDaemon[f])
<1>1. /\ f \in conns /\ m \in ToDaemon /\ toDaemon[f] # << >> /\ Serves(f, m)
      /\ {f} \in SUBSET conns /\ conns \subseteq Fds
  BY CalmServes DEF CalmInv, SocketInv, Types, TypeOK
<1>2. ReadShape(f, m) /\ Relay({f}) /\ UNCHANGED clientVars
  BY ReadsShape DEF DaemonReads
<1>3. StaysOpen /\ UNCHANGED << media, conns >>
  BY <1>2 DEF ReadShape, StaysOpen, clientVars
<1>4. ASSUME \A g \in conns : \/ peer'[g] = NoFd \/ AheadOf(g)' # {}
                              \/ /\ peer'[g] = peer[g] /\ ~Has(out'[g], {"ME", "MS"})
                                 /\ g = f => m.cmd # "BY"
      PROVE  AgreeInv'
  BY <1>1, <1>2, <1>3, <1>4, AgreeRelayed
<1> HIDE DEF m
<1>5. ASSUME UNCHANGED callVars, \A g \in conns : ~Has(out'[g], {"ME", "MS"}), m.cmd # "BY"
      PROVE  AgreeInv'
  BY <1>4, <1>5 DEF callVars
<1>6. ASSUME NEW w \in Commands, w.cmd \notin {"ME", "MS"}, out' = Tell(f, << w >>)
      PROVE  \A g \in conns : ~Has(out'[g], {"ME", "MS"})
  <2>1. \A g \in conns : \A S : Has(out'[g], S) <=> g = f /\ w.cmd \in S
    BY <1>1, <1>6, TellWrites
  <2> QED BY <1>6, <2>1
<1>7. /\ Plain("LI") \in Commands /\ Plain("OK") \in Commands
      /\ \A code \in {12, 13} : ER(code) \in Commands
  <2>1. {12, 13} \subseteq ResponseCode
    BY DEF ResponseCode
  <2> QED BY <2>1, MessageTypes, MessageCommands
<1>8. Plain("LI").cmd = "LI" /\ Plain("OK").cmd = "OK" /\ \A code : ER(code).cmd = "ER"
  BY DEF Plain, ER
<1>9. CASE m.cmd = "LI" /\ \E a \in Addrs : Login(f, m.user, a)
  <2>1. out' = Tell(f, << Plain("LI") >>) /\ UNCHANGED callVars
    BY <1>9 DEF Login
  <2> QED BY <1>5, <1>6, <1>7, <1>8, <1>9, <2>1
<1>10. CASE m.cmd = "PW" /\ Admits(f)
  <2>1. out' = Tell(f, << Plain("OK") >>) /\ UNCHANGED callVars
    BY <1>10 DEF Admits
  <2> QED BY <1>5, <1>6, <1>7, <1>8, <1>10, <2>1
<1>11. CASE m.cmd = "CA" /\ Refuses(f)
  <2>1. PICK code \in {12, 13} : out' = Tell(f, << ER(code) >>)
    BY <1>11 DEF Refuses
  <2>2. UNCHANGED callVars
    BY <1>11 DEF Refuses
  <2> QED BY <1>5, <1>6, <1>7, <1>8, <1>11, <2>1, <2>2
<1>12. ASSUME NEW d \in Fds, InitiateCall(f, m.user, d), m.cmd = "CA" PROVE AgreeInv'
  <2>1. m.user \in Uids
    BY <1>1, <1>12, CommandFields
  <2>2. ASSUME NEW g \in conns, g \in {f, d} PROVE AheadOf(g)' # {}
    BY <1>1, <1>2, <1>3, <1>12, <2>1, <2>2, CallStarts
  <2>3. ASSUME NEW g \in conns, g \notin {f, d}
        PROVE  peer'[g] = peer[g] /\ ~Has(out'[g], {"ME", "MS"})
    <3>1. out'[g] = << >>
      BY <1>1, <1>12, <2>1, <2>3, CallWrites DEF Types
    <3>2. peer'[g] = peer[g]
      BY <1>1, <1>12, <2>3 DEF InitiateCall, Types, TypeOK
    <3> QED BY <3>1, <3>2, NoneHas
  <2> QED BY <1>4, <1>12, <2>2, <2>3
<1>13. CASE m.cmd = "BY" /\ EndsCall(f)
  <2>1. /\ out' = StopMedia(f, << >>)
        /\ peer' = Cleared(peer, BothEnds(f), NoFd)
    BY <1>13 DEF EndsCall, HangUp
  <2>2. ASSUME NEW g \in conns, peer'[g] # NoFd
        PROVE  g # f /\ peer'[g] = peer[g] /\ ~Has(out'[g], {"ME", "MS"})
    <3>1. g \notin {f, peer[f]} /\ peer'[g] = peer[g]
      BY <1>1, <2>1, <2>2 DEF Cleared, BothEnds
    <3>2. out'[g] = << >>
      BY <1>1, <2>1, <3>1, StopWrites
    <3> QED BY <3>1, <3>2, NoneHas
  <2> QED BY <1>4, <2>2
<1>14. CASE m.cmd = "ER" /\ Forwards(f, m)
  <2>1. UNCHANGED callVars /\ m \in Commands /\ m.cmd \notin {"ME", "MS", "BY"}
    BY <1>1, <1>14, MessageCommands DEF Forwards
  <2>2. ASSUME NEW g \in conns PROVE ~Has(out'[g], {"ME", "MS"})
    <3>1. CASE peer[f] = NoFd
      <4>1. out' = Silence
        BY <1>14, <3>1 DEF Forwards
      <4>2. out'[g] = << >>
        BY <1>1, <4>1, SilenceWrites
      <4> QED BY <4>2, NoneHas
    <3>2. CASE peer[f] # NoFd
      <4>1. peer[f] \in Fds /\ out' = Tell(peer[f], << m >>)
        BY <1>1, <1>14, <3>2 DEF Forwards, Types, TypeOK
      <4>2. \A S : Has(out'[g], S) <=> g = peer[f] /\ m.cmd \in S
        BY <1>1, <2>1, <4>1, TellWrites
      <4> QED BY <2>1, <4>2
    <3> QED BY <3>1, <3>2
  <2> QED BY <1>5, <2>1, <2>2
<1>15. CASE m.cmd = "PG" /\ UpdatePing(f)
  <2>1. UNCHANGED callVars /\ out' = Silence
    BY <1>15 DEF UpdatePing
  <2>2. \A g \in conns : out'[g] = << >>
    BY <1>1, <2>1, SilenceWrites
  <2> QED BY <1>5, <1>15, <2>1, <2>2, NoneHas
<1> QED BY <1>1, <1>9, <1>10, <1>11, <1>12, <1>13, <1>14, <1>15 DEF Serves

\* ... and its other steps start and stop nothing
LEMMA AgreeDaemon ==
    ASSUME Calm, CalmInv, Types, Types', AgreeInv, Daemon
    PROVE  AgreeInv'
<1>1. CASE \E f \in Fds : DaemonReads(f)
  BY <1>1, AgreeReads
<1>2. ASSUME StaysOpen, UNCHANGED << callVars, clientVars >>, Relay({}),
             \A g \in Fds : ~Has(out'[g], {"ME", "MS"})
      PROVE  AgreeInv'
  <2>1. peer' = peer /\ {} \in SUBSET conns /\ conns \subseteq Fds /\ UNCHANGED clientVars
    BY <1>2 DEF callVars, Types, TypeOK
  <2> QED BY <1>2, <2>1, AgreeRelayed
<1>3. CASE DaemonPings
  <2>1. /\ StaysOpen /\ UNCHANGED << callVars, clientVars >> /\ Relay({})
        /\ \A g \in Fds : out'[g] = << >>
    BY <1>3, PingsCalm
  <2> QED BY <1>2, <2>1, NoneHas
<1>4. ASSUME NEW f \in Fds, DaemonVisits(f) PROVE AgreeInv'
  <2>1. /\ StaysOpen /\ UNCHANGED << callVars, clientVars >> /\ Relay({})
        /\ out' = Tell(f, << Plain("PG") >>)
    BY <1>4, VisitsCalm
  <2>2. Plain("PG") \in Commands /\ Plain("PG").cmd = "PG"
    BY MessageTypes, MessageCommands DEF Plain
  <2>3. \A g \in Fds : ~Has(out'[g], {"ME", "MS"})
    <3>1. \A g \in Fds : \A S : Has(Tell(f, << Plain("PG") >>)[g], S) <=> g = f /\ Plain("PG").cmd \in S
      BY <2>2, TellWrites
    <3> QED BY <2>1, <2>2, <3>1
  <2> QED BY <1>2, <2>1, <2>3
<1> QED BY <1>1, <1>3, <1>4, DaemonCalm

\* A client's step changes nobody's standing but its own
LEMMA ApartElsewhere ==
    ASSUME NEW c \in Clients, NEW d, d # c,
           \/ Reauthenticates(c) \/ ClientReads(c) \/ MediaTimeout(c) \/ HearsBye(c)
           \/ \E u \in Uids : Click(c, u)
    PROVE  d \in apart' <=> d \in apart
<1>1. CASE ClientReads(c)
  <2> DEFINE m == Head(toClient[c])
  <2>1. \/ Challenge(c, m) \/ LoginOk(c, m) \/ Response(c, m) \/ MediaStart(c, m)
        \/ MediaStop(c, m) \/ Ping(c, m) \/ ConnectionLost(c, m)
    BY <1>1 DEF ClientReads
  <2>2. apart' = apart \/ apart' = apart \union {c} \/ apart' = apart \ {c}
    <3> HIDE DEF m
    <3> QED BY <2>1 DEF Challenge, LoginOk, Response, MediaStart, MediaStop, Ping, ConnectionLost
  <2> QED BY <2>2
<1>2. CASE \/ Reauthenticates(c) \/ MediaTimeout(c) \/ HearsBye(c) \/ \E u \in Uids : Click(c, u)
  BY <1>2 DEF Reauthenticates, MediaTimeout, HearsBye, Click, clientVars
<1> QED BY <1>1, <1>2

\* What a client's step leaves of it
LEMMA AgreeActs ==
    ASSUME Calm, CalmInv, Types, Types', AgreeInv, NEW f \in conns, NEW c, c = link[f],
           NEW msgs, NEW q, Acts(f, msgs, q), Client(c),
           \/ Reauthenticates(c) \/ ClientReads(c) \/ MediaTimeout(c) \/ HearsBye(c)
           \/ \E u \in Uids : Click(c, u),
           \/ peer[f] = NoFd \/ Ahead(media'[c], q) # {}
           \/ c \in apart' /\ ~Has(q, {"ME", "MS"})
           \/ Has(toDaemon[f], {"BY"}) \/ Has(msgs, {"BY"})
    PROVE  AgreeInv'
<1>1. /\ f \in Fds /\ c \in Clients /\ conns' = conns /\ link' = link /\ conns \subseteq Fds
      /\ toDaemon'[f] = toDaemon[f] \o msgs /\ toClient'[c] = q
      /\ \A g \in Fds \ {f} : toDaemon'[g] = toDaemon[g]
      /\ \A d \in Clients \ {c} : toClient'[d] = toClient[d]
      /\ \A g \in conns \ {f} : link[g] \in Clients \ {c}
      /\ peer' = peer
  BY ActsElsewhere
<1>2. Agrees(f)'
  <2>1. Has(toDaemon[f], {"BY"}) \/ Has(msgs, {"BY"}) => Has(toDaemon'[f], {"BY"})
    <3>1. toDaemon[f] \in Queue /\ msgs \in Queue
      BY <1>1, Queues DEF Acts
    <3> QED BY <1>1, <3>1, CatHas
  <2>2. AheadOf(f)' = Ahead(media'[c], q)
    BY <1>1 DEF AheadOf, Ahead, MayRun
  <2> QED BY <1>1, <2>1, <2>2 DEF Agrees
<1>3. ASSUME NEW g \in conns \ {f} PROVE Agrees(g)'
  <2>1. AheadOf(g)' = AheadOf(g)
    BY <1>3, ClientStream
  <2>2. g \in Fds \ {f} /\ link[g] \in Clients \ {c}
    BY <1>1, <1>3
  <2>3. /\ toDaemon'[g] = toDaemon[g] /\ toClient'[link[g]] = toClient[link[g]]
        /\ link'[g] = link[g] /\ peer'[g] = peer[g]
    BY <1>1, <2>2
  <2>4. link[g] \in apart' <=> link[g] \in apart
    BY <1>1, <2>2, ApartElsewhere
  <2> QED BY <1>3, <2>1, <2>3, <2>4 DEF AgreeInv, Agrees
<1> QED BY <1>1, <1>2, <1>3 DEF AgreeInv

\* A client's step keeps it ready for the call it is in, or sets it apart
LEMMA AgreeClient ==
    ASSUME Calm, CalmInv, Types, Types', AgreeInv, NEW f \in conns, Client(link[f])
    PROVE  AgreeInv'
<1> DEFINE c == link[f]
           q == toClient[c]
<1>1. f \in Fds /\ c \in Clients /\ q \in Queue /\ q \in Seq(Message \union {Eof})
  BY Queues DEF CalmInv, SocketInv, Types, TypeOK
<1>2. /\ \/ Reauthenticates(c) \/ ClientReads(c) \/ MediaTimeout(c) \/ HearsBye(c)
         \/ \E u \in Uids : Click(c, u)
  <2>1. tcp[c] = "open"
    BY <1>1 DEF CalmInv, ClientInv
  <2>2. ~Connected(c)
    BY <2>1 DEF Connected
  <2> QED BY <1>1, <2>2, ClientConnected
<1>3. \/ peer[f] = NoFd \/ Ahead(media[c], q) # {}
      \/ (c \in apart /\ ~Has(q, {"ME", "MS"})) \/ Has(toDaemon[f], {"BY"})
  BY DEF AgreeInv, Agrees, AheadOf
\* Where a queue that starts or stops had something ahead, it still has
<1>4. ASSUME NEW r \in Queue, r \in Seq(Message \union {Eof}), Has(r, {"ME", "MS"}),
             NEW x, Ahead(x, r) # {}, NEW y
      PROVE  Ahead(y, r) # {}
  <2>1. ASSUME NEW i \in DOMAIN r, r[i].cmd = "ME" PROVE r[i].src \in Ports /\ r[i].dst \in Ports
    <3>1. r[i] \in Message \union {Eof}
      BY <1>4
    <3> QED BY <2>1, <3>1 DEF Message, Eof
  <2> QED BY <1>4, <2>1, AheadStays
<1> HIDE DEF c, q
<1>5. c = link[f] /\ q = toClient[c] /\ Client(c)
  BY DEF c, q
<1>6. CASE ClientReads(c)
  <2> DEFINE m == Head(q)
             t == Tail(q)
  <2>1. q # << >> /\ m \in Message
    BY <1>5, <1>6, ReadsActs
  <2>2. t \in Queue /\ t \in Seq(Message \union {Eof})
    BY <1>1, <2>1 DEF Queue
  <2>3. PICK msgs : Acts(f, msgs, t)
    BY <1>5, <1>6, ReadsActs
  <2>4. \A S : Has(q, S) <=> m.cmd \in S \/ Has(t, S)
    BY <1>1, <2>1, TailHas
  <2> HIDE DEF m, t
  <2>5. ASSUME \/ peer[f] = NoFd \/ Ahead(media'[c], t) # {}
               \/ c \in apart' /\ ~Has(t, {"ME", "MS"})
               \/ Has(toDaemon[f], {"BY"}) \/ Has(msgs, {"BY"})
        PROVE  AgreeInv'
    BY <1>2, <1>5, <2>3, <2>5, AgreeActs
  <2>6. m = Head(toClient[c]) /\ m = Head(q) /\ t = Tail(q)
    BY <1>5 DEF m, t
  <2>7. CASE m.cmd = "MS"
    <3>1. media'[c] = NoMedia
      BY <1>1, <1>6, <2>6, <2>7, ReadsMedia
    <3>2. Ahead(NoMedia, t) = Ahead(media[c], q)
      BY <1>1, <2>1, <2>6, <2>7, AheadReads
    <3> QED BY <1>3, <2>4, <2>5, <2>7, <3>1, <3>2
  <2>8. CASE m.cmd = "ME"
    <3>1. \/ media'[c] \in Media
          \/ media'[c] = NoMedia /\ c \in apart'
      BY <1>1, <1>6, <2>6, <2>8, ReadsMedia DEF Types, ClientTypes, MediaTypes
    <3>2. ~Has(q, {"ME", "MS"}) => FALSE
      BY <2>4, <2>8
    <3>3. ASSUME NEW y \in Media, Ahead(media[c], q) # {} PROVE Ahead(y, t) # {}
      <4>1. y # NoMedia /\ y.src \in Ports /\ y.dst \in Ports
        BY MediaAssumption DEF Media
      <4> QED BY <1>1, <2>1, <2>6, <2>8, <3>3, <4>1, AheadObeys
    <3>4. CASE media'[c] \in Media
      BY <1>3, <2>5, <3>2, <3>3, <3>4
    <3>5. CASE media'[c] = NoMedia /\ c \in apart' /\ Has(t, {"ME", "MS"})
      <4>1. ASSUME Ahead(media[c], q) # {} PROVE Ahead(NoMedia, t) # {}
        <5> DEFINE y == [src |-> m.src, to |-> Host[c], dst |-> m.dst]
        <5>1. y \in Media
          BY <1>1, <2>1, <2>8, ClientsAssumption DEF Message, Media
        <5> HIDE DEF y
        <5>2. Ahead(y, t) # {}
          BY <3>3, <4>1, <5>1
        <5> QED BY <1>4, <2>2, <3>5, <5>2
      <4> QED BY <1>3, <2>5, <3>2, <3>5, <4>1
    <3>6. CASE media'[c] = NoMedia /\ c \in apart' /\ ~Has(t, {"ME", "MS"})
      BY <2>5, <3>6
    <3> QED BY <3>1, <3>4, <3>5, <3>6
  <2>9. CASE m.cmd \notin {"ME", "MS"}
    <3>1. \/ media' = media /\ apart \subseteq apart'
          \/ Send(c, << Plain("BY") >>)
      BY <1>1, <1>6, <2>6, <2>9, ReadsMedia
    <3>2. Ahead(media[c], t) = Ahead(media[c], q)
      BY <1>1, <2>1, <2>6, <2>9, AheadReads
    <3>3. CASE media' = media /\ apart \subseteq apart'
      BY <1>3, <2>4, <2>5, <2>9, <3>2, <3>3
    <3>4. CASE Send(c, << Plain("BY") >>)
      <4>1. Plain("BY") \in ToDaemon /\ Plain("BY").cmd = "BY"
        BY DEF ToDaemon, Plain
      <4>2. toDaemon' = [toDaemon EXCEPT ![f] = @ \o << Plain("BY") >>]
        BY <1>5, <3>4, SendTo
      <4>3. /\ toDaemon'[f] = toDaemon[f] \o msgs /\ toDaemon[f] \in Seq(ToDaemon)
            /\ msgs \in Seq(ToDaemon) /\ toDaemon'[f] = toDaemon[f] \o << Plain("BY") >>
        BY <1>1, <2>3, <4>2 DEF Acts, Types, QueuesOK
      <4>4. msgs = << Plain("BY") >>
        BY <4>1, <4>3, SameTail
      <4> QED BY <2>5, <4>1, <4>4, Words
    <3> QED BY <3>1, <3>3, <3>4
  <2> QED BY <2>7, <2>8, <2>9
<1>7. CASE Reauthenticates(c) \/ \E u \in Uids : Click(c, u)
  <2>1. PICK msgs : Acts(f, msgs, q) /\ media' = media
    BY <1>5, <1>7, OthersAct
  <2>2. apart' = apart
    BY <1>7 DEF Reauthenticates, Click, clientVars
  <2> QED BY <1>2, <1>3, <1>5, <2>1, <2>2, AgreeActs
<1>8. CASE MediaTimeout(c) \/ HearsBye(c)
  <2>1. PICK msgs : Acts(f, msgs, q) /\ media'[c] = NoMedia
    BY <1>5, <1>8, OthersAct
  <2>2. c \in apart'
    BY <1>8 DEF MediaTimeout, HearsBye
  <2>3. Has(q, {"ME", "MS"}) /\ Ahead(media[c], q) # {} => Ahead(NoMedia, q) # {}
    BY <1>1, <1>4
  <2> QED BY <1>2, <1>3, <1>5, <2>1, <2>2, <2>3, AgreeActs
<1> QED BY <1>2, <1>6, <1>7, <1>8 DEF c

\* Every step keeps the invariant; it holds at the start
LEMMA AgreeStep ==
    ASSUME Calm, CalmInv, Types, Types', AgreeInv, [SystemNext]_systemVars
    PROVE  AgreeInv'
<1>1. CASE Daemon
  BY <1>1, AgreeDaemon
<1>2. ASSUME NEW c \in Clients, Connected(c) PROVE AgreeInv'
  <2>1. PICK f \in Fds :
             /\ f \notin conns /\ conns' = conns \union {f} /\ conns \subseteq Fds
             /\ peer'[f] = NoFd
             /\ \A g \in Fds \ {f} : UNCHANGED << peer[g], cid[g], port[g] >>
             /\ \A g \in conns : AheadOf(g)' = AheadOf(g)
             /\ \A g \in Fds : toDaemon'[g] = IF g = f THEN << LI(acct[c]) >> ELSE toDaemon[g]
             /\ \A d \in Clients : toClient'[d] = IF d = c THEN << >> ELSE toClient[d]
    BY <1>2, ConnectedStream
  <2>2. ASSUME NEW g \in conns PROVE Agrees(g)'
    <3>1. link[g] \in Clients /\ g \in Fds /\ g # f
      BY <2>1, <2>2 DEF CalmInv, SocketInv
    <3>2. tcp[c] = "connecting" /\ link'[g] = link[g] /\ link[g] # c
      <4>1. tcp[c] = "connecting"
        BY <1>2 DEF Connected
      <4>2. link[g] # c
        BY <3>1, <4>1 DEF CalmInv, ClientInv
      <4>3. PICK h \in Fds : link' = [link EXCEPT ![h] = c] /\ LowestFree(h)
        BY <1>2 DEF Connected
      <4>4. h # g
        BY <2>2, <3>1, <4>3 DEF CalmInv, SocketInv, LowestFree
      <4> QED BY <3>1, <4>1, <4>2, <4>3, <4>4 DEF Types, ClientTypes, SocketTypes
    <3>3. link[g] \in apart' <=> link[g] \in apart
      BY <1>2, <3>2 DEF Connected
    <3>4. /\ toClient'[link[g]] = toClient[link[g]] /\ toDaemon'[g] = toDaemon[g]
          /\ peer'[g] = peer[g] /\ AheadOf(g)' = AheadOf(g)
      BY <2>1, <2>2, <3>1, <3>2
    <3> QED BY <2>2, <3>2, <3>3, <3>4 DEF AgreeInv, Agrees
  <2> QED BY <2>1, <2>2 DEF AgreeInv, Agrees
<1>3. ASSUME NEW c \in Clients, Client(c), ~Connected(c) PROVE AgreeInv'
  <2>1. PICK f \in conns : link[f] = c
    BY <1>3, ClientConnected
  <2> QED BY <1>3, <2>1, AgreeClient
<1>4. ASSUME UNCHANGED << vars, netVars, media, apart >> PROVE AgreeInv'
  <2>1. UNCHANGED << conns, peer, link, toDaemon, toClient, media, apart >>
    BY <1>4 DEF vars, sockVars, callVars, netVars
  <2>2. \A g : AheadOf(g)' = AheadOf(g)
    BY <2>1 DEF AheadOf, Ahead, MayRun
  <2> QED BY <2>1, <2>2 DEF AgreeInv, Agrees
<1>5. CASE ByeIsLost
  BY <1>4, <1>5 DEF ByeIsLost
<1>6. CASE UNCHANGED systemVars
  BY <1>4, <1>6 DEF systemVars, clientVars
<1> QED BY <1>1, <1>2, <1>3, <1>5, <1>6 DEF SystemNext, Rest

LEMMA AgreeStart ==
    ASSUME SystemInit
    PROVE  AgreeInv
BY DEF AgreeInv, SystemInit, Init

\* In a quiet state who is ahead of nothing is in no call, or apart
LEMMA QuietAgrees ==
    ASSUME CalmInv, Types, StreamInv, AgreeInv
    PROVE  CallsAgree
<1> SUFFICES ASSUME Quiet, NEW f \in Fds, link[f] # NoClient, link[f] \notin apart
             PROVE  peer[f] # NoFd <=> media[link[f]] # NoMedia
  BY DEF CallsAgree
<1>1. f \in conns /\ link[f] \in Clients /\ toClient[link[f]] = << >> /\ ~Has(toDaemon[f], {"BY"})
  BY DEF CalmInv, SocketInv, Quiet, Has
<1>2. ASSUME peer[f] # NoFd PROVE media[link[f]] # NoMedia
  <2>1. AheadOf(f) # {}
    BY <1>1, <1>2 DEF AgreeInv, Agrees
  <2> QED BY <1>1, <2>1, AheadNothing DEF AheadOf
<1>3. ASSUME media[link[f]] # NoMedia PROVE peer[f] # NoFd
  <2>1. AheadOf(f) # {}
    BY <1>3, QuietStreams
  <2> QED BY <1>1, <2>1 DEF StreamInv
<1> QED BY <1>2, <1>3

\* A client whose codec has not stopped or failed by itself since the daemon's last ME or
\* MS is in a call of the daemon exactly when its codec runs, once all is delivered; and so
\* is every other from the next one on.
THEOREM DaemonAndClientsAgree ==
    ASSUME Calm
    PROVE  SystemSpec => []CallsAgree
<1>1. CalmInv /\ Types /\ Types' /\ AgreeInv /\ [SystemNext]_systemVars => AgreeInv'
  BY AgreeStep
<1>2. SystemInit => AgreeInv
  BY AgreeStart
<1>3. CalmInv /\ Types /\ StreamInv /\ AgreeInv => CallsAgree
  BY QuietAgrees
<1> QED BY <1>1, <1>2, <1>3, StreamSystem, PTL DEF SystemSpec
=============================================================================
