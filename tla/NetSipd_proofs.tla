--------------------------- MODULE NetSipd_proofs ---------------------------
(***************************************************************************)
(* Theorems about NetSipd, for every set of descriptors, users, addresses  *)
(* and ports, and every bound.                                             *)
(***************************************************************************)
EXTENDS NetSipd, TLAPS

USE FdsAssumption, UidsAssumption, AddrsAssumption, PortsAssumption,
    LimitsAssumption, ClockAssumption
USE DEF nrows, BothEnds

-----------------------------------------------------------------------------
(***************************************************************************)
(* Lemmas about the operators the handlers are built from.                 *)
(***************************************************************************)
\* Clearing entries of a table keeps its type.
LEMMA ClearedType ==
    ASSUME NEW S, NEW fn \in [Fds -> S], NEW F, NEW d \in S
    PROVE  Cleared(fn, F, d) \in [Fds -> S]
BY DEF Cleared

\* The commands the daemon writes are commands of the protocol.
LEMMA MessageTypes ==
    /\ \A c \in {"LI", "OK", "MS", "PG", "CB"} : Plain(c) \in Message
    /\ \A code \in ResponseCode : ER(code) \in Message
    /\ Forwardable \subseteq Message
BY DEF Plain, ER, Message, Forwardable, ResponseCode

LEMMA TellType ==
    ASSUME NEW f \in Fds, NEW s \in Seq(Message)
    PROVE  Tell(f, s) \in [Fds -> Seq(Message)]
BY DEF Tell, Silence

LEMMA SilenceType == Silence \in [Fds -> Seq(Message)]
BY DEF Silence

LEMMA StopMediaType ==
    ASSUME NEW f \in Fds, NEW s \in Seq(Message)
    PROVE  StopMedia(f, s) \in [Fds -> Seq(Message)]
<1>1. Plain("MS") \in Message
  BY MessageTypes
<1>2. ASSUME NEW g \in Fds
      PROVE  StopMedia(f, s)[g] \in Seq(Message)
  BY <1>1 DEF StopMedia
<1>3. QED
  BY <1>2 DEF StopMedia

-----------------------------------------------------------------------------
(***************************************************************************)
(* Type correctness.  The conjuncts of TypeOK are taken in the groups that *)
(* the handlers' shared effects (Forget, DropSockets, Logout) assign.      *)
(***************************************************************************)
SocksOK ==
    /\ conns \subseteq Fds
    /\ sock \in [Fds -> BOOLEAN]
    /\ addr \in [Fds -> Addrs \union {NoAddr}]
    /\ zombie \in [Fds -> BOOLEAN]
    /\ age \in [Fds -> 0..PingLimit]

IdsOK ==
    /\ uid \in [Fds -> Uids \union {NoUid}]
    /\ auth \in [Fds -> BOOLEAN]
    /\ laddr \in [Fds -> Addrs \union {NoAddr}]

CallsOK ==
    /\ peer \in [Fds -> Fds \union {NoFd}]
    /\ cid \in [Fds -> Nat \union {NoCid}]
    /\ port \in [Fds -> Ports \union {0}]

RestOK ==
    /\ up \in BOOLEAN
    /\ walk \subseteq Fds
    /\ reap \in BOOLEAN

DbOK ==
    /\ online \subseteq Uids
    /\ calls \in Seq(Uids \union {NoUid})
    /\ ended \subseteq Nat

OutOK == out \in [Fds -> Seq(Message)]

LEMMA TypeOKParts ==
    /\ TypeOK <=> SocksOK /\ IdsOK /\ CallsOK /\ RestOK /\ DbOK /\ OutOK
    /\ TypeOK' <=> SocksOK' /\ IdsOK' /\ CallsOK' /\ RestOK' /\ DbOK' /\ OutOK'
BY DEF TypeOK, SocksOK, IdsOK, CallsOK, RestOK, DbOK, OutOK

LEMMA ForgetOK ==
    ASSUME TypeOK, NEW F, Forget(F)
    PROVE  IdsOK' /\ CallsOK'
<1>1. IdsOK /\ CallsOK
  BY TypeOKParts
<1>2. IdsOK'
  BY <1>1, ClearedType DEF Forget, IdsOK
<1>3. CallsOK'
  BY <1>1, ClearedType DEF Forget, CallsOK
<1>4. QED
  BY <1>2, <1>3

LEMMA DropSocketsOK ==
    ASSUME TypeOK, NEW F, DropSockets(F)
    PROVE  SocksOK'
<1>1. SocksOK
  BY TypeOKParts
<1>2. 0 \in 0..PingLimit
  OBVIOUS
<1>3. QED
  BY <1>1, <1>2, ClearedType DEF DropSockets, SocksOK

LEMMA CrashOK ==
    ASSUME TypeOK, Crash
    PROVE  TypeOK'
<1>1. SocksOK' /\ IdsOK' /\ CallsOK'
  BY ForgetOK, DropSocketsOK DEF Crash
<1>2. RestOK'
  BY DEF Crash, RestOK
<1>3. DbOK'
  BY TypeOKParts DEF Crash, dbVars, DbOK
<1>4. OutOK'
  BY SilenceType DEF Crash, OutOK
<1>5. QED
  BY <1>1, <1>2, <1>3, <1>4, TypeOKParts

LEMMA RowEndedByOK ==
    ASSUME TypeOK, NEW f \in Fds
    PROVE  RowEndedBy(f) \subseteq Nat
BY DEF TypeOK, RowEndedBy, NoCid

LEMMA HangUpOK ==
    ASSUME TypeOK, NEW f \in Fds, HangUp(f)
    PROVE  CallsOK' /\ ended' \subseteq Nat /\ OutOK'
<1>1. CallsOK /\ ended \subseteq Nat
  BY TypeOKParts DEF DbOK
<1>2. CallsOK'
  BY <1>1, ClearedType DEF HangUp, CallsOK
<1>3. ended' \subseteq Nat
  BY <1>1, RowEndedByOK DEF HangUp
<1>4. OutOK'
  <2>1. <<>> \in Seq(Message)
    OBVIOUS
  <2>2. StopMedia(f, <<>>) \in [Fds -> Seq(Message)]
    BY <2>1, StopMediaType
  <2>3. QED
    BY <2>2 DEF HangUp, OutOK
<1>5. QED
  BY <1>2, <1>3, <1>4

LEMMA LogoutOK ==
    ASSUME TypeOK, NEW f \in Fds, NEW s \in Seq(Message), NEW gone,
           Logout(f, s, gone)
    PROVE  IdsOK' /\ CallsOK' /\ online' \subseteq Uids /\ ended' \subseteq Nat
           /\ OutOK'
<1>1. IdsOK /\ CallsOK /\ online \subseteq Uids /\ ended \subseteq Nat
  BY TypeOKParts DEF DbOK
<1>2. IdsOK'
  BY <1>1, ClearedType DEF Logout, IdsOK
<1>3. CallsOK'
  BY <1>1, ClearedType DEF Logout, CallsOK
<1>4. online' \subseteq Uids
  BY <1>1 DEF Logout
<1>5. ended' \subseteq Nat
  BY <1>1, RowEndedByOK DEF Logout
<1>6. OutOK'
  <2>1. StopMedia(f, s) \in [Fds -> Seq(Message)]
    BY StopMediaType
  <2>2. Tell(f, s) \in [Fds -> Seq(Message)]
    BY TellType
  <2>3. out' \in {StopMedia(f, s), Tell(f, s)}
    BY DEF Logout
  <2>4. QED
    BY <2>1, <2>2, <2>3 DEF OutOK
<1>7. QED
  BY <1>2, <1>3, <1>4, <1>5, <1>6

LEMMA SocketKillOK ==
    ASSUME TypeOK, NEW f \in Fds, NEW s \in Seq(Message), SocketKill(f, s)
    PROVE  /\ IdsOK' /\ CallsOK' /\ online' \subseteq Uids /\ ended' \subseteq Nat
           /\ OutOK'
           /\ zombie' \in [Fds -> BOOLEAN]
           /\ reap' \in BOOLEAN
<1>1. CASE zombie[f]
  <2>1. out' = Tell(f, s) /\ UNCHANGED <<zombie, reap, idVars, callVars, online, ended>>
    BY <1>1 DEF SocketKill
  <2>2. OutOK'
    BY <2>1, TellType DEF OutOK
  <2>3. /\ IdsOK' /\ CallsOK' /\ online' \subseteq Uids /\ ended' \subseteq Nat
        /\ zombie' \in [Fds -> BOOLEAN]
        /\ reap' \in BOOLEAN
    BY <2>1 DEF TypeOK, IdsOK, CallsOK, idVars, callVars
  <2>4. QED
    BY <2>2, <2>3
<1>2. CASE ~zombie[f]
  <2>1. Logout(f, s, {}) /\ zombie' = [zombie EXCEPT ![f] = TRUE] /\ reap' = TRUE
    BY <1>2 DEF SocketKill
  <2>2. zombie' \in [Fds -> BOOLEAN]
    BY <2>1 DEF TypeOK
  <2>3. QED
    BY <2>1, <2>2, LogoutOK
<1>3. QED
  BY <1>1, <1>2

LEMMA RefuseOK ==
    ASSUME TypeOK, NEW f \in Fds, NEW code \in ResponseCode, Refuse(f, code)
    PROVE  TypeOK'
<1>1. CASE Crash
  BY <1>1, CrashOK
<1>2. CASE /\ SocketKill(f, <<ER(code)>>)
           /\ UNCHANGED <<up, conns, sock, addr, age, walk, calls>>
  <2>1. <<ER(code)>> \in Seq(Message)
    BY MessageTypes
  <2>2. QED
    BY <1>2, <2>1, SocketKillOK, TypeOKParts DEF SocksOK, RestOK, DbOK
<1>3. QED
  BY <1>1, <1>2 DEF Refuse

LEMMA InitOK == Init => TypeOK
<1>1. 0 \in 0..PingLimit
  OBVIOUS
<1>2. SUFFICES ASSUME Init
               PROVE  SocksOK /\ IdsOK /\ CallsOK /\ RestOK /\ DbOK /\ OutOK
  BY TypeOKParts
<1>3. SocksOK
  BY <1>1, <1>2 DEF Init, SocksOK
<1>4. IdsOK /\ CallsOK
  BY <1>2 DEF Init, IdsOK, CallsOK
<1>5. RestOK /\ DbOK
  <2>1. <<>> \in Seq(Uids \union {NoUid})
    OBVIOUS
  <2>2. RestOK
    BY <1>2 DEF Init, RestOK
  <2>3. DbOK
    BY <1>2, <2>1 DEF Init, DbOK
  <2>4. QED
    BY <2>2, <2>3
<1>6. OutOK
  BY <1>2, SilenceType DEF Init, OutOK
<1>7. QED
  BY <1>3, <1>4, <1>5, <1>6

LEMMA InitiateCallOK ==
    ASSUME TypeOK, NEW f \in Fds, NEW u \in Uids, NEW d \in Fds,
           InitiateCall(f, u, d)
    PROVE  TypeOK'
<1>1. PICK p \in Ports, q \in Ports :
        /\ port' = [port EXCEPT ![f] = p, ![d] = q]
        /\ out' = [g \in Fds |->
             (IF g = f
              THEN <<ER(10), [cmd |-> "ME", src |-> port'[f],
                     to |-> IF addr[f] = addr[d] THEN laddr[d] ELSE addr[d],
                     dst |-> port'[d]]>>
              ELSE <<>>)
             \o (IF g = d
                 THEN <<[cmd |-> "ME", src |-> port'[d],
                         to |-> IF addr[f] = addr[d] THEN laddr[f] ELSE addr[f],
                         dst |-> port'[f]]>>
                 ELSE <<>>)]
  BY DEF InitiateCall
<1>2. SocksOK' /\ IdsOK' /\ RestOK' /\ DbOK'
  <2>1. /\ UNCHANGED <<up, sockVars, idVars, timeVars, online, ended>>
        /\ calls' = Append(calls, uid[f])
    BY DEF InitiateCall
  <2>2. SocksOK' /\ IdsOK' /\ RestOK'
    BY <2>1, TypeOKParts DEF SocksOK, IdsOK, RestOK, sockVars, idVars, timeVars
  <2>3. calls \in Seq(Uids \union {NoUid}) /\ uid[f] \in Uids \union {NoUid}
    BY DEF TypeOK
  <2>4. calls' \in Seq(Uids \union {NoUid})
    BY <2>1, <2>3
  <2>5. DbOK'
    BY <2>1, <2>4, TypeOKParts DEF DbOK
  <2>6. QED
    BY <2>2, <2>5
<1>3. CallsOK'
  <2>1. peer' \in [Fds -> Fds \union {NoFd}]
    BY DEF InitiateCall, TypeOK
  <2>2. cid' \in [Fds -> Nat \union {NoCid}]
    <3>1. PICK row \in LatestRow(f) : cid' = [cid EXCEPT ![f] = row, ![d] = row]
      BY DEF InitiateCall
    <3>2. nrows \in Nat /\ cid \in [Fds -> Nat \union {NoCid}]
      BY DEF TypeOK
    <3>3. row \in Nat
      BY <3>2 DEF LatestRow
    <3>4. QED
      BY <3>1, <3>2, <3>3
  <2>3. port' \in [Fds -> Ports \union {0}]
    BY <1>1 DEF TypeOK
  <2>4. QED
    BY <2>1, <2>2, <2>3 DEF CallsOK
<1>4. OutOK'
  <2>1. port'[f] \in Ports /\ port'[d] \in Ports
    BY <1>1 DEF TypeOK
  <2>2. ASSUME NEW far \in Addrs \union {NoAddr}, NEW a \in Ports, NEW b \in Ports
        PROVE  [cmd |-> "ME", src |-> a, to |-> far, dst |-> b] \in Message
    BY DEF Message
  <2>3. /\ (IF addr[f] = addr[d] THEN laddr[d] ELSE addr[d]) \in Addrs \union {NoAddr}
        /\ (IF addr[f] = addr[d] THEN laddr[f] ELSE addr[f]) \in Addrs \union {NoAddr}
    BY DEF TypeOK
  <2>4. ER(10) \in Message
    BY MessageTypes DEF ResponseCode
  <2> DEFINE toSrc == [cmd |-> "ME", src |-> port'[f],
                       to |-> IF addr[f] = addr[d] THEN laddr[d] ELSE addr[d],
                       dst |-> port'[d]]
             toDst == [cmd |-> "ME", src |-> port'[d],
                       to |-> IF addr[f] = addr[d] THEN laddr[f] ELSE addr[f],
                       dst |-> port'[f]]
  <2>5. toSrc \in Message /\ toDst \in Message
    <3>1. toSrc \in Message
      BY <2>1, <2>2, <2>3
    <3>2. toDst \in Message
      BY <2>1, <2>2, <2>3
    <3>3. QED
      BY <3>1, <3>2
  <2>6. out' = [g \in Fds |-> (IF g = f THEN <<ER(10), toSrc>> ELSE <<>>)
                              \o (IF g = d THEN <<toDst>> ELSE <<>>)]
    BY <1>1
  <2> HIDE DEF toSrc, toDst
  <2>7. ASSUME NEW g \in Fds
        PROVE  (IF g = f THEN <<ER(10), toSrc>> ELSE <<>>)
                  \o (IF g = d THEN <<toDst>> ELSE <<>>) \in Seq(Message)
    BY <2>4, <2>5
  <2>8. QED
    BY <2>6, <2>7 DEF OutOK
<1>5. QED
  BY <1>2, <1>3, <1>4, TypeOKParts

LEMMA ReceiveOK ==
    ASSUME TypeOK, NEW f \in Fds, Receive(f)
    PROVE  TypeOK'
<1> USE TypeOKParts
<1>1. ASSUME NEW m \in Message
      PROVE  Tell(f, <<m>>) \in [Fds -> Seq(Message)]
  <2>1. <<m>> \in Seq(Message)
    OBVIOUS
  <2>2. QED
    BY <2>1, TellType
<1>2. Plain("LI") \in Message /\ Plain("OK") \in Message /\ ER(4) \in Message
  BY MessageTypes DEF ResponseCode
<1>3. {1, 2, 3, 4, 5} \subseteq ResponseCode
  BY DEF ResponseCode
<1>4. ASSUME UNCHANGED <<up, sockVars, idVars, callVars, timeVars, dbVars>>, OutOK'
      PROVE  TypeOK'
  BY <1>4 DEF SocksOK, IdsOK, CallsOK, RestOK, DbOK, sockVars, idVars, callVars,
              timeVars, dbVars
<1>5. ASSUME NEW u \in Uids, NEW a \in Addrs, Login(f, u, a)
      PROVE  TypeOK'
  <2>1. OutOK'
    BY <1>1, <1>2, <1>5 DEF Login, OutOK
  <2>2. IdsOK'
    BY <1>5 DEF Login, IdsOK
  <2>3. QED
    BY <1>5, <2>1, <2>2 DEF Login, SocksOK, CallsOK, RestOK, DbOK, sockVars,
                            callVars, timeVars, dbVars
<1>6. CASE LoginUnknown(f)
  BY <1>1, <1>2, <1>4, <1>6 DEF LoginUnknown, OutOK
<1>7. CASE Malformed(f)
  BY <1>3, <1>7, RefuseOK DEF Malformed
<1>8. ASSUME NEW matches \in BOOLEAN, Password(f, matches)
      PROVE  TypeOK'
  <2>1. CASE Refuse(f, 1) \/ Refuse(f, 2)
    BY <1>3, <2>1, RefuseOK
  <2>2. CASE /\ uid[f] # NoUid
             /\ auth' = [auth EXCEPT ![f] = TRUE]
             /\ online' = online \union {uid[f]}
             /\ out' = Tell(f, <<Plain("OK")>>)
             /\ UNCHANGED <<up, sockVars, uid, laddr, callVars, timeVars, calls,
                            ended>>
    <3>1. OutOK'
      BY <1>1, <1>2, <2>2 DEF OutOK
    <3>2. IdsOK'
      BY <2>2 DEF IdsOK
    <3>3. DbOK'
      BY <2>2 DEF DbOK, IdsOK
    <3>4. QED
      BY <2>2, <3>1, <3>2, <3>3 DEF SocksOK, CallsOK, RestOK, sockVars, callVars,
                                    timeVars
  <2>3. QED
    BY <1>8, <2>1, <2>2 DEF Password
<1>9. CASE Unauthenticated(f)
  BY <1>3, <1>9, RefuseOK DEF Unauthenticated
<1>10. ASSUME NEW u \in Uids, NEW code \in ResponseCode, CallRefused(f, u, code)
       PROVE  TypeOK'
  BY <1>1, <1>4, <1>10, MessageTypes DEF CallRefused, OutOK
<1>11. ASSUME NEW u \in Uids, NEW d \in Fds, InitiateCall(f, u, d)
       PROVE  TypeOK'
  BY <1>11, InitiateCallOK
<1>12. CASE EndCall(f)
  <2>1. CASE Crash
    BY <2>1, CrashOK
  <2>2. CASE HangUp(f) /\ UNCHANGED <<up, sockVars, idVars, timeVars, online, calls>>
    BY <2>2, HangUpOK DEF SocksOK, IdsOK, RestOK, DbOK, sockVars, idVars, timeVars
  <2>3. QED
    BY <1>12, <2>1, <2>2 DEF EndCall
<1>13. ASSUME NEW m \in Forwardable, ForwardMessage(f, m)
       PROVE  TypeOK'
  <2>1. CASE Crash
    BY <2>1, CrashOK
  <2>2. CASE /\ out' = IF peer[f] = NoFd THEN Silence ELSE Tell(peer[f], <<m>>)
             /\ UNCHANGED <<up, sockVars, idVars, callVars, timeVars, dbVars>>
    <3>1. m \in Message
      BY MessageTypes
    <3>2. peer[f] # NoFd => peer[f] \in Fds
      BY DEF CallsOK
    <3>3. <<m>> \in Seq(Message)
      BY <3>1
    <3>4. OutOK'
      <4>1. CASE peer[f] = NoFd
        BY <2>2, <4>1, SilenceType DEF OutOK
      <4>2. CASE peer[f] # NoFd
        BY <2>2, <3>2, <3>3, <4>2, TellType DEF OutOK
      <4>3. QED
        BY <4>1, <4>2
    <3>5. QED
      BY <1>4, <2>2, <3>4
  <2>3. QED
    BY <1>13, <2>1, <2>2 DEF ForwardMessage
<1>14. CASE UpdatePing(f)
  <2>1. 0 \in 0..PingLimit
    OBVIOUS
  <2>2. SocksOK'
    BY <1>14, <2>1 DEF UpdatePing, Refreshed, SocksOK
  <2>3. OutOK'
    BY <1>14, SilenceType DEF UpdatePing, OutOK
  <2>4. QED
    BY <1>14, <2>2, <2>3 DEF UpdatePing, IdsOK, CallsOK, RestOK, DbOK, idVars,
                             callVars, timeVars, dbVars
<1>15. CASE UnknownCommand(f)
  BY <1>1, <1>2, <1>4, <1>15 DEF UnknownCommand, OutOK
<1>16. QED
  BY <1>5, <1>6, <1>7, <1>8, <1>9, <1>10, <1>11, <1>12, <1>13, <1>14, <1>15
  DEF Receive

LEMMA NewConnectionOK ==
    ASSUME TypeOK, NEW f \in Fds, NEW a \in Addrs, NewConnection(f, a)
    PROVE  TypeOK'
<1>1. IdsOK' /\ CallsOK'
  BY ForgetOK DEF NewConnection
<1>2. SocksOK'
  <2>1. 0 \in 0..PingLimit
    OBVIOUS
  <2>2. QED
    BY <2>1, TypeOKParts DEF NewConnection, SocksOK
<1>3. OutOK'
  BY SilenceType DEF NewConnection, OutOK
<1>4. RestOK' /\ DbOK'
  BY TypeOKParts DEF NewConnection, RestOK, DbOK, timeVars, dbVars
<1>5. QED
  BY <1>1, <1>2, <1>3, <1>4, TypeOKParts

LEMMA ConnectionClosedOK ==
    ASSUME TypeOK, NEW f \in Fds, ConnectionClosed(f)
    PROVE  TypeOK'
<1>1. CASE Crash
  BY <1>1, CrashOK
<1>2. CASE /\ sock' = [sock EXCEPT ![f] = FALSE]
           /\ SocketKill(f, <<>>)
           /\ UNCHANGED <<up, conns, addr, age, walk, calls>>
  <2>1. <<>> \in Seq(Message)
    OBVIOUS
  <2>2. QED
    BY <1>2, <2>1, SocketKillOK, TypeOKParts DEF SocksOK, RestOK, DbOK
<1>3. QED
  BY <1>1, <1>2 DEF ConnectionClosed

LEMMA PingVisitOK ==
    ASSUME TypeOK, NEW f \in Fds, PingVisit(f)
    PROVE  TypeOK'
<1> USE TypeOKParts
<1>1. CASE Crash
  BY <1>1, CrashOK
<1>2. CASE /\ age[f] < PingLimit
           /\ age' = [age EXCEPT ![f] = @ + 1]
           /\ walk' = walk \ {f}
           /\ out' = Tell(f, <<Plain("PG")>>)
           /\ UNCHANGED <<up, conns, sock, addr, zombie, idVars, callVars, reap,
                          dbVars>>
  <2>1. SocksOK'
    BY <1>2 DEF SocksOK
  <2>2. OutOK'
    <3>1. <<Plain("PG")>> \in Seq(Message)
      BY MessageTypes
    <3>2. QED
      BY <1>2, <3>1, TellType DEF OutOK
  <2>3. IdsOK' /\ CallsOK' /\ RestOK' /\ DbOK'
    BY <1>2 DEF IdsOK, CallsOK, RestOK, DbOK, idVars, callVars, dbVars
  <2>4. QED
    BY <2>1, <2>2, <2>3
<1>3. CASE /\ \E rest \in AfterErase(walk \ {f}) : walk' = rest
           /\ DropSockets({f})
           /\ Logout(f, <<>>, {f})
           /\ UNCHANGED <<up, reap, calls>>
  <2>1. <<>> \in Seq(Message)
    OBVIOUS
  <2>2. IdsOK' /\ CallsOK' /\ online' \subseteq Uids /\ ended' \subseteq Nat /\ OutOK'
    BY <1>3, <2>1, LogoutOK
  <2>3. SocksOK'
    BY <1>3, DropSocketsOK
  <2>4. RestOK' /\ DbOK'
    BY <1>3, <2>2 DEF RestOK, DbOK, AfterErase
  <2>5. QED
    BY <2>2, <2>3, <2>4
<1>4. QED
  BY <1>1, <1>2, <1>3 DEF PingVisit

LEMMA ZombieDataOK ==
    ASSUME TypeOK, ZombieData
    PROVE  TypeOK'
<1> DEFINE Z == {f \in conns : zombie[f]}
<1>1. CASE Crash
  BY <1>1, CrashOK
<1>2. CASE /\ reap' = FALSE /\ out' = Silence
           /\ UNCHANGED <<up, sockVars, idVars, callVars, walk, dbVars>>
  <2>1. OutOK'
    BY <1>2, SilenceType DEF OutOK
  <2>2. QED
    BY <1>2, <2>1, TypeOKParts DEF SocksOK, IdsOK, CallsOK, RestOK, DbOK,
                                   sockVars, idVars, callVars, dbVars
<1>3. ASSUME NEW F \in SUBSET Z, DropSockets(F), Forget(F), reap' = FALSE,
             out' = Silence, UNCHANGED <<up, walk, dbVars>>
      PROVE  TypeOK'
  <2>1. SocksOK' /\ IdsOK' /\ CallsOK'
    BY <1>3, DropSocketsOK, ForgetOK
  <2>2. OutOK'
    BY <1>3, SilenceType DEF OutOK
  <2>3. RestOK' /\ DbOK'
    BY <1>3, TypeOKParts DEF RestOK, DbOK, dbVars
  <2>4. QED
    BY <2>1, <2>2, <2>3, TypeOKParts
<1>4. QED
  BY <1>1, <1>2, <1>3 DEF ZombieData

LEMMA PingTimerDataOK ==
    ASSUME TypeOK, PingTimerData
    PROVE  TypeOK'
<1>1. OutOK'
  BY SilenceType DEF PingTimerData, OutOK
<1>2. QED
  BY <1>1, TypeOKParts DEF PingTimerData, SocksOK, IdsOK, CallsOK, RestOK, DbOK,
                           sockVars, idVars, callVars, dbVars

LEMMA RestartOK ==
    ASSUME TypeOK, Restart
    PROVE  TypeOK'
BY TypeOKParts DEF Restart, SocksOK, IdsOK, CallsOK, RestOK, DbOK, OutOK,
                   sockVars, idVars, callVars, timeVars, dbVars

LEMMA StutterOK ==
    ASSUME TypeOK, UNCHANGED vars
    PROVE  TypeOK'
BY TypeOKParts DEF vars, SocksOK, IdsOK, CallsOK, RestOK, DbOK, OutOK,
                   sockVars, idVars, callVars, timeVars, dbVars

\* Every table of the daemon holds values of its type in every reachable state.
THEOREM TypeCorrect == Spec => []TypeOK
<1>1. TypeOK /\ [Next]_vars => TypeOK'
  <2> SUFFICES ASSUME TypeOK, [Next]_vars
               PROVE  TypeOK'
    OBVIOUS
  <2>1. ASSUME NEW f \in Fds, NEW a \in Addrs, NewConnection(f, a)
        PROVE  TypeOK'
    BY <2>1, NewConnectionOK
  <2>2. ASSUME NEW f \in Fds, ConnectionClosed(f)
        PROVE  TypeOK'
    BY <2>2, ConnectionClosedOK
  <2>3. ASSUME NEW f \in Fds, Receive(f)
        PROVE  TypeOK'
    BY <2>3, ReceiveOK
  <2>4. ASSUME NEW f \in Fds, PingVisit(f)
        PROVE  TypeOK'
    BY <2>4, PingVisitOK
  <2>5. CASE ZombieData
    BY <2>5, ZombieDataOK
  <2>6. CASE PingTimerData
    BY <2>6, PingTimerDataOK
  <2>7. CASE Terminate
    BY <2>7, CrashOK DEF Terminate
  <2>8. CASE Restart
    BY <2>8, RestartOK
  <2>9. CASE UNCHANGED vars
    BY <2>9, StutterOK
  <2>10. QED
    BY <2>1, <2>2, <2>3, <2>4, <2>5, <2>6, <2>7, <2>8, <2>9 DEF Next
<1>2. QED
  BY InitOK, <1>1, PTL DEF Spec

-----------------------------------------------------------------------------
(***************************************************************************)
(* Who is in which call.  None of the three invariants is inductive alone: *)
(* that a held row is open is preserved by EndCall because every holder of *)
(* the row is the far end, which it clears; that holders are far ends is   *)
(* preserved by InitiateCall because the new row is above every held one;  *)
(* and Logout takes a far end out of its call completely only because the  *)
(* three fields agree.  A new row is open, and above every held one,       *)
(* because only rows of the table have been ended or are held (RowsExist). *)
(***************************************************************************)
RowsExist ==
    /\ ended \subseteq 1..nrows
    /\ \A f \in Fds : cid[f] # NoCid => cid[f] \in 1..nrows

CallInv ==
    CallFieldsAgree /\ RowSharedByFarEnds /\ HeldRowIsOpen /\ RowsExist

\* Sessions leave their calls: all of F's fields are cleared, and every session
\* that holds a row ended by the step is in F.
LEMMA LeavingCalls ==
    ASSUME TypeOK, CallInv, NEW F,
           peer' = Cleared(peer, F, NoFd),
           cid' = Cleared(cid, F, NoCid),
           port' = Cleared(port, F, 0),
           nrows' = nrows,
           ended' \subseteq 1..nrows,
           SteadyClock => \A g \in Fds : cid[g] # NoCid /\ cid[g] \in ended' => g \in F
    PROVE  CallInv'
<1>1. \A g \in Fds : /\ peer'[g] = IF g \in F THEN NoFd ELSE peer[g]
                     /\ cid'[g] = IF g \in F THEN NoCid ELSE cid[g]
                     /\ port'[g] = IF g \in F THEN 0 ELSE port[g]
  BY DEF Cleared
<1>2. CallFieldsAgree'
  BY <1>1 DEF CallInv, CallFieldsAgree
<1>3. RowSharedByFarEnds'
  BY <1>1 DEF CallInv, RowSharedByFarEnds
<1>4. HeldRowIsOpen'
  BY <1>1 DEF CallInv, HeldRowIsOpen
<1>5. RowsExist'
  BY <1>1 DEF CallInv, RowsExist
<1>6. QED
  BY <1>2, <1>3, <1>4, <1>5 DEF CallInv

\* The row EndCall(f) ends is in the table, and held by f and its far end only.
LEMMA HoldersOfEndedRow ==
    ASSUME TypeOK, CallInv, NEW f \in Fds
    PROVE  /\ ended \union RowEndedBy(f) \subseteq 1..nrows
           /\ SteadyClock =>
                \A g \in Fds : cid[g] # NoCid /\ cid[g] \in ended \union RowEndedBy(f)
                                  => g \in {f, peer[f]}
<1>1. ended \union RowEndedBy(f) \subseteq 1..nrows
  BY DEF CallInv, RowsExist, RowEndedBy
<1>2. SteadyClock => \A g \in Fds : cid[g] # NoCid => cid[g] \notin ended
  BY DEF CallInv, HeldRowIsOpen
<1>3. SteadyClock => \A g \in Fds : cid[g] # NoCid /\ cid[g] \in RowEndedBy(f)
                                       => g \in {f, peer[f]}
  BY DEF CallInv, RowSharedByFarEnds, RowEndedBy
<1>4. QED
  BY <1>1, <1>2, <1>3

\* The row a session holds is open, so a step that ends no row clears whom it
\* likes.
LEMMA LeavingCallsOpen ==
    ASSUME TypeOK, CallInv, NEW F,
           peer' = Cleared(peer, F, NoFd),
           cid' = Cleared(cid, F, NoCid),
           port' = Cleared(port, F, 0),
           nrows' = nrows, ended' = ended
    PROVE  CallInv'
<1>1. ended' \subseteq 1..nrows
  BY DEF CallInv, RowsExist
<1>2. SteadyClock => \A g \in Fds : cid[g] # NoCid /\ cid[g] \in ended' => g \in F
  BY DEF CallInv, HeldRowIsOpen
<1>3. QED
  BY <1>1, <1>2, LeavingCalls

LEMMA CallsUnchanged ==
    ASSUME CallInv, UNCHANGED <<callVars, nrows, ended>>
    PROVE  CallInv'
BY DEF CallInv, CallFieldsAgree, RowSharedByFarEnds, HeldRowIsOpen,
       RowsExist, callVars

LEMMA ForgetCalls ==
    ASSUME TypeOK, CallInv, NEW F, Forget(F), UNCHANGED <<nrows, ended>>
    PROVE  CallInv'
BY LeavingCallsOpen DEF Forget

LEMMA CrashCalls ==
    ASSUME TypeOK, CallInv, Crash
    PROVE  CallInv'
BY ForgetCalls DEF Crash, dbVars

LEMMA HangUpCalls ==
    ASSUME TypeOK, CallInv, NEW f \in Fds, HangUp(f), nrows' = nrows
    PROVE  CallInv'
<1>1. /\ ended' \subseteq 1..nrows
      /\ SteadyClock =>
           \A g \in Fds : cid[g] # NoCid /\ cid[g] \in ended' => g \in {f, peer[f]}
  BY HoldersOfEndedRow DEF HangUp
<1>2. QED
  BY <1>1, LeavingCalls DEF HangUp

\* Logout, whether or not the session is deleted after it.
LEMMA LogoutCalls ==
    ASSUME TypeOK, CallInv, NEW f \in Fds, NEW s, NEW gone,
           Logout(f, s, gone), nrows' = nrows
    PROVE  CallInv'
<1>1. CASE ~LoggedIn(f)
  <2>1. /\ peer' = Cleared(peer, gone, NoFd)
        /\ cid' = Cleared(cid, gone, NoCid)
        /\ port' = Cleared(port, gone, 0)
        /\ ended' = ended
    BY <1>1 DEF Logout
  <2>2. QED
    BY <2>1, LeavingCallsOpen
<1>2. CASE LoggedIn(f) /\ cid[f] # NoCid
  <2>1. /\ peer' = Cleared(peer, {f, peer[f]} \union gone, NoFd)
        /\ cid' = Cleared(cid, {f, peer[f]} \union gone, NoCid)
        /\ port' = Cleared(port, {f, peer[f]} \union gone, 0)
        /\ ended' = ended \union RowEndedBy(f)
    BY <1>2 DEF Logout
  <2>2. /\ ended' \subseteq 1..nrows
        /\ SteadyClock =>
             \A g \in Fds : cid[g] # NoCid /\ cid[g] \in ended'
                               => g \in {f, peer[f]} \union gone
    BY <2>1, HoldersOfEndedRow
  <2>3. QED
    BY <2>1, <2>2, LeavingCalls
<1>3. CASE LoggedIn(f) /\ cid[f] = NoCid
  <2>1. peer[f] = NoFd
    BY <1>3 DEF CallInv, CallFieldsAgree
  <2>2. peer' = Cleared(peer, {f, NoFd} \union gone, NoFd)
    BY <1>3, <2>1 DEF Logout
  <2>3. NoFd \notin Fds
    BY DEF NoFd
  <2>4. peer' = Cleared(peer, gone, NoFd)
    BY <2>1, <2>2, <2>3 DEF Cleared
  <2>5. /\ cid' = Cleared(cid, gone, NoCid)
        /\ port' = Cleared(port, gone, 0)
        /\ ended' = ended
    BY <1>3 DEF Logout, RowEndedBy
  <2>6. QED
    BY <2>4, <2>5, LeavingCallsOpen
<1>4. QED
  BY <1>1, <1>2, <1>3

LEMMA SocketKillCalls ==
    ASSUME TypeOK, CallInv, NEW f \in Fds, NEW s, SocketKill(f, s), nrows' = nrows
    PROVE  CallInv'
<1>1. CASE zombie[f]
  BY <1>1, CallsUnchanged DEF SocketKill
<1>2. CASE ~zombie[f]
  BY <1>2, LogoutCalls DEF SocketKill
<1>3. QED
  BY <1>1, <1>2

LEMMA RefuseCalls ==
    ASSUME TypeOK, CallInv, NEW f \in Fds, NEW code, Refuse(f, code)
    PROVE  CallInv'
BY CrashCalls, SocketKillCalls DEF Refuse

LEMMA InitiateCallCalls ==
    ASSUME TypeOK, CallInv, NEW f \in Fds, NEW u \in Uids, NEW d \in Fds,
           InitiateCall(f, u, d)
    PROVE  CallInv'
<1>1. PICK p \in Ports, q \in Ports : port' = [port EXCEPT ![f] = p, ![d] = q]
  BY DEF InitiateCall
<1>2. PICK row \in LatestRow(f) : cid' = [cid EXCEPT ![f] = row, ![d] = row]
  BY DEF InitiateCall
<1>3. row \in 1..nrows + 1 /\ (SteadyClock => row = nrows + 1)
  BY DEF LatestRow, TypeOK
<1>4. \A g \in Fds :
        /\ peer'[g] = IF g = d THEN f ELSE IF g = f THEN d ELSE peer[g]
        /\ cid'[g] = IF g \in {f, d} THEN row ELSE cid[g]
        /\ port'[g] = IF g = d THEN q ELSE IF g = f THEN p ELSE port[g]
  BY <1>1, <1>2 DEF InitiateCall, TypeOK
<1>5. nrows' = nrows + 1 /\ ended' = ended /\ nrows \in Nat
  BY DEF InitiateCall, TypeOK
<1>6. \A g \in Fds : cid[g] # NoCid => cid[g] \in 1..nrows
  BY DEF CallInv, RowsExist
<1>7. CallFieldsAgree'
  BY <1>3, <1>4, <1>5 DEF CallInv, CallFieldsAgree, NoFd, NoCid
<1>8. RowSharedByFarEnds'
  <2> SUFFICES ASSUME SteadyClock, NEW g \in Fds, NEW h \in Fds, g # h,
                      cid'[g] # NoCid, cid'[g] = cid'[h]
               PROVE  peer'[g] = h /\ peer'[h] = g
    BY DEF RowSharedByFarEnds
  <2>1. CASE g \in {f, d} /\ h \in {f, d}
    BY <1>4, <2>1
  <2>2. CASE g \notin {f, d} /\ h \notin {f, d}
    BY <1>4, <2>2 DEF CallInv, RowSharedByFarEnds
  <2>3. CASE (g \in {f, d}) # (h \in {f, d})
    BY <1>3, <1>4, <1>5, <1>6, <2>3
  <2>4. QED
    BY <2>1, <2>2, <2>3
<1>9. HeldRowIsOpen'
  <2> SUFFICES ASSUME SteadyClock, NEW g \in Fds, cid'[g] # NoCid
               PROVE  cid'[g] \in (1..nrows') \ ended'
    BY DEF HeldRowIsOpen
  <2>1. CASE g \notin {f, d}
    BY <1>4, <1>5, <2>1 DEF CallInv, HeldRowIsOpen
  <2>2. CASE g \in {f, d}
    BY <1>3, <1>4, <1>5, <2>2 DEF CallInv, RowsExist
  <2>3. QED
    BY <2>1, <2>2
<1>10. RowsExist'
  BY <1>3, <1>4, <1>5, <1>6 DEF CallInv, RowsExist
<1>11. QED
  BY <1>7, <1>8, <1>9, <1>10 DEF CallInv

LEMMA CallInvStep ==
    ASSUME TypeOK, CallInv, [Next]_vars
    PROVE  CallInv'
<1>1. ASSUME UNCHANGED <<callVars, dbVars>> PROVE CallInv'
  BY <1>1, CallsUnchanged DEF dbVars
<1>2. ASSUME NEW f \in Fds, NEW a \in Addrs, NewConnection(f, a)
      PROVE  CallInv'
  BY <1>2, ForgetCalls DEF NewConnection, dbVars
<1>3. ASSUME NEW f \in Fds, ConnectionClosed(f)
      PROVE  CallInv'
  BY <1>3, CrashCalls, SocketKillCalls DEF ConnectionClosed
<1>4. ASSUME NEW f \in Fds, Receive(f)
      PROVE  CallInv'
  <2>1. CASE \E u \in Uids, a \in Addrs : Login(f, u, a)
    BY <1>1, <2>1 DEF Login
  <2>2. CASE LoginUnknown(f) \/ UpdatePing(f) \/ UnknownCommand(f)
    BY <1>1, <2>2 DEF LoginUnknown, UpdatePing, UnknownCommand
  <2>3. CASE Malformed(f) \/ Unauthenticated(f)
    BY <2>3, RefuseCalls DEF Malformed, Unauthenticated
  <2>4. CASE \E matches \in BOOLEAN : Password(f, matches)
    BY <2>4, RefuseCalls, CallsUnchanged DEF Password
  <2>5. CASE \E u \in Uids, code \in ResponseCode : CallRefused(f, u, code)
    BY <1>1, <2>5 DEF CallRefused
  <2>6. CASE \E u \in Uids, d \in Fds : InitiateCall(f, u, d)
    BY <2>6, InitiateCallCalls
  <2>7. CASE EndCall(f)
    BY <2>7, CrashCalls, HangUpCalls DEF EndCall
  <2>8. CASE \E m \in Forwardable : ForwardMessage(f, m)
    BY <1>1, <2>8, CrashCalls DEF ForwardMessage
  <2>9. QED
    BY <1>4, <2>1, <2>2, <2>3, <2>4, <2>5, <2>6, <2>7, <2>8 DEF Receive
<1>5. ASSUME NEW f \in Fds, PingVisit(f)
      PROVE  CallInv'
  BY <1>1, <1>5, CrashCalls, LogoutCalls DEF PingVisit
<1>6. CASE ZombieData
  BY <1>1, <1>6, CrashCalls, ForgetCalls DEF ZombieData, dbVars
<1>7. CASE PingTimerData
  BY <1>1, <1>7 DEF PingTimerData
<1>8. CASE Terminate
  BY <1>8, CrashCalls DEF Terminate
<1>9. CASE Restart
  BY <1>1, <1>9 DEF Restart
<1>10. CASE UNCHANGED vars
  BY <1>1, <1>10 DEF vars
<1>11. QED
  BY <1>2, <1>3, <1>4, <1>5, <1>6, <1>7, <1>8, <1>9, <1>10 DEF Next

\* In every reachable state a session's call fields agree, a CALLS row is held
\* only by two sessions that are each other's far end (or by one), and no held
\* row has been ended.
THEOREM CallsConsistent == Spec => []CallInv
<1>1. Init => CallInv
  BY DEF Init, CallInv, CallFieldsAgree, RowSharedByFarEnds, HeldRowIsOpen,
         RowsExist
<1>2. TypeOK /\ CallInv /\ [Next]_vars => CallInv'
  BY CallInvStep
<1>3. QED
  BY <1>1, <1>2, TypeCorrect, PTL DEF Spec

\* The parts of CallInv that the runs check, one theorem each: Logout may tell
\* from the cid alone whether there is a call to end.
THEOREM CallFieldsAlwaysAgree == Spec => []CallFieldsAgree
<1>1. CallInv => CallFieldsAgree
  BY DEF CallInv
<1>2. QED
  BY <1>1, CallsConsistent, PTL

\* EndCall finds every session that holds the row it ends.
THEOREM HoldersAreFarEnds == Spec => []RowSharedByFarEnds
<1>1. CallInv => RowSharedByFarEnds
  BY DEF CallInv
<1>2. QED
  BY <1>1, CallsConsistent, PTL

\* No row of CALLS is ended twice.
THEOREM HeldRowsStayOpen == Spec => []HeldRowIsOpen
<1>1. CallInv => HeldRowIsOpen
  BY DEF CallInv
<1>2. QED
  BY <1>1, CallsConsistent, PTL

-----------------------------------------------------------------------------
(***************************************************************************)
(* Nobody leaves a call untold.                                            *)
(***************************************************************************)
LeavesUntold(f) ==
    /\ f \in conns /\ f \in conns'
    /\ sock[f] /\ peer[f] # NoFd /\ peer'[f] = NoFd
    /\ ~Sent(f, Plain("MS"))'

\* EndCall(f) writes an MS to f and to its far end.
LEMMA StopMediaTells ==
    ASSUME NEW f \in Fds, NEW s \in Seq(Message), NEW g \in Fds,
           g \in {f, peer[f]}
    PROVE  \E i \in 1..Len(StopMedia(f, s)[g]) : StopMedia(f, s)[g][i] = Plain("MS")
<1> DEFINE ms == Plain("MS")
           t == StopMedia(f, s)[g]
<1>1. ms \in Message
  BY MessageTypes
<1>2. t = (IF g = f THEN s ELSE <<>>)
          \o (IF g = peer[f] THEN <<ms>> ELSE <<>>)
          \o (IF g = f THEN <<ms>> ELSE <<>>)
  BY DEF StopMedia
<1> HIDE DEF ms, t
<1>3. CASE g = f
  <2> DEFINE r == s \o (IF g = peer[f] THEN <<ms>> ELSE <<>>)
  <2>1. r \in Seq(Message)
    BY <1>1
  <2>2. t = r \o <<ms>>
    BY <1>2, <1>3
  <2> HIDE DEF r
  <2>3. Len(t) = Len(r) + 1 /\ t[Len(r) + 1] = ms /\ Len(r) \in Nat
    BY <1>1, <2>1, <2>2
  <2>4. QED
    BY <2>3 DEF ms, t
<1>4. CASE g # f
  <2>1. t = <<ms>>
    BY <1>1, <1>2, <1>4
  <2>2. QED
    BY <2>1 DEF ms, t
<1>5. QED
  BY <1>3, <1>4

LEMMA PeerUnchangedTells ==
    ASSUME NEW f \in Fds, UNCHANGED peer
    PROVE  ~LeavesUntold(f)
BY DEF LeavesUntold

LEMMA HangUpTells ==
    ASSUME TypeOK, NEW g \in Fds, HangUp(g), NEW f \in Fds
    PROVE  ~LeavesUntold(f)
<1>1. CASE f \in {g, peer[g]}
  <2>1. <<>> \in Seq(Message)
    OBVIOUS
  <2>2. out' = StopMedia(g, <<>>)
    BY DEF HangUp
  <2>3. Sent(f, Plain("MS"))'
    <3>1. \E i \in 1..Len(StopMedia(g, <<>>)[f]) :
             StopMedia(g, <<>>)[f][i] = Plain("MS")
      BY <1>1, <2>1, StopMediaTells
    <3>2. QED
      BY <2>2, <3>1 DEF Sent
  <2>4. QED
    BY <2>3 DEF LeavesUntold
<1>2. CASE f \notin {g, peer[g]}
  BY <1>2 DEF HangUp, Cleared, LeavesUntold
<1>3. QED
  BY <1>1, <1>2

LEMMA LogoutTells ==
    ASSUME TypeOK, CallInv, NEW g \in Fds, NEW s \in Seq(Message), NEW gone,
           Logout(g, s, gone), NEW f \in Fds, f \notin gone
    PROVE  ~LeavesUntold(f)
<1>1. CASE LoggedIn(g) /\ cid[g] # NoCid /\ f \in {g, peer[g]}
  <2>1. out' = StopMedia(g, s)
    BY <1>1 DEF Logout
  <2>2. Sent(f, Plain("MS"))'
    <3>1. \E i \in 1..Len(StopMedia(g, s)[f]) : StopMedia(g, s)[f][i] = Plain("MS")
      BY <1>1, StopMediaTells
    <3>2. QED
      BY <2>1, <3>1 DEF Sent
  <2>3. QED
    BY <2>2 DEF LeavesUntold
<1>2. CASE LoggedIn(g) /\ cid[g] = NoCid
  <2>1. peer[g] = NoFd
    BY <1>2 DEF CallInv, CallFieldsAgree
  <2>2. peer'[f] = NoFd => peer[f] = NoFd
    BY <1>2, <2>1 DEF Logout, Cleared, NoFd
  <2>3. QED
    BY <2>2 DEF LeavesUntold
<1>3. CASE ~LoggedIn(g) \/ f \notin {g, peer[g]}
  <2>1. peer'[f] = peer[f]
    BY <1>3 DEF Logout, Cleared
  <2>2. QED
    BY <2>1 DEF LeavesUntold
<1>4. QED
  BY <1>1, <1>2, <1>3

LEMMA CrashTells ==
    ASSUME TypeOK, Crash, NEW f \in Fds
    PROVE  ~LeavesUntold(f)
BY DEF Crash, DropSockets, LeavesUntold

LEMMA SocketKillTells ==
    ASSUME TypeOK, CallInv, NEW g \in Fds, NEW s \in Seq(Message),
           SocketKill(g, s), NEW f \in Fds
    PROVE  ~LeavesUntold(f)
<1>1. CASE zombie[g]
  BY <1>1, PeerUnchangedTells DEF SocketKill, callVars
<1>2. CASE ~zombie[g]
  <2>1. Logout(g, s, {})
    BY <1>2 DEF SocketKill
  <2>2. QED
    BY <2>1, LogoutTells
<1>3. QED
  BY <1>1, <1>2

LEMMA RefuseTells ==
    ASSUME TypeOK, CallInv, NEW g \in Fds, NEW code \in ResponseCode,
           Refuse(g, code), NEW f \in Fds
    PROVE  ~LeavesUntold(f)
<1>1. <<ER(code)>> \in Seq(Message)
  BY MessageTypes
<1>2. QED
  BY <1>1, CrashTells, SocketKillTells DEF Refuse

LEMMA InitiateCallTells ==
    ASSUME TypeOK, NEW g \in Fds, NEW u \in Uids, NEW d \in Fds,
           InitiateCall(g, u, d), NEW f \in Fds
    PROVE  ~LeavesUntold(f)
<1>1. peer' = [peer EXCEPT ![g] = d, ![d] = g]
  BY DEF InitiateCall
<1>2. QED
  BY <1>1 DEF TypeOK, LeavesUntold, NoFd

LEMMA StepTells ==
    ASSUME TypeOK, CallInv, Next, NEW f \in Fds
    PROVE  ~LeavesUntold(f)
<1>1. ASSUME NEW g \in Fds, NEW a \in Addrs, NewConnection(g, a)
      PROVE  ~LeavesUntold(f)
  <2>1. CASE f = g
    BY <1>1, <2>1 DEF NewConnection, LeavesUntold
  <2>2. CASE f # g
    BY <1>1, <2>2 DEF NewConnection, Forget, Cleared, LeavesUntold
  <2>3. QED
    BY <2>1, <2>2
<1>2. ASSUME NEW g \in Fds, ConnectionClosed(g)
      PROVE  ~LeavesUntold(f)
  <2>1. <<>> \in Seq(Message)
    OBVIOUS
  <2>2. QED
    BY <1>2, <2>1, CrashTells, SocketKillTells DEF ConnectionClosed
<1>3. ASSUME NEW g \in Fds, Receive(g)
      PROVE  ~LeavesUntold(f)
  <2>1. CASE \E u \in Uids, a \in Addrs : Login(g, u, a)
    BY <2>1, PeerUnchangedTells DEF Login, callVars
  <2>2. CASE LoginUnknown(g) \/ UpdatePing(g) \/ UnknownCommand(g)
    BY <2>2, PeerUnchangedTells DEF LoginUnknown, UpdatePing, UnknownCommand, callVars
  <2>3. CASE Malformed(g) \/ Unauthenticated(g)
    <3>1. 3 \in ResponseCode /\ 5 \in ResponseCode
      BY DEF ResponseCode
    <3>2. QED
      BY <2>3, <3>1, RefuseTells DEF Malformed, Unauthenticated
  <2>4. CASE \E matches \in BOOLEAN : Password(g, matches)
    <3>1. 1 \in ResponseCode /\ 2 \in ResponseCode
      BY DEF ResponseCode
    <3>2. QED
      BY <2>4, <3>1, RefuseTells, PeerUnchangedTells DEF Password, callVars
  <2>5. CASE \E u \in Uids, code \in ResponseCode : CallRefused(g, u, code)
    BY <2>5, PeerUnchangedTells DEF CallRefused, callVars
  <2>6. CASE \E u \in Uids, d \in Fds : InitiateCall(g, u, d)
    BY <2>6, InitiateCallTells
  <2>7. CASE EndCall(g)
    BY <2>7, CrashTells, HangUpTells DEF EndCall
  <2>8. CASE \E m \in Forwardable : ForwardMessage(g, m)
    BY <2>8, CrashTells, PeerUnchangedTells DEF ForwardMessage, callVars
  <2>9. QED
    BY <1>3, <2>1, <2>2, <2>3, <2>4, <2>5, <2>6, <2>7, <2>8 DEF Receive
<1>4. ASSUME NEW g \in Fds, PingVisit(g)
      PROVE  ~LeavesUntold(f)
  <2>1. <<>> \in Seq(Message)
    OBVIOUS
  <2>2. CASE Logout(g, <<>>, {g}) /\ DropSockets({g})
    <3>1. CASE f = g
      BY <2>2, <3>1 DEF DropSockets, LeavesUntold
    <3>2. CASE f # g
      <4>1. f \notin {g}
        BY <3>2
      <4>2. QED
        BY <2>1, <2>2, <4>1, LogoutTells
    <3>3. QED
      BY <3>1, <3>2
  <2>3. CASE UNCHANGED callVars
    BY <2>3, PeerUnchangedTells DEF callVars
  <2>4. QED
    BY <1>4, <2>2, <2>3, CrashTells DEF PingVisit
<1>5. CASE ZombieData
  <2>1. ASSUME NEW F, DropSockets(F), Forget(F)
        PROVE  ~LeavesUntold(f)
    BY <2>1 DEF DropSockets, Forget, Cleared, LeavesUntold
  <2>2. CASE UNCHANGED callVars
    BY <2>2, PeerUnchangedTells DEF callVars
  <2>3. QED
    BY <1>5, <2>1, <2>2, CrashTells DEF ZombieData
<1>6. CASE PingTimerData \/ Restart
  BY <1>6, PeerUnchangedTells DEF PingTimerData, Restart, callVars
<1>7. CASE Terminate
  BY <1>7, CrashTells DEF Terminate
<1>8. QED
  BY <1>1, <1>2, <1>3, <1>4, <1>5, <1>6, <1>7 DEF Next

\* Whatever ends a call, the sessions that leave it and stay connected have been
\* written an MS in the same step.
THEOREM NobodyLeavesUntold == Spec => ToldWhenCallEnds
<1> DEFINE Told == \A f \in conns \intersect conns' :
                     sock[f] /\ peer[f] # NoFd /\ peer'[f] = NoFd
                        => Sent(f, Plain("MS"))'
<1>1. TypeOK /\ CallInv /\ [Next]_vars => [Told]_vars
  <2> SUFFICES ASSUME TypeOK, CallInv, Next
               PROVE  Told
    OBVIOUS
  <2>1. conns \subseteq Fds
    BY DEF TypeOK
  <2>2. \A f \in Fds : ~LeavesUntold(f)
    BY StepTells
  <2>3. QED
    BY <2>1, <2>2 DEF LeavesUntold
<1>2. QED
  BY <1>1, TypeCorrect, CallsConsistent, PTL DEF Spec, ToldWhenCallEnds

-----------------------------------------------------------------------------
(***************************************************************************)
(* RTP ports.  GeneratePort looks for a port no session *seen under* the   *)
(* given address uses, and InitiateCall gives it the local address when    *)
(* the two ends share one.  The two agree where there is no address        *)
(* translation and the session's user is known: the invariant adds that a  *)
(* session which may place a call is logged in, or is a zombie.            *)
(***************************************************************************)
HostsKnown ==
    \A f \in conns :
        /\ addr[f] \in Addrs
        /\ uid[f] # NoUid => laddr[f] \in LocalOf[addr[f]]
        /\ auth[f] /\ ~zombie[f] => uid[f] # NoUid

HostInv == HostsKnown /\ PortsDistinct

\* Steps that add no session and no port.
LEMMA HostsShrink ==
    ASSUME TypeOK, HostInv, conns' \subseteq conns,
           \A f \in conns' :
              /\ addr'[f] = addr[f]
              /\ zombie[f] => zombie'[f]
              /\ auth'[f] => auth[f]
              /\ port'[f] \in {port[f], 0}
              /\ \/ uid'[f] = uid[f] /\ laddr'[f] = laddr[f]
                 \/ uid'[f] = NoUid /\ (zombie'[f] \/ ~auth'[f])
    PROVE  HostInv'
<1>1. HostsKnown'
  BY DEF HostInv, HostsKnown
<1>2. PortsDistinct'
  BY DEF HostInv, PortsDistinct, NoNat
<1>3. QED
  BY <1>1, <1>2 DEF HostInv

LEMMA HostsUnchanged ==
    ASSUME HostInv, UNCHANGED <<conns, addr, zombie, idVars, callVars>>
    PROVE  HostInv'
BY DEF HostInv, HostsKnown, PortsDistinct, idVars, callVars

LEMMA CrashHosts ==
    ASSUME TypeOK, HostInv, Crash
    PROVE  HostInv'
<1>1. conns' = {}
  BY DEF Crash, DropSockets, TypeOK
<1>2. QED
  BY <1>1, HostsShrink

LEMMA ForgetHosts ==
    ASSUME TypeOK, HostInv, NEW F, DropSockets(F), Forget(F)
    PROVE  HostInv'
<1>1. conns' = conns \ F /\ conns \subseteq Fds
  BY DEF DropSockets, TypeOK
<1>2. \A f \in conns' :
        /\ addr'[f] = addr[f] /\ zombie'[f] = zombie[f] /\ auth'[f] = auth[f]
        /\ port'[f] = port[f] /\ uid'[f] = uid[f] /\ laddr'[f] = laddr[f]
  BY <1>1 DEF DropSockets, Forget, Cleared
<1>3. QED
  BY <1>1, <1>2, HostsShrink

\* What Logout(f) does to every session that is not deleted after it.
LoggedOutAt(f, g) ==
    /\ auth'[g] = auth[g]
    /\ port'[g] \in {port[g], 0}
    /\ \/ uid'[g] = uid[g] /\ laddr'[g] = laddr[g]
       \/ g = f /\ LoggedIn(f) /\ uid'[g] = NoUid

LEMMA LogoutAt ==
    ASSUME TypeOK, NEW f \in Fds, NEW s, NEW gone, Logout(f, s, gone),
           NEW g \in Fds, g \notin gone
    PROVE  LoggedOutAt(f, g)
<1>1. auth'[g] = auth[g]
  BY DEF Logout, Cleared
<1>2. port'[g] \in {port[g], 0}
  BY DEF Logout, Cleared
<1>3. \/ uid'[g] = uid[g] /\ laddr'[g] = laddr[g]
      \/ g = f /\ LoggedIn(f) /\ uid'[g] = NoUid
  BY DEF Logout, Cleared
<1>4. QED
  BY <1>1, <1>2, <1>3 DEF LoggedOutAt

LEMMA SocketKillHosts ==
    ASSUME TypeOK, HostInv, NEW f \in Fds, NEW s, SocketKill(f, s),
           UNCHANGED <<conns, addr>>
    PROVE  HostInv'
<1>1. CASE zombie[f]
  BY <1>1, HostsUnchanged DEF SocketKill
<1>2. CASE ~zombie[f]
  <2>1. Logout(f, s, {}) /\ zombie' = [zombie EXCEPT ![f] = TRUE]
    BY <1>2 DEF SocketKill
  <2>2. conns \subseteq Fds /\ zombie \in [Fds -> BOOLEAN]
    BY DEF TypeOK
  <2>3. ASSUME NEW g \in conns PROVE LoggedOutAt(f, g)
    <3>1. g \in Fds /\ g \notin {}
      BY <2>2
    <3>2. QED
      BY <2>1, <3>1, LogoutAt
  <2>4. \A g \in conns :
          /\ auth'[g] = auth[g] /\ port'[g] \in {port[g], 0}
          /\ zombie[g] => zombie'[g]
          /\ \/ uid'[g] = uid[g] /\ laddr'[g] = laddr[g]
             \/ uid'[g] = NoUid /\ zombie'[g]
    BY <2>1, <2>2, <2>3 DEF LoggedOutAt
  <2>5. QED
    BY <2>4, HostsShrink
<1>3. QED
  BY <1>1, <1>2

LEMMA RefuseHosts ==
    ASSUME TypeOK, HostInv, NEW f \in Fds, NEW code, Refuse(f, code)
    PROVE  HostInv'
BY CrashHosts, SocketKillHosts DEF Refuse

LEMMA NewConnectionHosts ==
    ASSUME TypeOK, HostInv, NEW f \in Fds, NEW a \in Addrs, NewConnection(f, a)
    PROVE  HostInv'
<1>1. /\ conns' = conns \union {f} /\ conns \subseteq Fds
      /\ addr'[f] = a /\ uid'[f] = NoUid /\ auth'[f] = FALSE /\ port'[f] = 0
  BY DEF NewConnection, Forget, Cleared, TypeOK
<1>2. \A g \in conns \ {f} :
        /\ addr'[g] = addr[g] /\ zombie'[g] = zombie[g] /\ auth'[g] = auth[g]
        /\ port'[g] = port[g] /\ uid'[g] = uid[g] /\ laddr'[g] = laddr[g]
  BY <1>1 DEF NewConnection, Forget, Cleared, TypeOK
<1>3. HostsKnown'
  BY <1>1, <1>2 DEF HostInv, HostsKnown
<1>4. PortsDistinct'
  BY <1>1, <1>2 DEF HostInv, PortsDistinct, NoNat
<1>5. QED
  BY <1>3, <1>4 DEF HostInv

LEMMA LoginHosts ==
    ASSUME TypeOK, HostInv, NEW f \in Fds, NEW u \in Uids, NEW a \in Addrs,
           Login(f, u, a)
    PROVE  HostInv'
<1>1. HostsKnown'
  BY DEF Login, HostInv, HostsKnown, TypeOK, sockVars
<1>2. PortsDistinct'
  BY DEF Login, HostInv, PortsDistinct, NoNat, sockVars, callVars
<1>3. QED
  BY <1>1, <1>2 DEF HostInv

LEMMA PasswordHosts ==
    ASSUME TypeOK, HostInv, NEW f \in Fds, NEW matches, Password(f, matches)
    PROVE  HostInv'
<1>1. CASE Refuse(f, 1) \/ Refuse(f, 2)
  BY <1>1, RefuseHosts
<1>2. CASE /\ uid[f] # NoUid
           /\ auth' = [auth EXCEPT ![f] = TRUE]
           /\ UNCHANGED <<sockVars, uid, laddr, callVars>>
  <2>1. HostsKnown'
    BY <1>2 DEF HostInv, HostsKnown, TypeOK, sockVars
  <2>2. PortsDistinct'
    BY <1>2 DEF HostInv, PortsDistinct, NoNat, sockVars, callVars
  <2>3. QED
    BY <2>1, <2>2 DEF HostInv
<1>3. QED
  BY <1>1, <1>2 DEF Password

LEMMA InitiateCallHosts ==
    ASSUME TypeOK, HostInv, NEW f \in Fds, NEW u \in Uids, NEW d \in Fds,
           InitiateCall(f, u, d)
    PROVE  HostInv'
<1>1. /\ UNCHANGED <<sockVars, idVars>>
      /\ f \in conns /\ d \in conns /\ auth[f] /\ uid[d] = u /\ conns \subseteq Fds
  BY DEF InitiateCall, Command, IsConnectionOf, TypeOK
<1>2. HostsKnown'
  BY <1>1 DEF HostInv, HostsKnown, sockVars, idVars
<1>3. PortsDistinct'
  <2> SUFFICES ASSUME NoNat, NEW g \in conns, NEW h \in conns, g # h,
                      ~zombie[g], ~zombie[h], addr[g] = addr[h]
               PROVE  port'[g] # port'[h] \/ port'[g] = 0
    BY <1>1 DEF PortsDistinct, NoNat, sockVars
  <2> DEFINE srcAddr == IF addr[f] = addr[d] THEN laddr[f] ELSE addr[f]
             dstAddr == IF addr[f] = addr[d] THEN laddr[d] ELSE addr[d]
  <2>1. PICK p \in Ports, q \in Ports :
          /\ IsGeneratedPort(p, srcAddr, port)
          /\ IsGeneratedPort(q, dstAddr, [port EXCEPT ![f] = p])
          /\ port' = [port EXCEPT ![f] = p, ![d] = q]
    BY DEF InitiateCall
  <2>2. \A k \in conns : port'[k] = IF k = d THEN q ELSE IF k = f THEN p ELSE port[k]
    BY <1>1, <2>1 DEF TypeOK
  <2>3. ~zombie[f] => srcAddr = addr[f]
    BY <1>1 DEF HostInv, HostsKnown, NoNat
  <2>4. dstAddr = addr[d]
    BY <1>1 DEF HostInv, HostsKnown, NoNat
  <2> HIDE DEF srcAddr, dstAddr
  <2>5. \A k \in conns : addr[k] = srcAddr => port[k] # p
    BY <2>1 DEF IsGeneratedPort
  <2>6. \A k \in conns : addr[k] = dstAddr => [port EXCEPT ![f] = p][k] # q
    BY <2>1 DEF IsGeneratedPort
  <2>7. \A k \in conns \ {d} : addr[k] = addr[d] => port'[k] # q
    BY <1>1, <2>2, <2>4, <2>6 DEF TypeOK
  <2>8. CASE g = d \/ h = d
    BY <2>2, <2>7, <2>8
  <2>9. CASE g # d /\ h # d /\ (g = f \/ h = f)
    BY <2>2, <2>3, <2>5, <2>9
  <2>10. CASE g \notin {d, f} /\ h \notin {d, f}
    BY <2>2, <2>10 DEF HostInv, PortsDistinct
  <2>11. QED
    BY <2>8, <2>9, <2>10
<1>4. QED
  BY <1>2, <1>3 DEF HostInv

LEMMA PingVisitHosts ==
    ASSUME TypeOK, HostInv, NEW f \in Fds, PingVisit(f)
    PROVE  HostInv'
<1>1. CASE UNCHANGED <<conns, addr, zombie, idVars, callVars>>
  BY <1>1, HostsUnchanged
<1>2. CASE DropSockets({f}) /\ Logout(f, <<>>, {f})
  <2>1. conns' = conns \ {f} /\ conns \subseteq Fds
    BY <1>2 DEF DropSockets, TypeOK
  <2>2. \A g \in conns' : addr'[g] = addr[g] /\ zombie'[g] = zombie[g]
    BY <1>2, <2>1 DEF DropSockets, Cleared
  <2>3. ASSUME NEW g \in conns' PROVE LoggedOutAt(f, g)
    <3>1. g \in Fds /\ g # f /\ g \notin {f}
      BY <2>1
    <3>2. QED
      BY <1>2, <3>1, LogoutAt
  <2>4. \A g \in conns' :
          /\ auth'[g] = auth[g] /\ port'[g] \in {port[g], 0}
          /\ uid'[g] = uid[g] /\ laddr'[g] = laddr[g]
    BY <2>1, <2>3 DEF LoggedOutAt
  <2>5. QED
    BY <2>1, <2>2, <2>4, HostsShrink
<1>3. QED
  BY <1>1, <1>2, CrashHosts DEF PingVisit

LEMMA ReceiveHosts ==
    ASSUME TypeOK, HostInv, NEW f \in Fds, Receive(f)
    PROVE  HostInv'
<1>1. CASE \E u \in Uids, a \in Addrs : Login(f, u, a)
  BY <1>1, LoginHosts
<1>2. CASE LoginUnknown(f) \/ UnknownCommand(f)
  BY <1>2, HostsUnchanged DEF LoginUnknown, UnknownCommand, sockVars
<1>3. CASE UpdatePing(f)
  BY <1>3, HostsUnchanged DEF UpdatePing
<1>4. CASE Malformed(f) \/ Unauthenticated(f)
  BY <1>4, RefuseHosts DEF Malformed, Unauthenticated
<1>5. CASE \E matches \in BOOLEAN : Password(f, matches)
  BY <1>5, PasswordHosts
<1>6. CASE \E u \in Uids, code \in ResponseCode : CallRefused(f, u, code)
  BY <1>6, HostsUnchanged DEF CallRefused, sockVars
<1>7. CASE \E u \in Uids, d \in Fds : InitiateCall(f, u, d)
  BY <1>7, InitiateCallHosts
<1>8. CASE EndCall(f)
  <2>1. CASE Crash
    BY <2>1, CrashHosts
  <2>2. CASE HangUp(f) /\ UNCHANGED <<sockVars, idVars>>
    <3>1. \A g \in Fds : port'[g] \in {port[g], 0}
      BY <2>2 DEF HangUp, Cleared
    <3>2. conns \subseteq Fds
      BY DEF TypeOK
    <3>3. QED
      BY <2>2, <3>1, <3>2, HostsShrink DEF sockVars, idVars
  <2>3. QED
    BY <1>8, <2>1, <2>2 DEF EndCall
<1>9. CASE \E m \in Forwardable : ForwardMessage(f, m)
  BY <1>9, CrashHosts, HostsUnchanged DEF ForwardMessage, sockVars
<1>10. QED
  BY <1>1, <1>2, <1>3, <1>4, <1>5, <1>6, <1>7, <1>8, <1>9 DEF Receive

LEMMA ConnectionClosedHosts ==
    ASSUME TypeOK, HostInv, NEW f \in Fds, ConnectionClosed(f)
    PROVE  HostInv'
BY CrashHosts, SocketKillHosts DEF ConnectionClosed

\* Two sessions of one host are never given the same RTP port, however calls,
\* logins, kills and reused descriptors interleave, where no address is
\* translated.
THEOREM PortsNeverShared == Spec => []PortsDistinct
<1>1. Init => HostInv
  BY DEF Init, HostInv, HostsKnown, PortsDistinct
<1>2. TypeOK /\ HostInv /\ [Next]_vars => HostInv'
  <2> SUFFICES ASSUME TypeOK, HostInv, [Next]_vars
               PROVE  HostInv'
    OBVIOUS
  <2>1. CASE UNCHANGED vars
    BY <2>1, HostsUnchanged DEF vars, sockVars
  <2>2. CASE \E f \in Fds : \/ \E a \in Addrs : NewConnection(f, a)
                            \/ ConnectionClosed(f)
                            \/ Receive(f)
                            \/ PingVisit(f)
    BY <2>2, NewConnectionHosts, ConnectionClosedHosts, ReceiveHosts, PingVisitHosts
  <2>3. CASE ZombieData
    BY <2>3, CrashHosts, ForgetHosts, HostsUnchanged DEF ZombieData, sockVars
  <2>4. CASE PingTimerData \/ Restart
    BY <2>4, HostsUnchanged DEF PingTimerData, Restart, sockVars
  <2>5. CASE Terminate
    BY <2>5, CrashHosts DEF Terminate
  <2>6. QED
    BY <2>1, <2>2, <2>3, <2>4, <2>5 DEF Next
<1>3. HostInv => PortsDistinct
  BY DEF HostInv
<1>4. QED
  BY <1>1, <1>2, <1>3, TypeCorrect, PTL DEF Spec
=============================================================================
