-------------------------------- MODULE Gpio --------------------------------
(***************************************************************************)
(* General purpose lines, from station A to station B.  Programs at A send  *)
(* RML commands by UDP; each sets or clears a line of codec_trans_gpio, for *)
(* good or for a while, when a OneShot clears it again.  Every RTCP report  *)
(* of A carries the whole mask.  B compares a report with the last one and  *)
(* sends the command it is configured with for each line that changed.      *)
(*                                                                         *)
(* Reports are lost, delayed and overtaken, across calls too; equal reports *)
(* that are under way together count as one.  Either program may end and    *)
(* start again; what B's commands have switched stays switched.  The        *)
(* answers to the echo port and the commands' texts at B are left out.      *)
(***************************************************************************)
EXTENDS Integers, FiniteSets, SequencesExt

CONSTANTS
    Lines,        \* lines the commands name, counted from 0
    Numbers,      \* words that are numbers, and what they say
    EchoTexts,    \* what may wait in net_rml_echo_socket: words, " " and "!"
    NoEchoTexts,  \* the same in net_rml_noecho_socket
    Commands,     \* << line, state>> that B has a command and an address for
    MaxWire,      \* bound: different reports that are under way together
    MaxShots,     \* bound: pulses that A starts
    MaxReads,     \* bound: timer ticks at which A finds something to read
    MaxStarts     \* bound: calls and restarts, of both together

ASSUME GpioAssumption ==
    /\ Lines \subseteq 0..31 /\ Commands \subseteq Lines \X BOOLEAN
    /\ Numbers \in [DOMAIN Numbers -> Nat]
    /\ EchoTexts \subseteq Seq(STRING) /\ NoEchoTexts \subseteq Seq(STRING)
    /\ MaxWire \in Nat /\ MaxShots \in Nat /\ MaxReads \in Nat /\ MaxStarts \in Nat

Stations == {"A", "B"}
Reports == [gpio : SUBSET Lines, bye : BOOLEAN]

VARIABLES
    runs,       \* stations whose program runs
    inCall,     \* stations whose Codec is not idle
    trans,      \* A's codec_trans_gpio
    shots,      \* A's shot_pointers and shot_timers: id -> line, timer active
    shotCount,  \* A's shot_count
    zombie,     \* A's shot_zombie_timer runs
    wire,       \* reports under way
    recv,       \* B's codec_recv_gpio
    on,         \* lines that B's last command switched on
    pulsed,     \* history: lines that are on for a while only
    told,       \* history: lines B sent a command for since it started
    reads,      \* timer ticks so far that found something
    starts      \* calls and restarts so far

lines == << trans, shots, shotCount, zombie, pulsed>>
outputs == << recv, on, told>>
vars == << runs, inCall, lines, wire, outputs, reads, starts>>

Init ==
    /\ runs = Stations /\ inCall = {} /\ wire = {}
    /\ trans = {} /\ shots = << >> /\ shotCount = 0 /\ zombie = FALSE /\ pulsed = {}
    /\ recv = {} /\ on = {} /\ told = {}
    /\ reads = 0 /\ starts = 0

-----------------------------------------------------------------------------
(***************************************************************************)
(* RML.  rmlReadData reads both ports into one cmd, which ends at a "!":    *)
(* what is left of the echo port's text stands before the other's, and what *)
(* is left at the end is lost.  A word that is no number says 0.            *)
(***************************************************************************)
ToUInt(w) == IF w \in DOMAIN Numbers THEN Numbers[w] ELSE 0

\* One more piece of the text: the commands that are complete, the words of the
\* next one, and whether the last of them may go on
Split(a, piece) ==
    IF piece = "!" THEN [done |-> Append(a.done, a.words), words |-> << >>, open |-> FALSE]
    ELSE IF piece = " " THEN [a EXCEPT !.open = FALSE]
    ELSE IF a.open THEN [a EXCEPT !.words = Append(Front(@), Last(@) \o piece)]
    ELSE [a EXCEPT !.words = Append(@, piece), !.open = TRUE]

\* The commands of a text, each split into its words
CommandsOf(text) ==
    FoldLeft(Split, [done |-> << >>, words |-> << >>, open |-> FALSE], text).done

\* The old format has no type of line
Upconverted(cmd) ==
    IF Len(cmd) = 5 THEN SubSeq(cmd, 1, 2) \o << "O">> \o SubSeq(cmd, 3, 5) ELSE cmd

\* What sendGpio is called with: none or one << line, state, interval>>
OrdersOf(cmd) ==
    IF cmd = << >> THEN {}
    ELSE LET c == Upconverted(cmd)
             line == ToUInt(c[4]) - 1
             state == ToUInt(c[5])
         IN  IF cmd[1] = "GO" /\ Len(c) = 6 /\ ToUInt(c[2]) = 0
                /\ line \in 0..31 /\ state \in {0, 1}
             THEN {<< line, state = 1, ToUInt(c[6])>>} ELSE {}

ASSUME LinesAssumption ==
    \A echo \in EchoTexts, noecho \in NoEchoTexts :
        LET cmds == CommandsOf(echo \o noecho)
        IN  \A i \in DOMAIN cmds : \A order \in OrdersOf(cmds[i]) : order[1] \in Lines

-----------------------------------------------------------------------------
(***************************************************************************)
(* Station A's lines.  g has trans, shots, shotCount and pulsed as fields.  *)
(***************************************************************************)
\* Mutant: OneShot::start does not count, and the next pulse takes the id
StartShotSameId(g, line) ==
    [g EXCEPT !.shots = [id \in DOMAIN @ \union {g.shotCount} |->
                             IF id = g.shotCount THEN [line |-> line, active |-> TRUE]
                             ELSE @[id]],
              !.pulsed = @ \union {line}]

\* OneShot::start.  pulsed is the model's own
StartShot(g, line) ==
    [g EXCEPT !.shots = [id \in DOMAIN @ \union {g.shotCount} |->
                             IF id = g.shotCount THEN [line |-> line, active |-> TRUE]
                             ELSE @[id]],
              !.shotCount = @ + 1,
              !.pulsed = @ \union {line}]

\* A line that is on already is left as it is, its interval ignored
SendGpio(g, order) ==
    LET line == order[1] IN
    IF order[2]
    THEN IF line \in g.trans THEN g
         ELSE LET set == [g EXCEPT !.trans = @ \union {line}]
              IN  IF order[3] > 0 THEN StartShot(set, line) ELSE set
    ELSE [g EXCEPT !.trans = @ \ {line}, !.pulsed = @ \ {line}]

\* A command that is no order, or of a line or state there is not, does nothing
Obey(g, cmd) ==
    IF OrdersOf(cmd) = {} THEN g ELSE SendGpio(g, CHOOSE order \in OrdersOf(cmd) : TRUE)

RmlReadData ==
    /\ "A" \in runs /\ reads < MaxReads
    /\ \E echo \in EchoTexts, noecho \in NoEchoTexts :
         LET g == FoldLeft(Obey,
                           [trans |-> trans, shots |-> shots, shotCount |-> shotCount,
                            pulsed |-> pulsed],
                           CommandsOf(echo \o noecho))
         IN  /\ Cardinality(DOMAIN g.shots) <= MaxShots /\ g.shotCount <= MaxShots
             /\ trans' = g.trans /\ shots' = g.shots
             /\ shotCount' = g.shotCount /\ pulsed' = g.pulsed
    /\ reads' = reads + 1
    /\ UNCHANGED << runs, inCall, zombie, wire, outputs, starts>>

\* OneShot::timeoutData and Codec::transOneshotData: whoever put the line on
TimeoutData(id) ==
    /\ "A" \in runs /\ id \in DOMAIN shots /\ shots[id].active
    /\ trans' = trans \ {shots[id].line} /\ pulsed' = pulsed \ {shots[id].line}
    /\ shots' = [shots EXCEPT ![id].active = FALSE]
    /\ zombie' = TRUE
    /\ UNCHANGED << runs, inCall, shotCount, wire, outputs, reads, starts>>

\* The loop goes on from an erased iterator: it finds the others that are
\* finished or misses some, or the program ends there
ZombieData ==
    /\ "A" \in runs /\ zombie /\ zombie' = FALSE
    /\ LET finished == {id \in DOMAIN shots : ~shots[id].active} IN
       \/ \E gone \in SUBSET finished :
            /\ \E id \in gone : \A other \in finished : id <= other
            /\ shots' = [id \in DOMAIN shots \ gone |-> shots[id]]
            /\ UNCHANGED << runs, inCall>>
       \/ /\ finished # {}
          /\ runs' = runs \ {"A"} /\ inCall' = inCall \ {"A"}
          /\ UNCHANGED shots
    /\ UNCHANGED << trans, shotCount, pulsed, wire, outputs, reads, starts>>

-----------------------------------------------------------------------------
(***************************************************************************)
(* The calls, and the reports between them.                                 *)
(***************************************************************************)
Connect(s) ==
    /\ s \in runs \ inCall /\ starts < MaxStarts
    /\ inCall' = inCall \union {s} /\ starts' = starts + 1
    /\ UNCHANGED << runs, lines, wire, outputs, reads>>

\* Mutant: the receiver's mask is cleared with its statistics
DisconnectClears(s) ==
    /\ s \in inCall /\ inCall' = inCall \ {s}
    /\ wire' = IF s = "A" /\ Cardinality(wire) < MaxWire
               THEN wire \union {[gpio |-> trans, bye |-> TRUE]} ELSE wire
    /\ recv' = IF s = "B" THEN {} ELSE recv
    /\ UNCHANGED << runs, lines, on, told, reads, starts>>

\* Codec::disconnect: a last report with a BYE, and the masks stay
Disconnect(s) ==
    /\ s \in inCall /\ inCall' = inCall \ {s}
    /\ wire' = IF s = "A" /\ Cardinality(wire) < MaxWire
               THEN wire \union {[gpio |-> trans, bye |-> TRUE]} ELSE wire
    /\ UNCHANGED << runs, lines, outputs, reads, starts>>

RtcpTransmitData ==
    /\ "A" \in inCall
    /\ wire' = wire \union {[gpio |-> trans, bye |-> FALSE]}
    /\ Cardinality(wire') <= MaxWire
    /\ UNCHANGED << runs, inCall, lines, outputs, reads, starts>>

\* Mutant: a mask without a line is taken for a report without a mask
ReadPrivateSourceChunkSome(gpio) ==
    IF gpio = {} THEN UNCHANGED outputs
    ELSE LET raised == {l \in gpio \ recv : << l, TRUE>> \in Commands}
             dropped == {l \in recv \ gpio : << l, FALSE>> \in Commands}
         IN  /\ recv' = gpio
             /\ on' = (on \union raised) \ dropped
             /\ told' = told \union raised \union dropped

\* A command for each line that changed, if it has one (gpioChangedData)
ReadPrivateSourceChunk(gpio) ==
    LET raised == {l \in gpio \ recv : << l, TRUE>> \in Commands}
        dropped == {l \in recv \ gpio : << l, FALSE>> \in Commands}
    IN  /\ recv' = gpio
        /\ on' = (on \union raised) \ dropped
        /\ told' = told \union raised \union dropped

\* No sequence number, SSRC or call is looked at
RtcpReceiveData(m) ==
    /\ "B" \in inCall /\ m \in wire /\ wire' = wire \ {m}
    /\ ReadPrivateSourceChunk(m.gpio)
    /\ inCall' = IF m.bye THEN inCall \ {"B"} ELSE inCall
    /\ UNCHANGED << runs, lines, reads, starts>>

Lose(m) ==
    /\ m \in wire /\ wire' = wire \ {m}
    /\ UNCHANGED << runs, inCall, lines, outputs, reads, starts>>

\* Codec's constructor: no line is on, and no shot is under way
Restart(s) ==
    /\ starts < MaxStarts /\ starts' = starts + 1
    /\ runs' = runs \union {s} /\ inCall' = inCall \ {s}
    /\ IF s = "A"
       THEN /\ trans' = {} /\ shots' = << >> /\ shotCount' = 0
            /\ zombie' = FALSE /\ pulsed' = {} /\ UNCHANGED outputs
       ELSE recv' = {} /\ told' = {} /\ UNCHANGED << on, lines>>
    /\ UNCHANGED << wire, reads>>

Next ==
    \/ RmlReadData \/ ZombieData \/ RtcpTransmitData
    \/ \E id \in 0..(MaxShots - 1) : TimeoutData(id)
    \/ \E s \in Stations : Connect(s) \/ Disconnect(s) \/ Restart(s)
    \/ \E m \in wire : RtcpReceiveData(m) \/ Lose(m)

Current(m) == m = [gpio |-> trans, bye |-> FALSE]

\* A timer that runs goes off while the program runs.  A reports again and again
\* during a call; what is sent again and again gets through, and no report is
\* under way for ever
Spec ==
    /\ Init /\ [][Next]_vars
    /\ \A id \in 0..(MaxShots - 1) : WF_vars(TimeoutData(id))
    /\ WF_vars(RtcpTransmitData)
    /\ SF_vars(\E m \in wire : Current(m) /\ RtcpReceiveData(m))
    /\ WF_vars(\E m \in wire : ~Current(m) /\ (RtcpReceiveData(m) \/ Lose(m)))

-----------------------------------------------------------------------------
(***************************************************************************)
(* Properties.                                                              *)
(***************************************************************************)
\* The types of the variables; every shot names a line of the commands and has
\* an id below the count
TypeOK ==
    /\ runs \subseteq Stations /\ inCall \subseteq runs
    /\ {trans, recv, on, pulsed, told} \subseteq SUBSET Lines
    /\ \A id \in DOMAIN shots :
         id \in 0..(shotCount - 1) /\ shots[id] \in [line : Lines, active : BOOLEAN]
    /\ wire \subseteq Reports /\ zombie \in BOOLEAN

\* Whatever is lost, late or out of order, and across calls: a line that B has
\* both commands for stands at B's equipment as in the last report B read, once
\* B has switched it, and is off in that report until then
OutputsFollow ==
    \A l \in Lines :
        {<< l, TRUE>>, << l, FALSE>>} \subseteq Commands =>
            IF l \in told THEN (l \in on) = (l \in recv) ELSE l \notin recv

\* A pulse ends: sendGpio's line goes off again unless A's program ends first,
\* whatever else is pulsed meanwhile and whatever zombieData's loop misses
PulseEnds == \A l \in Lines : (l \in pulsed) ~> (l \notin trans \/ "A" \notin runs)

\* In a call that goes on, B ends up with A's lines and stays there: late
\* reports, also of earlier calls, upset it only for a while
Converges == <>[](inCall = Stations) => <>[](recv = trans)
=============================================================================
