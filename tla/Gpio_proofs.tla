------------------------------ MODULE Gpio_proofs ------------------------------
(***************************************************************************)
(* What holds of the lines for any texts, commands and network: B's        *)
(* equipment stands as the last report says, however late that was, and at *)
(* A every line that is on for a while has a timer that will clear it.     *)
(***************************************************************************)
EXTENDS Gpio, WellFoundedInduction, TLAPS

\* A report switches every line that changed, and no other: what B has switched agrees
\* with the report, and what it has not is as far off as it was
LEMMA ReportFollowed ==
    ASSUME OutputsFollow, NEW gpio, ReadPrivateSourceChunk(gpio)
    PROVE  OutputsFollow'
<1> DEFINE raised == {l \in gpio \ recv : <<l, TRUE>> \in Commands}
           dropped == {l \in recv \ gpio : <<l, FALSE>> \in Commands}
<1>1. /\ recv' = gpio
      /\ on' = (on \union raised) \ dropped
      /\ told' = told \union raised \union dropped
  BY DEF ReadPrivateSourceChunk
<1> SUFFICES ASSUME NEW l \in Lines, {<<l, TRUE>>, <<l, FALSE>>} \subseteq Commands
             PROVE  (IF l \in told THEN (l \in on) = (l \in recv) ELSE l \notin recv)'
  BY DEF OutputsFollow
<1>2. IF l \in told THEN (l \in on) = (l \in recv) ELSE l \notin recv
  BY DEF OutputsFollow
<1>3. CASE l \in gpio /\ l \notin recv
  BY <1>1, <1>3
<1>4. CASE l \in recv /\ l \notin gpio
  BY <1>1, <1>4
<1>5. CASE (l \in gpio) = (l \in recv)
  <2>1. l \notin raised /\ l \notin dropped
    BY <1>5
  <2> QED
    BY <1>1, <1>2, <1>5, <2>1
<1> QED
  BY <1>3, <1>4, <1>5

LEMMA OutputsFollowStep == OutputsFollow /\ [Next]_vars => OutputsFollow'
<1> SUFFICES ASSUME OutputsFollow, [Next]_vars
             PROVE  OutputsFollow'
  OBVIOUS
<1>1. CASE \E m \in wire : RtcpReceiveData(m)
  BY <1>1, ReportFollowed DEF RtcpReceiveData
<1>2. CASE Restart("B")
  BY <1>2 DEF Restart, OutputsFollow
<1>3. CASE UNCHANGED outputs
  BY <1>3 DEF outputs, OutputsFollow
<1>4. CASE RmlReadData \/ ZombieData \/ RtcpTransmitData
  BY <1>3, <1>4 DEF RmlReadData, ZombieData, RtcpTransmitData
<1>5. CASE \E id \in 0..(MaxShots - 1) : TimeoutData(id)
  BY <1>3, <1>5 DEF TimeoutData
<1>6. CASE \E s \in Stations : Connect(s) \/ Disconnect(s)
  BY <1>3, <1>6 DEF Connect, Disconnect
<1>7. CASE Restart("A")
  BY <1>3, <1>7 DEF Restart
<1>8. CASE \E m \in wire : Lose(m)
  BY <1>3, <1>8 DEF Lose
<1>9. CASE UNCHANGED vars
  BY <1>3, <1>9 DEF vars
<1> QED
  BY <1>1, <1>2, <1>4, <1>5, <1>6, <1>7, <1>8, <1>9 DEF Next, Stations

\* Whatever is lost, late or out of order, whoever restarts and however the calls begin
\* and end: the equipment at B stands as in the last report that B has read.
THEOREM OutputsAlwaysFollow == Spec => []OutputsFollow
<1>1. Init => OutputsFollow
  BY DEF Init, OutputsFollow
<1> QED
  BY <1>1, OutputsFollowStep, PTL DEF Spec

-----------------------------------------------------------------------------
(***************************************************************************)
(* Induction over data.  The library's theorems take a property as an      *)
(* operator; here it is the set of the numbers that have it.               *)
(***************************************************************************)
\* A set of numbers has a least one
LEMMA Least ==
    ASSUME NEW T \in SUBSET Nat, T # {}
    PROVE  \E x \in T : \A y \in T : x <= y
<1>1. PICK x \in T : \A y \in T : ~ (<< y, x >> \in OpToRel(<, Nat))
  BY NatLessThanWellFounded, WFMin
<1>2. \A y \in T : ~(y < x)
  BY <1>1 DEF OpToRel
<1> QED BY <1>2

\* A set with 0 and with the next number of each of its own has them all
LEMMA SetInduction ==
    ASSUME NEW T, 0 \in T, \A n \in Nat : n \in T => n + 1 \in T
    PROVE  Nat \subseteq T
<1> SUFFICES ASSUME Nat \ T # {} PROVE FALSE
  OBVIOUS
<1>1. PICK x \in Nat \ T : \A y \in Nat \ T : x <= y
  BY Least
<1>2. x - 1 \in Nat /\ x - 1 \notin Nat \ T
  BY <1>1
<1> QED BY <1>1, <1>2

-----------------------------------------------------------------------------
(***************************************************************************)
(* The two folds over what A reads: a text into commands, and commands     *)
(* into what they do.  FoldLeft goes down from the last element by a       *)
(* recursive function on sets of positions.                                *)
(***************************************************************************)
\* The greatest number of a set that has n as its greatest
LEMMA MaxIs ==
    ASSUME NEW n \in Nat, NEW s \in SUBSET (1..n), n \in s
    PROVE  Max(s) = n /\ s \ {Max(s)} \in SUBSET (1..(n - 1))
<1>1. Max(s) = n
  <2>1. \A x \in s : (\A y \in s : x >= y) => x = n
    OBVIOUS
  <2>2. \A y \in s : n >= y
    OBVIOUS
  <2> QED BY <2>1, <2>2 DEF Max
<1> QED BY <1>1

\* Both folds over texts, by one name
Step(kind, a, x) == IF kind = "split" THEN Split(a, x) ELSE Obey(a, x)
Folds(kind, h, base, text, S) ==
    h = [s \in SUBSET S |-> IF s = {} THEN base ELSE Step(kind, h[s \ {Max(s)}], text[Max(s)])]

\* There is such a function, for any number of elements: one more element adds the
\* sets that have it
LEMMA FoldsExist ==
    ASSUME NEW kind, NEW base, NEW text, NEW n \in Nat
    PROVE  \E h : Folds(kind, h, base, text, 1..n)
<1> DEFINE T == {k \in Nat : \E h : Folds(kind, h, base, text, 1..k)}
<1>1. 0 \in T
  <2> DEFINE h0 == [s \in SUBSET (1..0) |-> base]
  <2>1. \A s \in SUBSET (1..0) : s = {}
    OBVIOUS
  <2>2. Folds(kind, h0, base, text, 1..0)
    BY <2>1 DEF Folds
  <2> QED BY <2>2
<1>2. ASSUME NEW k \in Nat, k \in T PROVE k + 1 \in T
  <2>1. PICK h : Folds(kind, h, base, text, 1..k)
    BY <1>2
  <2> DEFINE g == [s \in SUBSET (1..(k + 1)) |->
                     IF k + 1 \in s THEN Step(kind, h[s \ {k + 1}], text[k + 1]) ELSE h[s]]
  <2>2. ASSUME NEW s \in SUBSET (1..(k + 1))
        PROVE  g[s] = IF s = {} THEN base ELSE Step(kind, g[s \ {Max(s)}], text[Max(s)])
    <3>1. CASE k + 1 \in s
      <4>1. Max(s) = k + 1 /\ s \ {Max(s)} \in SUBSET (1..(k + 1)) /\ k + 1 \notin s \ {Max(s)}
        BY <3>1, MaxIs
      <4>2. g[s \ {Max(s)}] = h[s \ {k + 1}]
        BY <4>1
      <4>3. g[s] = Step(kind, h[s \ {k + 1}], text[k + 1])
        BY <3>1
      <4> QED BY <3>1, <4>1, <4>2, <4>3
    <3>2. CASE k + 1 \notin s
      <4>1. s \in SUBSET (1..k)
        BY <3>2
      <4>2. s \ {Max(s)} \in SUBSET (1..(k + 1)) /\ k + 1 \notin s \ {Max(s)}
        BY <3>2
      <4>3. g[s] = h[s] /\ g[s \ {Max(s)}] = h[s \ {Max(s)}]
        BY <3>2, <4>2
      <4>4. h[s] = IF s = {} THEN base ELSE Step(kind, h[s \ {Max(s)}], text[Max(s)])
        BY <2>1, <4>1 DEF Folds
      <4> QED BY <4>3, <4>4
    <3> QED BY <3>1, <3>2
  <2>3. Folds(kind, g, base, text, 1..(k + 1))
    <3> HIDE DEF g
    <3>1. g = [s \in SUBSET (1..(k + 1)) |-> g[s]]
      BY DEF g
    <3> QED BY <2>2, <3>1 DEF Folds
  <2> QED BY <2>3
<1> QED
  <2> HIDE DEF T
  <2>1. n \in T
    BY <1>1, <1>2, SetInduction
  <2> QED BY <2>1 DEF T

\* A fold goes from one number of elements to the next
LEMMA FoldsOn ==
    ASSUME NEW kind, NEW h, NEW base, NEW text, NEW n \in Nat, Folds(kind, h, base, text, 1..n)
    PROVE  /\ h[1..0] = base
           /\ \A k \in 0..(n - 1) : h[1..(k + 1)] = Step(kind, h[1..k], text[k + 1])
<1>1. \A s \in SUBSET (1..n) : h[s] = IF s = {} THEN base
                                       ELSE Step(kind, h[s \ {Max(s)}], text[Max(s)])
  BY DEF Folds
<1>2. h[1..0] = base
  <2>1. 1..0 = {} /\ 1..0 \in SUBSET (1..n)
    OBVIOUS
  <2> QED BY <1>1, <2>1
<1>3. ASSUME NEW k \in 0..(n - 1) PROVE h[1..(k + 1)] = Step(kind, h[1..k], text[k + 1])
  <2>1. 1..(k + 1) \in SUBSET (1..n) /\ k + 1 \in 1..(k + 1) /\ k + 1 \in Nat
    OBVIOUS
  <2>2. Max(1..(k + 1)) = k + 1
    BY <2>1, MaxIs
  <2>3. (1..(k + 1)) \ {k + 1} = 1..k
    BY <2>1
  <2> QED BY <1>1, <2>1, <2>2, <2>3
<1> QED BY <1>2, <1>3

\* FoldLeft is such a function, with Split and with Obey
LEMMA SplitFold ==
    ASSUME NEW base, NEW text, NEW n \in Nat, DOMAIN text = 1..n
    PROVE  \E h : FoldLeft(Split, base, text) = h[1..n] /\ Folds("split", h, base, text, 1..n)
<1> DEFINE P(h) == h = [s \in SUBSET (1..n) |-> IF s = {} THEN base
                            ELSE Split(h[s \ {Max(s)}], text[Max(s)])]
<1>1. FoldLeft(Split, base, text) = (CHOOSE h : P(h))[1..n]
  BY DEF FoldLeft, MapThenFoldSet
<1>2. \A h : P(h) <=> Folds("split", h, base, text, 1..n)
  BY DEF Folds, Step
<1>3. \E h : P(h)
  BY <1>2, FoldsExist
<1>4. P(CHOOSE h : P(h))
  <2> HIDE DEF P
  <2> QED BY <1>3
<1> QED
  <2> HIDE DEF P
  <2> QED BY <1>1, <1>2, <1>4

LEMMA ObeyFold ==
    ASSUME NEW base, NEW text, NEW n \in Nat, DOMAIN text = 1..n
    PROVE  \E h : FoldLeft(Obey, base, text) = h[1..n] /\ Folds("obey", h, base, text, 1..n)
<1> DEFINE P(h) == h = [s \in SUBSET (1..n) |-> IF s = {} THEN base
                            ELSE Obey(h[s \ {Max(s)}], text[Max(s)])]
<1>1. FoldLeft(Obey, base, text) = (CHOOSE h : P(h))[1..n]
  BY DEF FoldLeft, MapThenFoldSet
<1>2. \A h : P(h) <=> Folds("obey", h, base, text, 1..n)
  BY DEF Folds, Step
<1>3. \E h : P(h)
  BY <1>2, FoldsExist
<1>4. P(CHOOSE h : P(h))
  <2> HIDE DEF P
  <2> QED BY <1>3
<1> QED
  <2> HIDE DEF P
  <2> QED BY <1>1, <1>2, <1>4

\* The text so far is a sequence of commands, and one that is under way
Splitting(a) ==
    /\ a = [done |-> a.done, words |-> a.words, open |-> a.open]
    /\ \E A : a.done \in Seq(A)

LEMMA SplitKeeps ==
    ASSUME NEW a, Splitting(a), NEW piece
    PROVE  Splitting(Split(a, piece))
<1>1. PICK A : a.done \in Seq(A)
  BY DEF Splitting
<1>2. CASE piece = "!"
  <2> DEFINE d == Append(a.done, a.words)
  <2>1. a.done \in Seq(A \union {a.words}) /\ a.words \in A \union {a.words}
    BY <1>1
  <2>2. d \in Seq(A \union {a.words})
    BY <2>1
  <2>3. Split(a, piece) = [done |-> d, words |-> << >>, open |-> FALSE]
    BY <1>2 DEF Split
  <2> HIDE DEF d
  <2> QED BY <2>2, <2>3 DEF Splitting
<1>3. CASE piece # "!"
  <2>1. a = [done |-> a.done, words |-> a.words, open |-> a.open]
    BY DEF Splitting
  <2>2. PICK w, o : Split(a, piece) = [done |-> a.done, words |-> w, open |-> o]
    <3> DEFINE w1 == Append(Front(a.words), Last(a.words) \o piece)
               w2 == Append(a.words, piece)
    <3>1. \/ Split(a, piece) = [a EXCEPT !.open = FALSE]
          \/ Split(a, piece) = [a EXCEPT !.words = w1]
          \/ Split(a, piece) = [a EXCEPT !.words = w2, !.open = TRUE]
      BY <1>3 DEF Split
    <3> HIDE DEF w1, w2
    <3>2. \A d, w, o, v : [[done |-> d, words |-> w, open |-> o] EXCEPT !.open = v]
                             = [done |-> d, words |-> w, open |-> v]
      OBVIOUS
    <3>3. \A d, w, o, v : [[done |-> d, words |-> w, open |-> o] EXCEPT !.words = v]
                             = [done |-> d, words |-> v, open |-> o]
      OBVIOUS
    <3>4. [a EXCEPT !.words = w2, !.open = TRUE] = [[a EXCEPT !.words = w2] EXCEPT !.open = TRUE]
      OBVIOUS
    <3>5. \/ Split(a, piece) = [done |-> a.done, words |-> a.words, open |-> FALSE]
          \/ Split(a, piece) = [done |-> a.done, words |-> w1, open |-> a.open]
          \/ Split(a, piece) = [done |-> a.done, words |-> w2, open |-> TRUE]
      BY <2>1, <3>1, <3>2, <3>3, <3>4
    <3> QED BY <3>5
  <2> QED BY <1>1, <2>2 DEF Splitting
<1> QED BY <1>2, <1>3

\* A text is split into a sequence of commands
LEMMA CommandsAreSequence ==
    ASSUME NEW text \in Seq(STRING)
    PROVE  \E n \in Nat : DOMAIN CommandsOf(text) = 1..n
<1> DEFINE base == [done |-> << >>, words |-> << >>, open |-> FALSE]
           n == Len(text)
<1>1. n \in Nat /\ DOMAIN text = 1..n
  OBVIOUS
<1>2. PICK h : /\ FoldLeft(Split, base, text) = h[1..n]
               /\ Folds("split", h, base, text, 1..n)
  BY <1>1, SplitFold
<1>3. /\ h[1..0] = base
      /\ \A k \in 0..(n - 1) : h[1..(k + 1)] = Split(h[1..k], text[k + 1])
  BY <1>1, <1>2, FoldsOn DEF Step
<1> DEFINE T == {k \in Nat : k <= n => Splitting(h[1..k])}
<1>4. 0 \in T
  <2>1. Splitting(base)
    BY DEF Splitting
  <2> QED BY <1>3, <2>1
<1>5. ASSUME NEW k \in Nat, k \in T PROVE k + 1 \in T
  <2> SUFFICES ASSUME k + 1 <= n PROVE Splitting(h[1..(k + 1)])
    OBVIOUS
  <2>1. k \in 0..(n - 1) /\ Splitting(h[1..k])
    BY <1>1, <1>5
  <2> QED BY <1>3, <2>1, SplitKeeps
<1>6. Splitting(h[1..n])
  <2> HIDE DEF T
  <2>1. n \in T
    BY <1>1, <1>4, <1>5, SetInduction
  <2> QED BY <1>1, <2>1 DEF T
<1>7. CommandsOf(text) = h[1..n].done
  BY <1>2 DEF CommandsOf
<1> QED BY <1>6, <1>7 DEF Splitting

-----------------------------------------------------------------------------
(***************************************************************************)
(* A's lines and timers.                                                   *)
(***************************************************************************)
\* A's lines: who is on for a while has a timer that runs, and every timer has an id
\* that is not given again
LinesOK(g) ==
    /\ DOMAIN g = {"trans", "shots", "shotCount", "pulsed"}
    /\ g.trans \subseteq Lines /\ g.pulsed \subseteq g.trans /\ g.shotCount \in Nat
    /\ DOMAIN g.shots \subseteq 0..(g.shotCount - 1)
    /\ \A id \in DOMAIN g.shots : g.shots[id] \in [line : Lines, active : BOOLEAN]
    /\ \A l \in g.pulsed : \E id \in DOMAIN g.shots : g.shots[id].line = l /\ g.shots[id].active

\* An order for a line keeps them so
LEMMA SendKeeps ==
    ASSUME NEW g, LinesOK(g), NEW order, order[1] \in Lines
    PROVE  LinesOK(SendGpio(g, order))
<1> DEFINE line == order[1]
           shot == [line |-> line, active |-> TRUE]
           set == [g EXCEPT !.trans = g.trans \union {line}]
           shots2 == [id \in DOMAIN set.shots \union {set.shotCount} |->
                        IF id = set.shotCount THEN shot ELSE set.shots[id]]
           more == StartShot(set, line)
           off == [g EXCEPT !.trans = g.trans \ {line}, !.pulsed = g.pulsed \ {line}]
<1>1. DOMAIN g = {"trans", "shots", "shotCount", "pulsed"}
  BY DEF LinesOK
<1>2. /\ DOMAIN set = DOMAIN g /\ set.trans = g.trans \union {line}
      /\ set.shots = g.shots /\ set.shotCount = g.shotCount /\ set.pulsed = g.pulsed
  BY <1>1
<1>3. /\ DOMAIN more = DOMAIN set /\ more.trans = set.trans /\ more.shots = shots2
      /\ more.shotCount = set.shotCount + 1 /\ more.pulsed = set.pulsed \union {line}
  <2>1. more = [set EXCEPT !.shots = shots2, !.shotCount = set.shotCount + 1,
                           !.pulsed = set.pulsed \union {line}]
    BY DEF StartShot
  <2>2. DOMAIN set = {"trans", "shots", "shotCount", "pulsed"}
    BY <1>1, <1>2
  <2> HIDE DEF more, set, shots2
  <2> QED BY <2>1, <2>2
<1>4. /\ DOMAIN off = DOMAIN g /\ off.trans = g.trans \ {line} /\ off.shots = g.shots
      /\ off.shotCount = g.shotCount /\ off.pulsed = g.pulsed \ {line}
  BY <1>1
<1>5. SendGpio(g, order) = IF order[2]
                           THEN IF line \in g.trans THEN g ELSE IF order[3] > 0 THEN more ELSE set
                           ELSE off
  BY DEF SendGpio
<1>6. /\ DOMAIN shots2 = DOMAIN g.shots \union {g.shotCount}
      /\ shots2[g.shotCount] = shot
      /\ \A id \in DOMAIN g.shots : shots2[id] = IF id = g.shotCount THEN shot ELSE g.shots[id]
  BY <1>2
<1> HIDE DEF set, more, off, shots2, line
<1>7. LinesOK(set)
  BY <1>2, line \in Lines DEF LinesOK, line
<1>8. ASSUME line \notin g.trans PROVE LinesOK(more)
  <2>1. \A id \in DOMAIN g.shots : id # g.shotCount /\ id \in 0..g.shotCount
    BY DEF LinesOK
  <2>2. \A id \in DOMAIN g.shots : shots2[id] = g.shots[id]
    BY <1>6, <2>1
  <2>3. shot \in [line : Lines, active : BOOLEAN] /\ shot.line = line /\ shot.active
    BY DEF line
  <2>4. DOMAIN more.shots \subseteq 0..(more.shotCount - 1) /\ more.shotCount \in Nat
    BY <1>2, <1>3, <1>6, <2>1 DEF LinesOK
  <2>5. \A id \in DOMAIN more.shots : more.shots[id] \in [line : Lines, active : BOOLEAN]
    <3> SUFFICES ASSUME NEW id \in DOMAIN more.shots
                 PROVE  more.shots[id] \in [line : Lines, active : BOOLEAN]
      OBVIOUS
    <3> HIDE DEF shot
    <3>1. CASE id = g.shotCount
      BY <1>3, <1>6, <2>3, <3>1
    <3>2. CASE id \in DOMAIN g.shots
      <4>1. more.shots[id] = g.shots[id]
        BY <1>3, <2>2, <3>2
      <4> QED BY <3>2, <4>1 DEF LinesOK
    <3> QED BY <1>3, <1>6, <3>1, <3>2
  <2>6. ASSUME NEW l \in more.pulsed
        PROVE  \E id \in DOMAIN more.shots : more.shots[id].line = l /\ more.shots[id].active
    <3>1. CASE l = line
      <4>1. g.shotCount \in DOMAIN more.shots /\ more.shots[g.shotCount] = shot
        BY <1>3, <1>6
      <4> QED BY <2>3, <3>1, <4>1
    <3>2. CASE l \in g.pulsed
      <4>1. PICK id \in DOMAIN g.shots : g.shots[id].line = l /\ g.shots[id].active
        BY <3>2 DEF LinesOK
      <4> QED BY <1>3, <1>6, <2>2, <4>1
    <3> QED BY <1>2, <1>3, <3>1, <3>2
  <2>7. more.trans \subseteq Lines /\ more.pulsed \subseteq more.trans
    BY <1>2, <1>3 DEF LinesOK, line
  <2> QED BY <1>1, <1>2, <1>3, <2>4, <2>5, <2>6, <2>7 DEF LinesOK
<1>9. LinesOK(off)
  BY <1>4 DEF LinesOK
<1> QED BY <1>5, <1>7, <1>8, <1>9

\* What A reads at its ports leaves its lines in order
LEMMA ObeyKeeps ==
    ASSUME NEW g, LinesOK(g), NEW cmd, \A order \in OrdersOf(cmd) : order[1] \in Lines
    PROVE  LinesOK(Obey(g, cmd))
<1> DEFINE order == CHOOSE o \in OrdersOf(cmd) : TRUE
<1>1. OrdersOf(cmd) # {} => order \in OrdersOf(cmd)
  OBVIOUS
<1> HIDE DEF order
<1>2. Obey(g, cmd) = IF OrdersOf(cmd) = {} THEN g ELSE SendGpio(g, order)
  BY DEF Obey, order
<1> QED BY <1>1, <1>2, SendKeeps

LEMMA ReadKeeps ==
    ASSUME NEW g, LinesOK(g), NEW echo \in EchoTexts, NEW noecho \in NoEchoTexts
    PROVE  LinesOK(FoldLeft(Obey, g, CommandsOf(echo \o noecho)))
<1> DEFINE cmds == CommandsOf(echo \o noecho)
<1>1. echo \o noecho \in Seq(STRING)
  BY GpioAssumption DEF GpioAssumption
<1>2. PICK n \in Nat : DOMAIN cmds = 1..n
  BY <1>1, CommandsAreSequence
<1>3. \A i \in DOMAIN cmds : \A order \in OrdersOf(cmds[i]) : order[1] \in Lines
  BY LinesAssumption DEF LinesAssumption
<1> HIDE DEF cmds
<1>4. PICK h : FoldLeft(Obey, g, cmds) = h[1..n] /\ Folds("obey", h, g, cmds, 1..n)
  BY <1>2, ObeyFold
<1>5. /\ h[1..0] = g
      /\ \A k \in 0..(n - 1) : h[1..(k + 1)] = Obey(h[1..k], cmds[k + 1])
  BY <1>4, FoldsOn DEF Step
<1> DEFINE T == {k \in Nat : k <= n => LinesOK(h[1..k])}
<1>6. 0 \in T
  BY <1>5
<1>7. ASSUME NEW k \in Nat, k \in T PROVE k + 1 \in T
  <2> SUFFICES ASSUME k + 1 <= n PROVE LinesOK(h[1..(k + 1)])
    OBVIOUS
  <2>1. k \in 0..(n - 1) /\ LinesOK(h[1..k]) /\ k + 1 \in DOMAIN cmds
    BY <1>2, <1>7
  <2>2. h[1..(k + 1)] = Obey(h[1..k], cmds[k + 1])
    BY <1>5, <2>1
  <2>3. \A order \in OrdersOf(cmds[k + 1]) : order[1] \in Lines
    BY <1>3, <2>1
  <2> QED BY <2>1, <2>2, <2>3, ObeyKeeps
<1>8. LinesOK(h[1..n])
  <2> HIDE DEF T
  <2>1. n \in T
    BY <1>6, <1>7, SetInduction
  <2> QED BY <2>1 DEF T
<1> QED BY <1>4, <1>8 DEF cmds

-----------------------------------------------------------------------------
\* The lines of A, and the types of the rest
LinesInv ==
    /\ trans \subseteq Lines /\ pulsed \subseteq trans /\ shotCount \in Nat
    /\ DOMAIN shots \subseteq 0..(shotCount - 1)
    /\ \A id \in DOMAIN shots : shots[id] \in [line : Lines, active : BOOLEAN]
    /\ \A l \in pulsed : \E id \in DOMAIN shots : shots[id].line = l /\ shots[id].active
RestInv ==
    /\ runs \subseteq Stations /\ inCall \subseteq runs
    /\ recv \subseteq Lines /\ on \subseteq Lines /\ told \subseteq Lines
    /\ wire \subseteq Reports /\ zombie \in BOOLEAN

\* OneShot: a line that is on for a while is on, and a timer that will clear it runs
PulseTimed ==
    /\ pulsed \subseteq trans
    /\ \A l \in pulsed : \E id \in DOMAIN shots : shots[id].line = l /\ shots[id].active

\* Each step that moves them
LEMMA LinesRead ==
    ASSUME LinesInv, RmlReadData
    PROVE  LinesInv'
<1> DEFINE g0 == [trans |-> trans, shots |-> shots, shotCount |-> shotCount, pulsed |-> pulsed]
<1>1. LinesOK(g0)
  <2>1. /\ DOMAIN g0 = {"trans", "shots", "shotCount", "pulsed"} /\ g0.trans = trans
        /\ g0.shots = shots /\ g0.shotCount = shotCount /\ g0.pulsed = pulsed
    OBVIOUS
  <2> HIDE DEF g0
  <2> QED BY <2>1 DEF LinesInv, LinesOK
<1> HIDE DEF g0
<1>2. PICK echo \in EchoTexts, noecho \in NoEchoTexts :
        LET g == FoldLeft(Obey, g0, CommandsOf(echo \o noecho))
        IN  /\ trans' = g.trans /\ shots' = g.shots
            /\ shotCount' = g.shotCount /\ pulsed' = g.pulsed
  BY DEF RmlReadData, g0
<1> DEFINE g == FoldLeft(Obey, g0, CommandsOf(echo \o noecho))
<1>3. LinesOK(g)
  BY <1>1, ReadKeeps
<1>4. trans' = g.trans /\ shots' = g.shots /\ shotCount' = g.shotCount /\ pulsed' = g.pulsed
  BY <1>2
<1> HIDE DEF g
<1> QED BY <1>3, <1>4 DEF LinesOK, LinesInv

LEMMA LinesTimeout ==
    ASSUME LinesInv, NEW id, TimeoutData(id)
    PROVE  LinesInv'
<1>1. /\ id \in DOMAIN shots /\ trans' = trans \ {shots[id].line}
      /\ pulsed' = pulsed \ {shots[id].line} /\ shotCount' = shotCount
      /\ shots' = [shots EXCEPT ![id].active = FALSE]
  BY DEF TimeoutData
<1>2. /\ DOMAIN shots' = DOMAIN shots
      /\ \A k \in DOMAIN shots : k # id => shots'[k] = shots[k]
      /\ shots'[id] = [shots[id] EXCEPT !.active = FALSE]
  BY <1>1
<1>3. shots[id] \in [line : Lines, active : BOOLEAN]
  BY <1>1 DEF LinesInv
<1>4. shots'[id] \in [line : Lines, active : BOOLEAN]
  BY <1>2, <1>3
<1>5. ASSUME NEW l \in pulsed'
      PROVE  \E k \in DOMAIN shots' : shots'[k].line = l /\ shots'[k].active
  <2>1. l \in pulsed /\ l # shots[id].line
    BY <1>1
  <2>2. PICK k \in DOMAIN shots : shots[k].line = l /\ shots[k].active
    BY <2>1 DEF LinesInv
  <2>3. k # id
    BY <2>1, <2>2
  <2> QED BY <1>2, <2>2, <2>3
<1>6. \A k \in DOMAIN shots' : shots'[k] \in [line : Lines, active : BOOLEAN]
  BY <1>2, <1>4 DEF LinesInv
<1> QED BY <1>1, <1>2, <1>5, <1>6 DEF LinesInv

LEMMA LinesZombie ==
    ASSUME LinesInv, ZombieData
    PROVE  LinesInv'
<1>1. UNCHANGED << trans, shotCount, pulsed >>
  BY DEF ZombieData
<1>2. CASE UNCHANGED shots
  BY <1>1, <1>2 DEF LinesInv
<1>3. ASSUME NEW gone \in SUBSET {id \in DOMAIN shots : ~shots[id].active},
             shots' = [id \in DOMAIN shots \ gone |-> shots[id]]
      PROVE  LinesInv'
  <2>1. /\ DOMAIN shots' \subseteq DOMAIN shots
        /\ \A id \in DOMAIN shots' : shots'[id] = shots[id]
        /\ \A id \in DOMAIN shots : shots[id].active => id \in DOMAIN shots'
    BY <1>3
  <2> QED BY <1>1, <2>1 DEF LinesInv
<1> QED BY <1>2, <1>3 DEF ZombieData

LEMMA LinesStep == LinesInv /\ [Next]_vars => LinesInv'
<1> SUFFICES ASSUME LinesInv, [Next]_vars PROVE LinesInv'
  OBVIOUS
<1>1. CASE UNCHANGED lines
  BY <1>1 DEF lines, LinesInv
<1>2. CASE RmlReadData
  BY <1>2, LinesRead
<1>3. CASE \E id \in 0..(MaxShots - 1) : TimeoutData(id)
  BY <1>3, LinesTimeout
<1>4. CASE ZombieData
  BY <1>4, LinesZombie
<1>5. CASE Restart("A")
  <2>1. trans' = {} /\ shots' = << >> /\ shotCount' = 0 /\ pulsed' = {}
    BY <1>5 DEF Restart
  <2>2. DOMAIN shots' = {}
    BY <2>1
  <2> QED BY <2>1, <2>2 DEF LinesInv
<1>6. CASE RtcpTransmitData \/ Restart("B") \/ \E s \in Stations : Connect(s) \/ Disconnect(s)
  BY <1>1, <1>6 DEF RtcpTransmitData, Restart, Connect, Disconnect
<1>7. CASE \E m \in wire : RtcpReceiveData(m) \/ Lose(m)
  BY <1>1, <1>7 DEF RtcpReceiveData, Lose
<1>8. CASE UNCHANGED vars
  BY <1>1, <1>8 DEF vars
<1> QED BY <1>2, <1>3, <1>4, <1>5, <1>6, <1>7, <1>8 DEF Next, Stations

\* The reports that A sends
LEMMA ReportTyped ==
    ASSUME trans \subseteq Lines
    PROVE  /\ [gpio |-> trans, bye |-> FALSE] \in Reports
           /\ [gpio |-> trans, bye |-> TRUE] \in Reports
BY DEF Reports

\* The types of the rest are kept
LEMMA RestStep == RestInv /\ trans \subseteq Lines /\ [Next]_vars => RestInv'
<1> SUFFICES ASSUME RestInv, trans \subseteq Lines, [Next]_vars PROVE RestInv'
  OBVIOUS
<1>1. CASE RmlReadData
  BY <1>1 DEF RmlReadData, RestInv, outputs
<1>2. CASE \E id \in 0..(MaxShots - 1) : TimeoutData(id)
  BY <1>2 DEF TimeoutData, RestInv, outputs
<1>3. CASE ZombieData
  BY <1>3 DEF ZombieData, RestInv, outputs
<1>4. CASE RtcpTransmitData
  <2>1. wire' = wire \union {[gpio |-> trans, bye |-> FALSE]}
    BY <1>4 DEF RtcpTransmitData
  <2>2. wire' \subseteq Reports
    BY <2>1, ReportTyped DEF RestInv
  <2>3. UNCHANGED << runs, inCall, recv, on, told, zombie >>
    BY <1>4 DEF RtcpTransmitData, lines, outputs
  <2> QED BY <2>2, <2>3 DEF RestInv
<1>5. CASE \E s \in Stations : Connect(s)
  BY <1>5 DEF Connect, RestInv, outputs, lines
<1>6. CASE \E s \in Stations : Disconnect(s)
  <2> SUFFICES ASSUME NEW s \in Stations, Disconnect(s) PROVE RestInv'
    BY <1>6
  <2>1. wire' \subseteq wire \union {[gpio |-> trans, bye |-> TRUE]}
    BY DEF Disconnect
  <2>2. wire' \subseteq Reports
    BY <2>1, ReportTyped DEF RestInv
  <2>3. inCall' \subseteq inCall /\ UNCHANGED << runs, recv, on, told, zombie >>
    BY DEF Disconnect, lines, outputs
  <2> QED BY <2>2, <2>3 DEF RestInv
<1>7. CASE \E s \in Stations : Restart(s)
  <2> SUFFICES ASSUME NEW s \in Stations, Restart(s) PROVE RestInv'
    BY <1>7
  <2>1. runs' = runs \union {s} /\ inCall' = inCall \ {s} /\ wire' = wire
    BY DEF Restart
  <2>2. /\ recv' \subseteq recv /\ on' = on /\ told' \subseteq told
        /\ zombie' = zombie \/ zombie' = FALSE
    BY DEF Restart, lines, outputs
  <2> QED BY <2>1, <2>2 DEF RestInv
<1>8. CASE \E m \in wire : RtcpReceiveData(m)
  <2> SUFFICES ASSUME NEW m \in wire, RtcpReceiveData(m) PROVE RestInv'
    BY <1>8
  <2>1. m.gpio \subseteq Lines
    BY DEF RestInv, Reports
  <2>2. recv' \subseteq Lines /\ on' \subseteq Lines /\ told' \subseteq Lines
    BY <2>1 DEF RtcpReceiveData, ReadPrivateSourceChunk, RestInv
  <2>3. runs' = runs /\ inCall' \subseteq inCall /\ wire' \subseteq wire /\ zombie' = zombie
    BY DEF RtcpReceiveData, lines
  <2> QED BY <2>2, <2>3 DEF RestInv
<1>9. CASE \E m \in wire : Lose(m)
  BY <1>9 DEF Lose, RestInv, outputs, lines
<1>10. CASE UNCHANGED vars
  BY <1>10 DEF vars, RestInv, outputs, lines
<1> QED BY <1>1, <1>2, <1>3, <1>4, <1>5, <1>6, <1>7, <1>8, <1>9, <1>10 DEF Next

LEMMA AlwaysLines == Spec => [](LinesInv /\ RestInv)
<1>1. Init => LinesInv /\ RestInv
  <2> SUFFICES ASSUME Init PROVE LinesInv /\ RestInv
    OBVIOUS
  <2>1. DOMAIN shots = {}
    BY DEF Init
  <2> QED BY <2>1 DEF Init, LinesInv, RestInv
<1>2. (LinesInv /\ RestInv) /\ [Next]_vars => (LinesInv /\ RestInv)'
  BY LinesStep, RestStep DEF LinesInv
<1> QED BY <1>1, <1>2, PTL DEF Spec

\* Whatever texts arrive at the two ports, in whatever pieces, rmlReadData,
\* sendGpio and OneShot keep to the 32 lines, and give no id of a timer twice.
THEOREM LinesTypeCorrect == Spec => []TypeOK
<1>1. LinesInv /\ RestInv => TypeOK
  <2> SUFFICES ASSUME LinesInv, RestInv PROVE TypeOK
    OBVIOUS
  <2>1. {trans, recv, on, pulsed, told} \subseteq SUBSET Lines
    BY DEF LinesInv, RestInv
  <2>2. \A id \in DOMAIN shots :
          id \in 0..(shotCount - 1) /\ shots[id] \in [line : Lines, active : BOOLEAN]
    BY DEF LinesInv
  <2> QED BY <2>1, <2>2 DEF RestInv, TypeOK
<1> QED BY <1>1, AlwaysLines, PTL

\* A line that is on for a while has a timer under way that will clear it, however many
\* pulses overlap, whichever ends early, and whatever zombieData's loop misses.
THEOREM PulsesAlwaysTimed == Spec => []PulseTimed
<1>1. LinesInv => PulseTimed
  BY DEF LinesInv, PulseTimed
<1> QED BY <1>1, AlwaysLines, PTL
=============================================================================
