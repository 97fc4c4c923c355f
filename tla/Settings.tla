------------------------------- MODULE Settings --------------------------------
(***************************************************************************)
(* The settings of netisdn: the Settings dialog, whose boxes depend on each *)
(* other, the file or the registry they are kept in, and the start of the   *)
(* program that reads them again.                                          *)
(*                                                                         *)
(* What the dialogs only copy is one of two values: SDES fields, devices,   *)
(* voice processor and hyperstreaming, which are the Settings dialog's own, *)
(* are the name; the RML port, gain, buffers and realtime of the Advanced   *)
(* dialog are advanced.  Of the GPIO lines one is modelled, with a command  *)
(* and an address for the line off and on, where the lines before it have   *)
(* the address 0.0.0.0.  Bit rates are in kbps, or Speex's quality; rates   *)
(* are in Hz.  Passwords and names are sequences of bytes.  That the        *)
(* directory of the settings cannot be made is left out.                    *)
(***************************************************************************)
EXTENDS Integers, FiniteSets, Sequences

CONSTANTS
    Systems,        \* of "unix" and "windows"
    Built,          \* formats compiled in, of "Layer3", "Speex" and "Vorbis"
    Logins,         \* <<username, password>> that are typed
    Names,          \* names that are typed
    Texts,          \* addresses that are typed, of "", "x" and real ones
    MaxTouches,     \* bound: boxes the user changes
    MaxStarts,      \* bound
    MaxSaves        \* bound

ASSUME SettingsAssumption ==
    /\ Systems \subseteq {"unix", "windows"}
    /\ Built \subseteq {"Layer3", "Speex", "Vorbis"} /\ Built # {}
    /\ Logins \subseteq Seq(0..255) \X Seq(0..255)
    /\ \A l \in Logins : \A i \in DOMAIN l[1] : l[1][i] # 58   \* no colon in the username

VARIABLES
    system,     \* "unix" or "windows"
    up,         \* the program runs
    set,        \* net_settings and the codec's settings
    disk,       \* what settings.conf or the registry holds: values by tag
    dialog,     \* the open Settings dialog, Closed if none
    entered,    \* net_username_entered
    login,      \* the login the control connection was told, <<>> if none
    touches, starts, saves,
    since       \* what was done last to the settings or to the disk: "start", "save",
                \* "cut" for a save that did not reach its end, or "advanced"

\* The login of a program that nobody gave one
Nobody == << <<>>, <<>> >>

vars == <<system, up, set, disk, dialog, entered, login, touches, starts, saves, since>>

Directions == {"Transmit", "Receive"}
Off == 1
On == 2

-----------------------------------------------------------------------------
(***************************************************************************)
(* Base64 (netconf.cpp).                                                   *)
(***************************************************************************)
Pad == 64

\* The bytes of a text, in groups of three, of which the g-th is a number
ByteAt(s, i) == IF i \in DOMAIN s THEN s[i] ELSE 0
BytesOf(s, g) == ByteAt(s, 3*g + 1) * 65536 + ByteAt(s, 3*g + 2) * 256 + ByteAt(s, 3*g + 3)

\* The digits of a text, in groups of four, of which the g-th is a number: pads count
\* for nothing
DigitAt(e, i) == IF i \in DOMAIN e /\ e[i] # Pad THEN e[i] ELSE 0
DigitsOf(e, g) == DigitAt(e, 4*g + 1) * 262144 + DigitAt(e, 4*g + 2) * 4096
                      + DigitAt(e, 4*g + 3) * 64 + DigitAt(e, 4*g + 4)

\* What stands j-th in a group that is the number x
Sextet(x, j) == (x \div 64^(3 - j)) % 64
Octet(x, j) == (x \div 256^(2 - j)) % 256

\* NetStringToBase64, as sextets: as many digits as the bits need, then pads
StringToBase64(s) ==
    LET digits == (8 * Len(s) + 5) \div 6
    IN  [k \in 1..4 * ((Len(s) + 2) \div 3) |->
            IF k > digits THEN Pad ELSE Sextet(BytesOf(s, (k - 1) \div 4), (k - 1) % 4)]

\* Mutant: the bytes that pads stand for are kept
Base64ToStringPadded(e) ==
    [k \in 1..3 * (Len(e) \div 4) |-> Octet(DigitsOf(e, (k - 1) \div 3), (k - 1) % 3)]

\* NetBase64ToString: a byte less for each pad
Base64ToString(e) ==
    LET pads == Cardinality({i \in DOMAIN e : e[i] = Pad})
    IN  IF pads > 2 THEN <<>>
        ELSE [k \in 1..3 * (Len(e) \div 4) - pads |->
                 Octet(DigitsOf(e, (k - 1) \div 3), (k - 1) % 3)]

-----------------------------------------------------------------------------
(***************************************************************************)
(* AudioSettings.                                                          *)
(***************************************************************************)
Cleared ==
    [format |-> [dir \in Directions |-> "Speex"],
     channels |-> [dir \in Directions |-> 0],
     bitRate |-> [dir \in Directions |-> 0],
     sampleRate |-> 0,
     username |-> <<>>, password |-> <<>>,
     name |-> <<>>, advanced |-> 0,
     command |-> <<"", "">>,
     address |-> <<"0.0.0.0", "0.0.0.0">>]

\* A receiver without a format has all it needs from the transmitter
AutoVector(s, dir) == IF s.format["Receive"] = "NoFormat" THEN "Transmit" ELSE dir

\* The text of the boxes for two addresses becomes addresses one after the other in
\* one QHostAddress, which keeps the last one when a text is not an address
Parsed(texts) ==
    LET real(k) == texts[k] \notin {"", "x"}
        first == IF real(Off) THEN texts[Off] ELSE "0.0.0.0"
    IN  <<first, IF real(On) THEN texts[On] ELSE first>>

-----------------------------------------------------------------------------
(***************************************************************************)
(* The file and the registry.                                              *)
(***************************************************************************)
Strip(s) ==
    LET ink == {i \in DOMAIN s : s[i] # 32}
        least == CHOOSE i \in ink : \A j \in ink : i <= j
        most == CHOOSE i \in ink : \A j \in ink : i >= j
    IN  IF ink = {} THEN <<>> ELSE SubSeq(s, least, most)

\* The lines WriteConfig prints
UnixLines(s) ==
    << <<"Login", StringToBase64(s.username \o <<58>> \o s.password)>>,
       <<"Format", s.format["Transmit"]>>, <<"Channels", s.channels["Transmit"]>>,
       <<"SampleRate", s.sampleRate>>, <<"BitRate", s.bitRate["Transmit"]>>,
       <<"ReceiveFormat", s.format["Receive"]>>,
       <<"ReceiveChannels", s.channels["Receive"]>>,
       <<"ReceiveBitRate", s.bitRate["Receive"]>>,
       <<"Advanced", s.advanced>>, <<"Name", s.name>>,
       <<"OffCommand", s.command[Off]>>, <<"OnCommand", s.command[On]>>,
       <<"OffAddress", s.address[Off]>>, <<"OnAddress", s.address[On]>> >>

\* The entries it writes into the registry.  The bit rate of the receiver goes where
\* the transmitter's is, and the command where the address should
WindowsLines(s) ==
    LET lines == UnixLines(s)
    IN  [k \in DOMAIN lines |->
            CASE lines[k][1] = "ReceiveBitRate" -> <<"BitRate", s.bitRate["Receive"]>>
              [] lines[k][1] = "OnAddress" ->
                    <<"OnAddress", IF s.command[On] = "" THEN "" ELSE "x">>
              [] OTHER -> lines[k]]

Lines(s) == IF system = "unix" THEN UnixLines(s) ELSE WindowsLines(s)

\* The values by tag when the first n lines were written over what was there.  The
\* buffer that stdio wrote last ends within a line of the addresses, which is cut
Stored(there, lines, n, cut) ==
    LET written == {lines[k][1] : k \in 1..n}
        last(tag) == CHOOSE k \in 1..n :
                        lines[k][1] = tag /\ \A j \in k+1..n : lines[j][1] # tag
        half == IF cut THEN {lines[n + 1][1]} ELSE {}
    IN  [tag \in DOMAIN there \union written \union half |->
            IF tag \in half THEN "x"
            ELSE IF tag \in written THEN lines[last(tag)][2] ELSE there[tag]]

\* Mutant: the username ends at the last colon
ColonLast(enc) ==
    LET colons == {i \in DOMAIN enc : enc[i] = 58}
    IN  IF colons = {} THEN 0 ELSE CHOOSE i \in colons : \A j \in colons : i >= j

\* Where the username ends in the login
Colon(enc) ==
    LET colons == {i \in DOMAIN enc : enc[i] = 58}
    IN  IF colons = {} THEN 0 ELSE CHOOSE i \in colons : \A j \in colons : i <= j

\* A tag that is not there has its default
Value(there, tag, default) == IF tag \in DOMAIN there THEN there[tag] ELSE default

LoginRead(there) == Base64ToString(Value(there, "Login", <<>>))

\* Profile strips what it reads of the file; what the registry has is read as it is
NameRead(there) ==
    LET name == Value(there, "Name", <<>>)
    IN  IF system = "unix" THEN Strip(name) ELSE name

\* An address that is not in the file is the one the settings have; one that is not in
\* the registry is a text that is no address
Missing == IF system = "unix" THEN "0.0.0.0" ELSE ""

\* ReadConfig, after the constructor has cleared the settings
ReadConfig(there) ==
    LET enc == LoginRead(there)
        colon == Colon(enc)
    IN  [format |-> [Transmit |-> Value(there, "Format", "Speex"),
                     Receive |-> Value(there, "ReceiveFormat", "Speex")],
         channels |-> [Transmit |-> Value(there, "Channels", 1),
                       Receive |-> Value(there, "ReceiveChannels", 1)],
         bitRate |-> [Transmit |-> Value(there, "BitRate", 48),
                      Receive |-> Value(there, "ReceiveBitRate", 48)],
         sampleRate |-> Value(there, "SampleRate", 32000),
         username |-> SubSeq(enc, 1, colon - 1),
         password |-> IF colon = 0 THEN <<>> ELSE SubSeq(enc, colon + 1, Len(enc)),
         name |-> NameRead(there),
         advanced |-> Value(there, "Advanced", 0),
         command |-> <<Value(there, "OffCommand", ""), Value(there, "OnCommand", "")>>,
         address |-> Parsed(<<Value(there, "OffAddress", Missing),
                              Value(there, "OnAddress", Missing)>>)]

-----------------------------------------------------------------------------
(***************************************************************************)
(* The boxes of the Settings dialog.                                       *)
(***************************************************************************)
Box(items) == [items |-> items, at |-> 1]
Text(box) == IF box.at \in DOMAIN box.items THEN box.items[box.at] ELSE 0

\* Mutant: the stored value is not looked for
SelectedNot(box, value) == box

\* The item with the value becomes the current one, if there is one
Selected(box, value) ==
    IF \E i \in DOMAIN box.items : box.items[i] = value
    THEN [box EXCEPT !.at = CHOOSE i \in DOMAIN box.items : box.items[i] = value]
    ELSE box

VorbisRates == <<64, 96, 128, 160, 192, 224, 256, 288, 320, 352, 384>>

Layer3Rates32(channels) ==
    IF channels = 1 THEN <<48, 56, 64, 80, 96, 112, 128, 160, 192, 224, 256, 320>>
    ELSE IF channels = 2 THEN <<128, 160, 192, 224, 256, 320>> ELSE <<>>

Layer3Rates48(channels) ==
    IF channels = 1 THEN <<64, 80, 96, 112, 128, 160, 192, 224, 256, 320>>
    ELSE IF channels = 2 THEN <<128, 160, 192, 224, 256, 320>> ELSE <<>>

Layer3Rates(sampleRate, channels) ==
    IF sampleRate = 32000 THEN Layer3Rates32(channels)
    ELSE IF sampleRate = 48000 THEN Layer3Rates48(channels) ELSE <<>>

SpeexQualities == [i \in 1..11 |-> i - 1]

\* A box of formats that was not filled yet reads as Speex
ReadFormat(d, dir) == IF d.format[dir] = "Empty" THEN "Speex" ELSE d.format[dir]

\* Mutant: Speex of the receiver leaves the higher sample rate
SampleRatesOfOne(d, box) ==
    LET speex == ReadFormat(d, "Transmit") = "Speex"
    IN  IF speex /\ Len(box.items) = 2 THEN Box(<<box.items[1]>>)
        ELSE IF ~speex /\ Len(box.items) = 1
        THEN [box EXCEPT !.items = Append(@, 48000)]
        ELSE box

\* Speex, of either direction, takes the higher sample rate away
SampleRates(d, box) ==
    LET speex == \E dir \in Directions : ReadFormat(d, dir) = "Speex"
    IN  IF speex /\ Len(box.items) = 2 THEN Box(<<box.items[1]>>)
        ELSE IF ~speex /\ Len(box.items) = 1
        THEN [box EXCEPT !.items = Append(@, 48000)]
        ELSE box

\* The items of the channels and of the bit rates
ChannelItems(format) == IF format = "Speex" THEN <<1>> ELSE <<1, 2>>

BitRateItems(format, sampleRate, channels) ==
    CASE format = "Vorbis" -> IF channels = 0 THEN <<>> ELSE VorbisRates
      [] format = "Layer3" -> Layer3Rates(sampleRate, channels)
      [] format = "Speex" -> SpeexQualities

\* The sample rate of the receiver is the transmitter's
RateChoice(d, dir, format, sampleRate) ==
    IF dir = "Receive" THEN d.sampleRate
    ELSE Selected(Box(IF format = "Speex" THEN <<32000>> ELSE <<32000, 48000>>), sampleRate)

\* The lists of a direction, for the channels and the sample rate that were chosen
\* before, and what is chosen of them
CheckSettings(s, d, dir, format, sampleRate) ==
    LET channels == Text(d.channels[dir])
        stored == s.bitRate[IF format = "Speex" THEN dir ELSE AutoVector(s, dir)]
    IN  [d EXCEPT !.channels[dir] = Selected(Box(ChannelItems(format)), channels),
                  !.bitRate[dir] =
                      Selected(Box(BitRateItems(format, sampleRate, channels)), stored),
                  !.sampleRate = SampleRates(d, RateChoice(d, dir, format, sampleRate))]

\* settingsChangedData, with CheckTransmitSettings and CheckReceiveSettings: a receiver
\* that uses the transmitter's settings keeps its boxes, disabled
SettingsChanged(s, d) ==
    LET t == CheckSettings(s, d, "Transmit", ReadFormat(d, "Transmit"), Text(d.sampleRate))
        format == ReadFormat(d, "Receive")
    IN  IF format = "NoFormat" THEN t
        ELSE CheckSettings(s, t, "Receive", format, Text(t.sampleRate))

\* The boxes as they are made, before they are filled
NewDialog(s) ==
    [format |-> [dir \in Directions |-> "Empty"],
     channels |-> [dir \in Directions |-> Box(<<>>)],
     sampleRate |-> Box(<<>>),
     bitRate |-> [dir \in Directions |-> Box(<<>>)],
     username |-> s.username, password |-> s.password, name |-> s.name,
     touched |-> FALSE]

\* The first item of the transmitter's formats
FirstBuilt ==
    IF "Layer3" \in Built THEN "Layer3" ELSE IF "Speex" \in Built THEN "Speex" ELSE "Vorbis"

FormatItem(format, first) == IF format \in Built THEN format ELSE first

\* The boxes are filled for the settings s: the transmitter's are checked before the
\* receiver's have any items
Opened(s) ==
    LET rates == IF s.format["Transmit"] = "Speex" THEN <<32000>> ELSE <<32000, 48000>>
        filled == [NewDialog(s) EXCEPT
                      !.format["Transmit"] = FormatItem(s.format["Transmit"], FirstBuilt),
                      !.channels["Transmit"] =
                          Selected(Box(<<1, 2>>), s.channels["Transmit"]),
                      !.sampleRate = Selected(Box(rates), s.sampleRate)]
        checked == CheckSettings(s, filled, "Transmit", s.format["Transmit"],
                                 Text(filled.sampleRate))
    IN  SettingsChanged(s, [checked EXCEPT
            !.format["Receive"] = FormatItem(s.format["Receive"], "NoFormat"),
            !.channels["Receive"] = Selected(Box(<<1, 2>>), s.channels["Receive"]),
            !.sampleRate.items = IF s.format["Receive"] = "Vorbis"
                                 THEN @ \o <<32000, 48000>> ELSE @])

\* No dialog is open
Closed == [NewDialog(Cleared) EXCEPT !.touched = TRUE]
IsOpen == up /\ dialog # Closed

-----------------------------------------------------------------------------
(***************************************************************************)
(* The program.                                                            *)
(***************************************************************************)
Init ==
    /\ system \in Systems
    /\ up = FALSE
    /\ set = Cleared
    /\ disk = <<>>
    /\ dialog = Closed
    /\ entered = FALSE
    /\ login = <<>>
    /\ touches = 0 /\ starts = 0 /\ saves = 0
    /\ since = "start"

\* The constructor of MainWidget: without a username it asks, with one it registers
Start ==
    /\ ~up /\ starts < MaxStarts
    /\ up' = TRUE /\ starts' = starts + 1
    /\ set' = ReadConfig(disk)
    /\ since' = "start"
    /\ entered' = (set'.username # <<>>)
    /\ dialog' = IF entered' THEN Closed ELSE Opened(set')
    /\ login' = IF entered' THEN <<set'.username, set'.password>> ELSE <<>>
    /\ UNCHANGED <<system, disk, touches, saves>>

\* The program ends or is killed
Down == up' = FALSE /\ dialog' = Closed /\ login' = <<>>

Stop ==
    /\ up
    /\ Down
    /\ UNCHANGED <<system, set, disk, entered, touches, starts, saves, since>>

SettingsClicked ==
    /\ up /\ ~IsOpen
    /\ dialog' = Opened(set)
    /\ UNCHANGED <<system, up, set, disk, entered, login, touches, starts, saves, since>>

\* The user changes a box
Touch ==
    /\ IsOpen /\ touches < MaxTouches
    /\ touches' = touches + 1
    /\ UNCHANGED <<system, up, disk, entered, login, starts, saves>>

\* settingsChangedData follows a choice of the formats, channels or the sample rate
Activate ==
    /\ Touch
    /\ \E d \in {[dialog EXCEPT !.format["Transmit"] = f] : f \in Built}
           \union {[dialog EXCEPT !.format["Receive"] = f] : f \in Built \union {"NoFormat"}}
           \union {[dialog EXCEPT !.channels["Transmit"].at = i] :
                      i \in DOMAIN dialog.channels["Transmit"].items}
           \union {[dialog EXCEPT !.channels["Receive"].at = i] :
                      i \in IF dialog.format["Receive"] = "NoFormat" THEN {}
                            ELSE DOMAIN dialog.channels["Receive"].items}
           \union {[dialog EXCEPT !.sampleRate.at = i] :
                      i \in DOMAIN dialog.sampleRate.items} :
          dialog' = [SettingsChanged(set, d) EXCEPT !.touched = TRUE]
    /\ UNCHANGED <<set, since>>

\* The first or the last bit rate of the list is chosen
ChooseBitRate ==
    /\ Touch
    /\ \E dir \in Directions :
        /\ dir = "Receive" => dialog.format[dir] # "NoFormat"
        /\ \E i \in {1, Len(dialog.bitRate[dir].items)} \ {0} :
              dialog' = [dialog EXCEPT !.bitRate[dir].at = i, !.touched = TRUE]
    /\ UNCHANGED <<set, since>>

\* The login, with the password dialog, or the name is typed
Type ==
    /\ Touch
    /\ \/ \E l \in Logins :
             dialog' = [dialog EXCEPT !.username = l[1], !.password = l[2], !.touched = TRUE]
       \/ \E n \in Names : dialog' = [dialog EXCEPT !.name = n, !.touched = TRUE]
    /\ UNCHANGED <<set, since>>

\* The Advanced dialog changes the settings at once: what the user types there, a
\* command for the line on and the texts of its two addresses
AdvancedOk(texts) ==
    /\ Touch
    /\ set' = [set EXCEPT !.advanced = 1, !.command[On] = "on",
                          !.address = Parsed(texts)]
    /\ since' = "advanced"
    /\ UNCHANGED dialog

\* What OK makes of the settings
Accepted ==
    [set EXCEPT !.format = [dir \in Directions |-> ReadFormat(dialog, dir)],
                !.channels = [dir \in Directions |-> dialog.channels[dir].at],
                !.bitRate = [dir \in Directions |-> Text(dialog.bitRate[dir])],
                !.sampleRate = Text(dialog.sampleRate),
                !.username = dialog.username, !.password = dialog.password,
                !.name = dialog.name]

\* WriteConfig, to its end
WriteConfig ==
    /\ \E lines \in {Lines(set')} :
          disk' = Stored(IF system = "unix" THEN <<>> ELSE disk, lines, Len(lines), FALSE)
    /\ since' = "save"

\* WriteConfig writes the first n lines: the disk is full, which nobody looks at, or the
\* program is killed.  The file is written in blocks of 4096 bytes, and the first ends
\* among the GPIO lines; the registry takes one entry after the other
WriteConfigCut(n) ==
    /\ \E lines \in {Lines(set')} :
          /\ IF system = "unix" THEN n \in {0, 12, 13} ELSE n \in 1..Len(lines) - 1
          /\ disk' = Stored(IF system = "unix" THEN <<>> ELSE disk, lines, n,
                            system = "unix" /\ n > 0)
    /\ since' = "cut"

\* The file cannot be opened for writing, and stays as it is
WriteConfigFails == system = "unix" /\ disk' = disk /\ since' = "cut"

\* What settingsClickedData does when exec() gave 0: it saves and registers, unless the
\* program is killed over it
Saves ==
    /\ IsOpen /\ saves < MaxSaves
    /\ saves' = saves + 1
    /\ entered' = TRUE
    /\ \/ /\ \/ WriteConfig
             \/ WriteConfigFails
             \/ system = "unix" /\ \E n \in 0..13 : WriteConfigCut(n)
          /\ dialog' = Closed /\ login' = <<set'.username, set'.password>> /\ UNCHANGED up
       \/ \E n \in 0..13 : WriteConfigCut(n) /\ Down
    /\ UNCHANGED <<system, touches, starts>>

\* okData wants a username
OkData == IsOpen /\ dialog.username # <<>> /\ set' = Accepted /\ Saves

\* Escape, or closing the window, is QDialog's reject(), which is done(0) as well: what is
\* in the boxes is dropped, and no username is asked for
Reject == IsOpen /\ set' = set /\ Saves

\* Mutant: the program goes on without a login
CancelStays ==
    /\ IsOpen
    /\ dialog' = Closed
    /\ UNCHANGED <<system, up, set, disk, entered, login, touches, starts, saves, since>>

\* The button is done(1): without a login that was ever entered the program exits
Cancel ==
    /\ IsOpen
    /\ dialog' = Closed
    /\ up' = entered
    /\ UNCHANGED <<system, set, disk, entered, login, touches, starts, saves, since>>

Next ==
    \/ Start \/ Stop \/ SettingsClicked \/ Activate \/ ChooseBitRate \/ Type
    \/ \E off, on \in Texts : AdvancedOk(<<off, on>>)
    \/ OkData \/ Reject \/ Cancel

Spec == Init /\ [][Next]_vars

-----------------------------------------------------------------------------
(***************************************************************************)
(* Properties.                                                             *)
(***************************************************************************)
TypeOK ==
    /\ up \in BOOLEAN /\ entered \in BOOLEAN
    /\ since \in {"start", "save", "cut", "advanced"}
    /\ login \in Logins \union {<<>>, Nobody}
    /\ \A dir \in Directions : dialog.channels[dir].at \in 1..2
    /\ \A dir \in Directions : IsOpen => dialog.format[dir] # "Empty"

\* What a format can play: Speex is mono and of the lower rate, and of Layer 3 and
\* Vorbis there are bit rates for a sample rate and channels
Plays(format, channels, sampleRate, bitRate) ==
    LET rates == BitRateItems(format, sampleRate, channels)
    IN  /\ format = "Speex" => channels = 1 /\ sampleRate = 32000
        /\ channels \in 1..2
        /\ \E i \in DOMAIN rates : rates[i] = bitRate

CanPlay(s, dir) ==
    LET from == AutoVector(s, dir)
    IN  Plays(s.format[from], s.channels[from], s.sampleRate, s.bitRate[from])

\* Where the settings are kept in a file, the program that is registered with a username
\* can play both directions, whatever boxes were changed, in whatever order, and whatever
\* became of the file (audiosettings_dialog.cpp:665-1070; ChangeLog:119).  Settings that
\* no one ever said OK to are for nobody's login (Registered).
Playable ==
    (system = "unix" /\ login # <<>> /\ set.username # <<>>) =>
        \A dir \in Directions : CanPlay(set, dir)

\* What the next start finds when s is saved
Kept(s) ==
    IF system = "unix" THEN [s EXCEPT !.name = Strip(@)]
    ELSE [s EXCEPT !.bitRate = [Transmit |-> s.bitRate["Receive"], Receive |-> 48],
                   !.address[On] = s.address[Off]]

\* Out of the dialog, what is kept is what the program goes by, except after Advanced
\* settings that were not saved and after a save that was cut.  The file loses the spaces
\* around a name.  In the registry the receiver's bit rate takes the place of the
\* transmitter's, and the address for the line on is lost (netisdn.cpp:756-1068, 959-992).
Remembered ==
    (up /\ ~IsOpen) =>
        /\ since = "start" => ReadConfig(disk) = set
        /\ since = "save" => ReadConfig(disk) = Kept(set)

\* The program that is not asking for it is registered under the login it has, which is
\* one that was typed, never one that two saves mixed; or it is nobody's, of a dialog that
\* was closed without OK, and then whatever became of the file or the registry the next
\* start will ask again (netisdn.cpp:319-332, 527-543).
Registered ==
    (up /\ ~IsOpen) =>
        /\ login = <<set.username, set.password>>
        /\ \/ login \in Logins
           \/ login = Nobody /\ ReadConfig(disk).username = <<>>

\* OK at once, with nothing changed, keeps what can be played; but the sample rate falls
\* to 32000, since the receiver's formats are read before they are there, and so does
\* the bit rate of a receiver that uses the transmitter's.  Closing the dialog keeps all
\* of it (audiosettings_dialog.cpp:419-428, 1057-1069).
OkKeeps ==
    [][ /\ IsOpen /\ ~dialog.touched /\ saves' > saves
        /\ \A dir \in Directions : CanPlay(set, dir)
        => set' \in {set,
                     [set EXCEPT !.sampleRate = 32000,
                                 !.bitRate["Receive"] =
                                     IF set.format["Receive"] = "NoFormat" THEN 0 ELSE @]} ]_vars

=============================================================================
