# NetISDN in TLA+

NetISDN turns a pair of computers into an ISDN-like audio link. Clients (`netisdn`)
log in to a signalling daemon (`netsipd`), ask it for calls by user name, and then
stream audio to each other by RTP, without the daemon; administrators look after its
users with `netadmin`. This directory holds TLA+ models of the signalling, the codec,
the settings, the general purpose lines and the database, the TLC instances that check
them, and TLAPS proofs of what matters most.

    NetSipd.tla       the daemon: connections, logins, calls, timers, restart
    NetIsdn.tla       daemon + clients + TCP + RTCP BYE (EXTENDS NetSipd)
    Codec.tla         one codec: two threads, streams, sockets, timers, lock
    Coders.tla        the codec with its encoders and decoders (EXTENDS Codec)
    RingBuffer.tla    the ring of bytes; implements BoundedFifo.tla
    Reception.tla     what a codec hears: network, sequence numbers, ring (EXTENDS RingBuffer)
    Rtcp.tla          the RTCP packets a codec writes and reads (operators)
    Gpio.tla          lines from station to station: RML, pulses, masks in reports
    Settings.tla      the dialogs, the file or registry, the login
    Database.tla      schema: create, update, replace, back up, restore
    Netadmin.tla      the lists of users and of calls (EXTENDS Database)
    *_proofs.tla      the proofs about the module of that name, Codec_proofs about
                      Codec and Coders, Reception_proofs about RingBuffer and
                      Reception, Netadmin_proofs about Database and Netadmin
                      (section 4)
    MC*.tla, *.cfg    instances for TLC
    PROJECT.json      runs, mutants, source lines per definition, hazards, theorems

Paths below are relative to the repository's top (`netsipd/`, `netisdn/`, `lib/`...).

## 1. Inventory

| component | state | operations | talks to |
|---|---|---|---|
| netsipd `MainObject` (netsipd/netsipd.cpp) | `sip_connections` (fd to `SipConnection`), zombie and ping timers; database tables USERS and CALLS | accept, LI, PW, CA, BY, CB/ER/MD forwarding, PG, disconnect, ping sweep, reaping, SIGTERM | clients by TCP; MySQL; netadmin by multicast |
| `SipConnection` (netsipd/sipconnection.cpp) | uid, authenticated, zombie, far end's fd, call's row, source port, local address, last answer | setters, `clear` | MainObject |
| `ControlConnect` (lib/controlconnect.cpp) | socket state, account, reconnect and reauthenticate timers | connect, login, reconnect, commands in and out | netsipd; MainWidget by signals |
| netisdn `MainWidget` (netisdn/netisdn.cpp) | Connect button, settings, RML sockets | clicks, wiring of ControlConnect to Codec, RML commands, ReadConfig, WriteConfig | ControlConnect, Codec, a file or the registry |
| settings dialogs (netisdn/audiosettings_dialog.cpp, advanced_dialog.cpp) | boxes that depend on each other | fill, change, OK, Cancel | MainWidget's settings |
| `Codec` (lib/codec.cpp) | connection state, RTP/RTCP sockets, two audio streams, ring, lock, timers, receiver statistics, coders, GPIO masks | connectToHost, disconnect, callbacks of the audio thread, meters, RTCP reports, BYE, timeout, codebook, loopback | far codec by UDP; PortAudio |
| `RingBuffer` (lib/ringbuffer.cpp) | buffer, read and write pointer | read, write, reset, spaces, vectors | the codec's callback |
| `OneShot`, `MeterAverage`, `CodecStats` | timers by id; a window and its sum; the statistics shown | start; add/average; setters | Codec |
| RTP and RTCP packets (lib/rtp*.cpp) | fields | read and write blocks | Codec |
| netadmin (netadmin/) | schema and version; two lists; one dialog at a time | create, update, replace, backup, restore; list, add, edit, delete | MySQL; netsipd's datagrams |
| `NetConfig`, `Profile`, netconf, sqldb | ini file, Base64, a retrying query | reading; encoding; queries | all |
| systemd unit | Restart=always | restarts netsipd | netsipd |
| netfilter/, client/ | none | a tool that drops packets at random, prototypes | - |

PROJECT.json lists every one of them with its status.

### What is hard here

* **Interleaving of programs.** A command is sent in one state and handled in
  another: the button is read when pressed, the BY that it sends ends whatever call
  there is when it arrives; two BY cross; a CA is sent twice before the first answer.
  Two copies of netadmin, and the daemon, write one database.
* **Event loops within event loops.** A modal dialog runs the program's events: a call
  comes in under the Settings dialog, a list changes under the dialog of one of its rows.
* **One event loop, but long-lived references.** `SipConnection`s name their far end by
  descriptor, and descriptors are reused by the kernel while the zombie of the old
  connection is still in the table. Three fields (`connectionFd`, `cid`, source port)
  say together whether a session is in a call; different statements write them.
* **Iterators used after erase** in `zombieData` (of the daemon and of OneShot) and
  `pingTimerData`.
* **Crashes.** The daemon exits without logging anybody out; a file of settings is cut
  short; a database is left half updated or half restored.
* **Two threads without a lock** in `Codec`: the audio thread reads sockets, header and
  destination through bare pointers, and writes `codec_locked` and the statistics.
* **UDP.** Audio packets, reports and BYEs are lost, repeated, late, or reach the next
  call on a reused port; a report's GPIO mask is believed whenever it comes.
* **Time.** Pings race logins; calls are found again by local time in seconds; a
  single-shot timer outlives its call, or its pulse.
* **Widths.** 16-bit sequence numbers and their rollover, byte lengths, word sizes,
  masks, a ring of a power of two.

### What makes each component correct

* Daemon: its fields agree on who is in a call; a row of CALLS belongs to one call and
  is ended once; no two sessions of a host share an RTP port; whoever is taken out of a
  call is told; dead sessions are reaped.
* System: when everything is delivered, daemon and codecs agree on who is in a call, the
  two streams of a call meet, nobody streams to nobody; hanging up works; a client is
  logged in again in the end whatever went wrong.
* Codec: no callback without its sockets and coders; nothing of a call outlives it but
  the one timer that nobody stops; silence ends it.
* Reception: nothing is played twice or out of order; sample frames are whole; the counts
  are off from what came by exactly what the code's way of counting says; reports go on. The ring is a bounded queue.
* Packets: what is read is what was written.
* Lines: the far end's equipment follows the reports; pulses end; the ends agree in the end.
* Settings: what is set can be played; what is saved is read again; the daemon was told
  the login that is set.
* Database: a version promises its columns. Lists show what the database holds.

## 2. The models and the code

### NetSipd

One action per slot or command handler; Qt runs one at a time, so each is atomic. The
exception is `pingTimerData`, which logs several sessions out in one sweep: `PingTimerData`
starts a sweep (`walk` is what it has still to visit), `PingVisit(f)` is one turn of the
loop, and no other handler runs meanwhile (`Idle`).

| in the module | in the code |
|---|---|
| `conns`, `sock`, `addr`, `zombie`, `age` | keys of `sip_connections`, the socket's state, `peerAddress()`, `conn_zombie`, pings since `conn_ping_timestamp` |
| `uid`, `auth`, `laddr` | `conn_uid`, `conn_is_authenticated`, `conn_local_address` |
| `peer`, `cid`, `port` | `conn_connection_fd`, `conn_cid`, `conn_source_port` |
| `online`, `calls`, `ended` | USERS.ONLINE, rows of CALLS by their ID, END_DATETIME set |
| `out` | what the last step wrote to each socket |
| `NewConnection`, `ConnectionClosed`, `ZombieData` | newConnection, socketKill by `connectionClosed`, zombieData |
| `Login`, `LoginUnknown`, `Malformed`, `Password`, `Unauthenticated` | LI and PW in every way they end, the check at the head of ParseCommand |
| `CallRefused`, `InitiateCall`, `EndCall`, `ForwardMessage`, `UpdatePing`, `UnknownCommand` | CA, BY, CB and ER, PG, anything else |
| `Terminate`, `Restart` | SigHandler, systemd |

`HangUp`, `StopMedia`, `Logout` and `SocketKill` are the functions those handlers share,
with the same early returns. A step of an iterator after `erase` is undefined behaviour:
`AfterErase` lets the loop go on, skip entries, stop, or kill the process (`Crash`); so
does following a `connectionFd` whose connection is gone (`Dangling`). The daemon accepts
any command in any order: what a real client sends is NetIsdn's matter. Challenge and
hash are one bit, whether the password matches. `SteadyClock` says whether local time
moves on between two calls of one caller; if not, `LatestRow` may return an older row.
`LocalOf` says which local addresses hosts behind one address report.

### NetIsdn

The daemon with the clients of the repository. Each client is a ControlConnect wired to a
MainWidget and to as much of Codec as signalling sees (`media`). A TCP connection is a
FIFO each way that ends with `Eof`; when the daemon closes a socket, what it wrote in the
same step is lost with it (`Relay`: Qt deletes the socket with its buffer). RTCP BYE
packets are a set, `byes`: they may arrive in any order, late, or never (`ByeIsLost`), and
`HearsBye` believes any. `apart` is history: the clients whose codec did not start, timed
out, or was stopped by such a packet, or who lost their connection, until the daemon's next
ME or MS. The Settings dialog's OK (`Settings`) may come in the middle of a call, as its
event loop lets a call begin under it.
Every source of trouble spends from `Budget`, so a cfg says exactly what may go wrong.
`ClientReads` takes the next command and does what ParseCommand and the slots it is wired
to do: `Challenge`, `LoginOk`, `Response`, `MediaStart`, `MediaStop`, `Ping`,
`ConnectionLost`.

### Codec and Coders

The main thread's slots and PortAudio's thread. A slot during which callbacks may run and
which shares `codec_locked` with them is split at those points, and `phase` says which
part is next: `connectToHost` between the start of the two streams, `disconnect` between
StopMeters and the end of the streams, `meterData` at each reading of `codec_locked`. A
packet is one block of audio; `Decoded` is the ring's clipping; what a callback does with
the block count (mute until the set point, lock, unlock) is `AudioOutputCallback`.

Coders adds to every step of Codec what it does to the coders: `encoders[f]` and
`decoders[f]` are the call that made format f's state, 0 if none (Init and Free of
Layer 3, Speex, Vorbis), `EncodeFrame` how many packets a block of input becomes.
`disconnect` frees the encoder and never the decoder, as the code does.

### RingBuffer, BoundedFifo and Reception

RingBuffer is the array, the two pointers and the masked arithmetic, a read or write in two
parts where it wraps. Both pointers are moved by the audio thread alone (Codec resets the
ring while no stream runs), so a call is one action. BoundedFifo is what its user
expects: a queue of `Size - 1` bytes that cuts the end of what does not fit; RingBuffer
maps to it by reading the ring from `readPtr` to `writePtr`.

Reception puts a far codec and a network around the ring. `Transmit` is
AudioInputCallback with its stream ratio (copies of each packet), `wire` what is under
way; `ReadPacket(i)` takes one of the next `Reorder + 1`, and is one turn of
AudioOutputCallback's loop over the socket: `OtherSource` when the SSRC changed,
`SameSource` for the numbers, the rollover and the losses. What is decoded goes through the
resampler: `Resample(p, m)` are the `m` sample frames that src_process makes of packet `p`,
`m` being any of `Resampled`, as the ratio moves with the phase locked loop; `Bytes` are
their interleaved bytes, each with its place in its frame. A callback plays `BlockBytes`,
which need not be a packet's. `Play` is the rest of the
callback. `ReportBegins` and `ReportEnds` are GenerateRtcpPacket's reading and storing of
the last number, in the other thread. `PacketsReceived` is the
number rtcpTransmitData hands to the statistics. `NewCall` is disconnect() followed by
InitAudioInterface's reset. `story` is
no variable of the code: it is what really happened, which the receiver's numbers are
compared with: the first and the newest packet of the source, how many were decoded, read
in vain behind a gap (`skipped`), late and `missed`; whether the call had one source
(`sole`); whether the numbers could tell the order (`orderly`: no packet came from before
a rollover, or from a window ago, and no outage passed the window); whether a packet was
decoded `again`, and whether a report was `torn`; and which packet the last report was about
(`reported`, after a rollover the one before which the numbers began anew), and the one
being written (`reporting`).

### Rtcp

Pure operators: sender report, reception block (with its masks), source description with
its chunk and word arithmetic, BYE, and the walk over a compound packet, as
GenerateRtcpPacket composes them and rtcpReceiveData takes them apart. Words and bytes
keep their widths; a field that fills a word is its four bytes.

### Gpio

`RmlReadData` parses what both RML ports have (`CommandsOf`, with the echo port's tail left
in front of the other port's text; `Upconverted` for the old format), and does each
command (`SendGpio`, `StartShot`). `TimeoutData` and `ZombieData` are OneShot's slots, the
latter with its erased iterator. `RtcpTransmitData`, `RtcpReceiveData` and
`ReadPrivateSourceChunk` carry the mask; B's equipment, `on`, is what its last commands
made of it. `pulsed` and `told` are history.

### Settings

`Opened`, `SettingsChanged` and `CheckSettings` are how the boxes of
AudioSettingsDialog are filled from each other (`ChannelItems`, `BitRateItems`,
`SampleRates`); a box is its items and the one chosen. The dialog ends in three ways.
`OkData` wants a username and takes the boxes as they are. `Cancel` is done(1). `Reject` is
Escape or the window's close button: the dialog overrides nothing, so it is
`QDialog::reject()`, which is done(0), what settingsClickedData takes for OK. `Saves` is what
settingsClickedData does after a 0: `UnixLines` into a file that is truncated first, or
`WindowsLines` into the registry, with the entries that go under another's name, and the
registration. A save may be cut (`WriteConfigCut`: at the start or in stdio's second block,
or after any entry of the registry), with or without the program's death, or the file may
not open and stay (`WriteConfigFails`). `Start` reads (`ReadConfig`): a tag that is not there
has its default (`Value`, `Missing`), a name loses the spaces around it in the file
and keeps them in the registry (`NameRead`), and the login (`LoginRead`) goes
through `Base64ToString` and its first colon. Base64 is what it does: bytes in groups of three
are numbers of 24 bits, which are four sextets, with pads for what the bytes do not fill.
`AdvancedOk` changes the settings at once. `Nobody` is the login of a program whose first
dialog was closed without OK.

### Database and Netadmin

A copy of netadmin that opens, updates or restores a database has a list of statements to
run, `todo[a]`; `RunQuery(a)` runs one, or fails it before or after its effect, or meets
one that cannot work; `Unchecked` says which failures nobody looks at. A copy may die
between two (`Leave`). `spoilt` is the model's own record: "half" of a restore that has begun and
not ended, "trodden" of one that another copy worked under or whose version could not be read;
a backup file carries the record of the database it was made of. Netadmin adds the lists of one copy: `post` are the datagrams of SendUidUpdate and
SendCidUpdate, `UserUpdateData` and `CallUpdateData` the timer slots, which drop a datagram
of the other list.

The code knows a row in two ways, and so does the model. A datagram names an ID, and
`Refreshed` looks up the first item of it, or makes one. A dialog keeps a pointer to an item
of the list while its event loop runs those slots. So `rows[i]` is the sequence of the items
of `i`, what each shows, and `view.held` which of them the dialog was opened for, 0 once a
datagram has deleted it because the user went offline under the filter; an item made when he
comes back is another one. `FinishEdit` refreshes, and `DeleteYes` deletes, the item that is
held: if it is gone, the program has used freed memory and dies (`Dies`) or goes on with the
list as it is (`GoesOn`). `FinishAdd` makes an item also where a datagram has made one
meanwhile, before or behind it. A form that is closed (`Reject`, `RejectName`) is taken for OK, as
in Settings. A start may find a version that it cannot read, which is 0 and leads to the
question whether to replace the database (`StartNetAdmin`, `Replace`). `untold` collects
the rows that changed without a datagram, or that a dialog left as just said: the lists are
compared on all others.

## 3. Runs

| run | shows | distinct states |
|---|---|---|
| daemon_calls | three connections, any commands, reaping, restart: `TypeOK CallFieldsAgree RowSharedByFarEnds HeldRowIsOpen PortsDistinct ToldWhenCallEnds` | 783 481 |
| daemon_reap | pings against answers, a clock that repeats: `DeadSessionsReaped` | 415 878 |
| calls | three clients, three clicks, calls out of calls, a missing decoder, a fault, BYEs loose: `NobodyLeftStreaming StreamsMeet` | 3 080 268 |
| agree | three clients who may also call themselves, three clicks, a fault, BYEs loose: `CallsAgree` | 1 021 195 |
| hangup | two clients, three clicks, a restart of the daemon: `SystemTypeOK HangUpCompletes` | 169 591 |
| ghosts | one client, changed account, renewed login, relaunch, early ping, restart: `EventuallyLoggedIn` | 276 211 |
| codec_life | two calls of any formats, both threads: `TypeOK PointersAreGood OnlyTimeoutRunsOn CodersReady SilentStreamEnds` | 236 911 |
| rtcp_report | `RoundTrip NothingMistaken` | 2 860 |
| hears | two calls across a rollover, losses, copies, reordering, a resampler: `TypeOK InStep Accounting ReportsGoOn WholeFrames NeverAgain VectorsPartTheRing ImplementsFifo` | 1 148 546 |
| settings | two logins, file and registry, cut and failing saves, dialogs closed: `TypeOK Playable Remembered Registered OkKeeps` | 634 401 |
| gpio | two lines, two pulses, restarts: `TypeOK OutputsFollow PulseEnds Converges` | 67 566 |
| admin | two copies of netadmin and the daemon on one database: `TypeOK VersionTells Shown` | 1 041 034 |

Each property has a mutant in PROJECT.json: a changed definition of the model, the way a
slip in the code would change it, under which the run reports that property violated. The
mutated forms stand beside the originals, marked `Mutant`.

### Bounds, and why they are enough

* `Fds`: three in daemon_calls, the least with which a call has a third party, a
  caller is paired twice, and a descriptor is reused while its neighbours hold it. Two in
  daemon_reap, whose point is one session against one sweep. In NetIsdn the number of
  descriptors equals that of clients (ghosts: three for one client, for it and the
  sessions it leaves behind).
* `Uids`: two; callers differ from callees, and two sessions may be of one user. No
  definition names a user, hence `SYMMETRY UserSymmetry` (safety only).
* `VIEW CallView` in daemon_calls drops `out`, `online` and `calls`. No action reads `out`
  or `online`; with a steady clock none reads who a row's caller is, only how many rows
  there are; and the action property reads `out'` in the step that writes it. Liveness runs
  use neither view nor symmetry.
* `Ports`: as many as sessions can hold at once, so GeneratePort never runs dry (the code's
  range has no end either), and reuse happens.
* `PingLimit`: the code's timeout is three intervals; what counts is answered in time or
  not. 1 where sweeps matter; 0 in daemon_calls, where any sweep may log anybody out at any
  time, the worst case.
* `MaxCalls`: 2 to 4 rows; the properties relate at most two calls.
* Clients: three in calls and agree, since a caller who calls somebody else out of a call
  leaves a third party behind. In calls one of them only answers. Two in hangup, one in ghosts.
* `Budget`: three clicks, so that a call can be set up, hung up and set up again, with one
  fault: a codec that times out, or does not start. The BYE packets of the first call are loose
  while the second is set up, and do stop its codecs (section 6). `CallsAgree` speaks of every
  client but those in `apart`; a client is in it from that packet, or fault, on until the
  daemon's next ME or MS, and the theorem in section 4 is for any number of clicks, faults and
  renewed logins. ghosts has each of the other troubles once.
* In agree the clients are interchangeable, each with its user (`SYMMETRY PairSymmetry`: any
  may call any, also itself), and `VIEW AgreeView` is `CallView` with `apart`; `CallView`
  leaves out what no action reads, as in daemon_calls.
* `NoneOverrun`, which NobodyLeftStreaming and StreamsMeet suppose: each row of CALLS that is
  not ended is held by two sessions. It fails only after a call to oneself or out of a call
  (section 6; then the two properties do fail, since the far end left behind streams on)
  or after the daemon died in a call, which leaves its rows unended: calls has no shutdown.
* Coders: set point 2, ring 3, two packets: muted, filling, full, locked and dry are all
  told apart; two calls of any two formats, so that a timer, a decoder and a lock of one
  call meet the next.
* MCRtcp: names of none and of 12 to 17 bytes cover each remainder modulo 4 with and without
  a carry, 254 to 300 the length byte; masks with each byte set; losses on both sides of
  the bits written.
* MCReception: eight sequence numbers with a window of three and first numbers of six and
  seven: the number rolls over in the middle of a call of three packets, and an outage may pass
  the window. A packet becomes one sample frame or three, a block takes two, and a frame is two
  bytes: packets and blocks do not line up, and a block takes frames of two packets or parts of
  one. The ring of eight bytes holds three frames but for a byte: it wraps within a frame, and
  overruns within one. One packet may overtake one other; two calls, so that late packets of
  the first meet the second. The view leaves out ring cells that are not to be read.
* MCSettings: both systems, all formats, two logins (one whose password has a colon and a
  byte over 127), texts that are addresses or not; four boxes touched, enough to change
  both formats, channels and the sample rate in any order, two starts and two saves. The
  name has a space in front, which the file and the registry treat differently.
* MCGpio: the first and the last line, one with both commands and one with only the first;
  two pulses, so that an old timer meets a new pulse; two different reports under way.
* MCNetadmin: four databases to begin with (none, version 1, version 5, one in use, with backup
  files of versions 4 and 5), and `Times`: how often copies start, statements fail, backups,
  restores, calls and edits happen, in eight mixtures, since all together are too many: four
  starts with a fault; a restore and a backup with a fault; three datagrams of calls and logins;
  two of them with a dialog, one with two dialogs, so that the user of a dialog's item goes
  offline under the filter and comes back before OK; and a restore or an edit by the other copy.

### Fairness

* daemon_reap: weak fairness of the ping timer and of the sweep's turns. Nothing of clients.
* NetIsdn: every program runs its event loop (weak fairness of reading, reaping, sweeping);
  the network delivers and forgets; timers expire; a connection attempt ends; systemd
  restarts (`Restart=always`, systemd/netisdn.service.in). A ping arrives again and again
  at moments when nothing is under way (`SF` of `DaemonPings`: two seconds between pings are
  long against the milliseconds of a command, but a weak condition would be switched off by
  each command). Error boxes of a client are modal; a client that leaves one open answers no
  ping, so it is assumed that they are dismissed. Users and faults have no fairness.
* Codec and Coders: slots that have begun finish, timers fire, the hardware asks for the
  next block. Nothing makes a call begin or a packet arrive.
* Gpio: a running timer fires; a call's reports go on, every few seconds; one that is
  sent again and again gets through (strong), and none is under way for ever. Nothing makes
  commands come, calls begin or programs start.

Deadlock is checked where the system cannot stop. It is not checked in Coders, Reception,
Settings, Gpio and Netadmin, where the calls, packets, starts or edits that the bounds allow
may all have happened. In NetIsdn resting is a step only when nothing is under way, so a
state in which a command is stuck would be reported.

## 4. Proofs

All with TLAPS, for any values of the constants that satisfy the named assumptions
(`FdsAssumption`, ..., `NetadminAssumption`: finite or not, any number of sessions, users,
packets and copies).

**NetSipd_proofs.** `TypeCorrect` (Spec => []TypeOK). `CallsConsistent` establishes the
inductive invariant `CallInv`: `CallFieldsAgree`, `RowSharedByFarEnds`, `HeldRowIsOpen`, and
`RowsExist` (a held row, and an ended one, is a row of CALLS). None of the conjuncts is
inductive alone: that a row is not ended twice needs that its two holders name each other,
that needs that a new row is a new number, and that EndCall clears all who hold the row
needs both. The first three follow (`CallFieldsAlwaysAgree`, `HoldersAreFarEnds`,
`HeldRowsStayOpen`; the last two hold by themselves for `SteadyClock`). `PortsNeverShared`
needs `HostInv`: the address of every connection is an address, what it reported is one of
the host's, and ports are distinct. `NobodyLeavesUntold` is an action property: one lemma
per handler shows that the only ways from a call to none go through `StopMedia` or close
the socket.

**NetIsdn_proofs.** `SystemStep`: each step of the composed system is a step of NetSipd or
leaves the daemon alone, under the invariant `QueuesOK` (what waits for the daemon is a
command a handler takes). So `SystemSpec => Spec` (`SystemRunsTheDaemon`), and every theorem
about the daemon holds of the system: `SystemCallFields` and `SystemTellsEveryone` are two.
`SystemTypeCorrect` adds the clients' types (`ClientTypes`): each queue holds commands its
reader knows, and a BYE has an address and a port since its codec had.

The rest is about *calm* systems (`Calm`): any number of clients, calls, clicks, faults of
codecs, BYE packets and renewed logins, but no connection is lost (nobody quits, the daemon
does not stop, pings keep their interval), no account is shared or changed, and the clock is
steady. Outside of them a lost connection takes its MS with it, and agreement waits for the
next login. Four inductive invariants, each on top of the ones before:

* `CalmInv` (`CalmSystem`): every client has one connection; a login goes round it once at a
  time, as LI, challenge, PW, OK or the timer that begins another (`Tokens`), with the last
  challenge (`Numbers`), so nobody is refused; and each ping is answered before the next
  (`PingInv`), so nobody is reaped. `CalmServes`: the daemon refuses no name and no password.
* `StreamInv` (`StreamSystem`): what a codec runs, *or may run when its client has read all that
  was written to it* (`Ahead`), is the ports of the call the daemon has it in, or nothing. It is
  this that makes the quiet states follow, since there is nothing then to be read:
  `NobodyStreamsAlone` and `CallersMeet` are NobodyLeftStreaming and StreamsMeet.
* `AgreeInv` (`DaemonAndClientsAgree`): a client in a call has an ME or a running codec ahead of
  it, or is in `apart`, or has a BY on its way to the daemon. It follows for CallsAgree with no
  other assumption than `Calm`: clients without a decoder, and codecs that fail, included.

**Codec_proofs.** The inductive invariant joins `PointersAreGood` and `OnlyTimeoutRunsOn` with
`PhasesInOrder`, which says what runs in each phase: without it nothing says that a stop
that has begun finds both streams, or that a failed start has no input stream.
`OnlyTimeoutEverRunsOn` is as strong as the code allows: an idle codec has no stream, socket,
queued packet, report or meter timer of its last call; `codec_timeout_timer` is not stopped by
disconnect() (codec.cpp:770) and is left out by name. `TypeOK`
(`CodecTypeCorrect`) has the ring's bound in it: a block is clipped to what is free.
`CodersRunACodec`: each step of Coders is one of Codec, so that the codec's theorems carry
over (`CodersPointersGood`, `CodersOnlyTimeoutRunsOn`, `CodersTypeCorrect`).
`CodersAlwaysReady` is inductive once the coders are typed: every way out of a call frees
the encoder in the step that makes the codec idle, every way in makes both coders first.

**Reception_proofs, the ring.** `RingImplementsFifo` is a refinement for every power of two: the
bytes between the pointers, read round the end of the array, are the abstract queue. The
lemmas take the masked arithmetic apart: `MaskedOnce` (a sum of two pointers wraps once),
`ReadSpaceIs` and `WriteSpaceIs` (the code's cases are one difference modulo the size),
`ContentsIs`; `WriteIsPut` and `ReadIsGet` are the two halves of a call put together.
`VectorsAlwaysPart`: the vectors offered to a reader and to a writer are disjoint, and
together all the array but the byte that is kept free.

**Reception_proofs, the receiver.** `ReceptionRunsTheRing`: each step of Reception is one of RingBuffer's,
so the refinement and the vectors hold of the ring in use (`ReceptionImplementsFifo`,
`ReceptionVectorsPart`). Four invariants carry the rest.

* `NumbersOK`, `WireOK` and `ThreadOK`, the types (`ReceptionTypeCorrect`).
* `StepInv`. `InStep` alone is not inductive: it needs that no rollover is counted before
  the first packet (`AlwaysInStep`). `Accounting` needs the balance of decoded, skipped and
  missed packets, and that `start` is the first one's number (`AlwaysAccounted`); `NeverAgain`
  needs `InStep`, and that the packet decoded last is not after the newest
  (`NeverDecodedAgain`). The step is one lemma about numbers
  (`NumberTells`): for a packet that is not out of step, which of the code's two comparisons
  holds says whether it is newer, the same or late. It rests on division by a modulus that
  is a constant of the model (`RoundsAre`, `SameRound`, `NextRound`).
* `LagInv`: the number that rtcpTransmitData computes uses the number reported last, not the
  newest. As long as no report raced a rollover, the two are as far apart as the packets they
  are of, and so is the number a report under way is about to store; at a rollover, where the
  code puts the last number back to 0, the packet it stands for is the one before which the
  numbers began anew. With it `Accounting` says exactly how far off the number received is.
* `FramesInv`: as long as no block was cut, the ring holds whole sample frames in the order in
  which the resampler made them, ending with the last of a packet (`RingFramed`), and so is
  what was played (`FramesHeard`), however many frames the resampler makes of each packet and
  however blocks fall on them (`FramesStayWhole`). A packet's frames behind the others, and a
  block taken off the front, keep it so, through `ContentsIs` of the ring.

`ReportsGoOnCorrect`: the number last reported, and the one about to be stored, never stand
ahead of the newest. It needs `torn` to except a report that raced a rollover: with the code
as it is, that one does stop reports for a cycle.

**Gpio_proofs.** `OutputsAlwaysFollow`: an invariant that is inductive as it stands; all that
could disturb it is a report read in whatever order, one lemma. `LinesTypeCorrect` and
`PulsesAlwaysTimed` are for texts of any length at the two ports: a text's commands are folds,
whose values are shown to exist as functions of the position and to stay in their types by
induction on the position (`SetInduction`, from the well-foundedness of the numbers, with a
set in place of the operator the library's theorems take). `LinesInv` says that ids
of timers are below the next one and that a line that is on for a while has a timer running,
which is why `TimeoutData` of an older pulse may end it early, but none stays on for ever.

**Rtcp_proofs.** For a name of any bytes and any length, any mask, any numbers and up to one
reception block, `ReportsArrive` and `NothingEverMistaken`: from the bits of a header
(`HeaderReads`) over the words of a report (`ReportWritten`, `ReportRead`), the cut name
(`NameCut`), the sizes of a description (`SizeIs`) and its bytes to the packet, which the reader
hops through header by header. The walk is a recursive function, which the same induction shows
to exist and to have the packets' places as its only stops (`HopsExist`, `StartsHop`).

**Netadmin_proofs**, for any number of copies and mixture of failures. `AlwaysShown`:
`Shown` is not inductive: what a statement of another copy changes must be in `untold`, for
which the database must be `Complete` (its tables' rows are defined, calls are of users),
datagrams must be about users and calls, and a dialog belongs to the list of users (`Shape`).
`RowsShape` is about the items: each ID has a sequence of them, and the item a dialog holds is
one or 0. `Shown` does not say that the item held is right, only that what is looked up,
replaced, deleted or made leaves one item per row, or the row in `untold`.

`AdminTypeCorrect` and `VersionAlwaysTells` rest on what a copy still has to run. `Program`
says that its statements come in the order of their phases (create the database, its tables,
its rows, its version; add columns, then the version; drop, load, the version last), and that
a program which creates the database creates all tables. `VersionInv` then says, of the
database together with what is left of every copy's program, what is owed: a database has
what its versions promise (`Sound`); a copy that will write the version of a new database
has each table complete or still to create (`MakingOK`); one that will write it after an
update still adds all that is missing (`UpdateOK`); one that is restoring has what the file
has not promised, or will load it, or has not dropped it (`RestoreOK`). `VersionTells` is the
case in which nothing is left. Nothing is owed by a database that a restore has left `spoilt`
(half done, worked under by another copy, or with a version that could not be read), until a
restore ends well; and USERS.ONLINE is owed by no version, since its statement is not checked.
A version that cannot be read at a start may lead to replacing a database that has one.
None of `Sound`, `MakingOK`, `UpdateOK` and `RestoreOK` is kept by the other copies by itself: `OldOK`
and `OldExists` are needed because an update of an old release makes CALLS without its
later columns, which would break what another copy that creates a database relies on, if the
two could meet. A statement adds (`Grown`), drops, or writes the version, and each kind has a
lemma for the copy that runs it and for all the others.

**Settings_proofs.** In five parts.

* Base64: `Base64RoundTrip` for texts of any bytes and length: a group of three bytes is a
  number, its four sextets and its three bytes both give the number back, and as many bytes are
  dropped as pads were added.
* The boxes. `Ready` is a dialog that settingsChangedData can go by, `DialogFits` one whose
  boxes go together: every item of the bit rates is one for the format, the channels and the
  sample rate chosen, and Speex has its one rate. `SettingsChangedFits`: from any `Ready` dialog
  comes one that fits. This is not obvious of the code, which fills the transmitter's lists by
  the sample rate before the receiver's format takes the higher one away; it is right since
  the rates at 48000 are among those at 32000. `OpenedFits`: the dialog fits as it opens,
  whatever settings were read, though the code checks the transmitter while the receiver's
  boxes are empty.
* The disk: what each tag holds after a save, whole or cut (`TagStored`), and what is read of
  it. `DiskFits` says what any start may find: formats that can be opened, the login of some
  save if any, and in the file a sound that can be played.
* The program. `SettingsInv` is `Playable`, `Remembered` before and after a save (`KeptInv`),
  that an open dialog fits (`StateInv`), the login told is the one set (`LoginInv`), and
  `DiskFits`. It holds for a dialog closed with Escape as for OK, since what is saved then is
  the set there was, with no username at a first start: then the login is nobody's, and
  `DiskFits` says that the next start asks again, also when the file was left as it was or
  cut. `Playable` needs that the dialog fits in every state, since OK takes the boxes as they
  are, and that the disk does, since a start after a cut save reads whatever was written; `Remembered` needs the Base64 theorem and that a username has no colon;
  `Registered` needs that the dialog's login is one that was typed. The theorems are
  `SettingsTypeCorrect`, `AlwaysPlayable`, `AlwaysRemembered`, `AlwaysRegistered`.
* OK with nothing changed (`OkKeepsSettings`, an action property). `OpenedSays` computes the
  boxes of `Opened` for settings that can be played; `AcceptedUntouched` that OK makes of them
  what was there but for the two rates. `UntouchedInv` says that a dialog nobody touched is
  still `Opened(set)`, and that what is chosen, saved or read is a format that is compiled in,
  or what ReadConfig takes where nothing is written: a build without a
  format could not offer it, and OK would save another one.

**Only model-checked:**

* liveness (`DeadSessionsReaped`, `HangUpCompletes`, `EventuallyLoggedIn`,
  `SilentStreamEnds`, `PulseEnds`, `Converges`): ENABLED in fairness is out of TLAPS's reach;
* `SystemTypeOK` apart, what becomes of a system that is not calm: hangup and ghosts, in which
  connections are lost. The properties of quiet states are neither proved nor checked there
  (calls and agree are calm).

## 5. Not modelled, and why

* MD (ReceiveMetadata, SendMetadata): it reads state and writes text shown to people.
* A database that fails under the daemon: its statements always succeed (netadmin's may
  fail); sqldb's second attempt is a hazard noted in PROJECT.json.
* TCP as characters: commands are whole. Halves of commands kept over a reconnect
  (`conn_cmdline`, lib/controlconnect.cpp:347) are noted as a hazard.
* A signal inside a handler (SigHandler closes the database and exits; a handler cut in
  half is one whose messages are lost, which a crash between handlers shows as well,
  except for rows half written).
* The transmitter's format `NoFormat`, which no dialog offers and with which a call would
  follow a null header; MeterAverage and how the phase locked loop moves the resampler's ratio,
  which is floating point: in Reception any number of sample frames of a set may come out of a
  packet; meters; RTPReceptionReport, which the codec never writes.
* Signal processing, painting and layout, the names the call box remembers, the ini file of
  the daemon, the prototypes in client/ and the packet dropper in netfilter/.

## 6. What the code does that its reader may not expect

All of it is in the models, or beside them, as the code has it; no run depends on it
being otherwise.

Signalling:

* netsipd.cpp:366: a second CA of a caller already in a call overwrites his far end, who
  streams on after the hang-up; docs/control_protocol.txt:88 promises a media stop to each.
* netsipd.cpp:680: a PG between LI and PW is answered, as docs/control_protocol.txt:112 asks,
  and the answer is refused with ER 5 and costs the connection.
* netsipd.cpp:293: an account counts as in use from LI on, before any password, so that two
  logins at once refuse each other with ER 2.
* netsipd.cpp:357: a callee is found by that same uid, so one who is not logged in yet is
  called; if he goes before his login completes, Logout returns early and the caller
  streams on.
* netsipd.cpp:62-77: USERS.ONLINE stays 'Y' when the daemon exits.
* netsipd.cpp:254: LI over an authenticated session changes its uid, in a call too.
* netsipd.cpp:520: the row of a session that calls itself is never ended.
* netsipd.cpp:512: a far end that is gone would be a NULL pointer.
* netsipd.cpp:643-650: SendMetadata swaps MA and PH against docs/control_protocol.txt:102-104.
* `zombieData` and `pingTimerData` use erased iterators; with a steady supply of short-lived
  connections a dead session may be skipped each time.

Codec:

* codec.cpp:884: a BYE is believed whatever its SSRC, so that one of an earlier call stops
  the next one on the same port (docs/rfc3550.txt:2837).
* codec.cpp:605, 1401: disconnect() keeps the decoder, which nobody ever frees, and the next
  Vorbis call decodes with the earlier one's codebook until its own arrives.
* codec.cpp:906 and :573: a codec that times out or cannot start tells nobody, and the
  button reads Connect while the daemon has the client in a call.
* codec.cpp:748-775: `codec_locked` is read several times: the timeout may be running on a
  stream that is locked, or not on one that is lost; one that was never locked has none, and
  a timer of one call fires into the next. A failed input stream leaves it set.
* codec.cpp:178-205: each gap costs the packet behind it too, and counts as one loss whatever
  its length; so does the rollover. A late packet just after a rollover counts a second
  one. An outage of 256 packets across it stalls reception for up to a cycle; and once a late packet has
  counted one more, copies of packets that were played are decoded a second time. Late packets
  of an earlier far codec change the SSRC, and back.
* codec.cpp:1598-1612: a rollover while a report is written stops reception blocks for a cycle.
* codec.cpp:1218: `*outlen` is not set when lame has no frame ready; several frames go to one
  buffer. Lines 1108 and the one around EncodeVorbisFrame test misspelt macros: the Layer 3
  encoder is not freed, and Vorbis sends nothing.
* ringbuffer.cpp:179: the capacity is odd, so an overrun splits a sample.
* rtpreceptionblock.cpp:141: 4 and 11 bits are written of losses that have 8 and 24.
* RTPReceptionReport::writeBlock writes its first block over its header, and
  RTPSourceDescription::readBlock takes the SSRC from the first chunk's bytes. RTPHeader never
  writes its extension bit and reads it in the wrong word.

Lines:

* A pulse's timer outlives the order that ends it early, and cuts short the next pulse, or a
  steady on, of its line; a pulse on a line that is on is not timed.
* A report of an earlier call, or an overtaken one, sets lines back until the next report.
* netisdn.cpp, rmlReadData: half a command at the echo port is glued to the other port's first.
* Equipment that was on stays on when B's program restarts; OneShot::zombieData uses an erased
  iterator.

Settings:

* netisdn.cpp:534: settingsClickedData takes exec() == 0 for OK. Escape and the window's close
  button are `QDialog::reject()`, which is done(0) too, while Cancel is done(1)
  (audiosettings_dialog.cpp:633): so closing the dialog saves and registers again, and at the first
  start, for which netisdn.cpp:321 says "Verify username" and audiosettings_dialog.cpp:571 "You
  must supply a valid username!", it registers an empty one. The next start asks again.
* netisdn.cpp:1006: if the file cannot be opened, the old one stays, while the program has
  registered under the new login and uses it until its next start.
* netisdn.cpp:789 against lib/profile.cpp:68: the spaces around a name are lost in the file and
  kept in the registry; an address for the line on that is not in the registry is the one for off
  (netisdn.cpp:821-826), and 0.0.0.0 if it is not in the file.
* audiosettings_dialog.cpp:419-428, 1057-1069: opening the dialog and pressing OK turns 48000
  into 32000 (`OkKeeps` says exactly what changes).
* netisdn.cpp:959-960, 991-992: on Windows the receiver's bit rate is saved as the
  transmitter's, and the command where the line's address should be.
* netisdn.cpp:1005: WriteConfig truncates first and looks at no result.
* advanced_dialog.cpp:302: a text that is no address takes the address of the field before.
  Advanced settings apply at once and are not saved if the dialog around them is cancelled.

netadmin:

* createdb.cpp:153, 182: ONLINE's statement and the last one are not checked; an update that
  failed half way fails for ever at the column it finds. opendb.cpp:345: a replaced database is
  updated from version 0, which fails the same way. A copy that starts before another has
  written the version sees 0 and offers to replace the database.
* netadmin.cpp:346: a restore drops all tables first; a version that cannot be read is taken for
  the current one; UpdateDb's result is not looked at.
* add_user.cpp:136: cancelling the form of a new user deletes by a column that does not exist,
  so the user stays. edit_user.cpp:252 writes back all that was read when the form opened.
* list_users.cpp:188-232: the item is used after a modal dialog in which a datagram may have
  deleted it, when its user went offline under the filter: OK then refreshes freed memory, and an
  item made when he came back stays as it was; a second Yes deletes an item twice.
* list_users.cpp:170-185: addData makes an item also when a datagram has made one meanwhile, so
  the user is listed twice; it scrolls to an item that RefreshItem has deleted, if the new user is
  not listed; and a form closed with Escape (exec() 0) is taken for OK.
* opendb.cpp:273, version.cpp:38: a version that cannot be read is 0, for which OpenDb offers to
  replace the database.
* `list_current_user` is never set, so an administrator may delete himself.

## 7. Plan

Done: the modules above and their proofs. What is left, in this order:

1. `Metadata` (MD) as an extension of NetSipd and NetIsdn; a database that fails under the
   daemon, with NetSqlQuery's second attempt.
2. NetIsdn beyond calm systems: what the daemon and a client agree on once its connection is
   back; an abstract specification of a call (two parties, one row, one pair of ports), which
   NetSipd implements for callers who wait for the answer.
3. ControlConnect's stream of characters, with the half command that is kept.

Runs are kept to a dozen: what is added replaces what is shown by something deeper.
