-------------------------------- MODULE Codec --------------------------------
(***************************************************************************)
(* The life of netisdn's Codec: the two RTP sockets, the audio streams, the *)
(* timers and the flags that a call sets up and takes down again.           *)
(*                                                                         *)
(* Two threads run.  The main thread runs the slots; the audio thread of    *)
(* PortAudio runs AudioOutputCallback and AudioInputCallback from the start *)
(* of a stream to its end, without a lock.  So a slot during which a        *)
(* callback may run, and that shares codec_locked with it, is several       *)
(* actions, and phase says which comes next: connectToHost between the two  *)
(* streams' start, disconnect between StopMeters and the end of the         *)
(* streams, and meterData between its readings of codec_locked.             *)
(*                                                                         *)
(* A packet is counted as one block of audio.  Which packets the callback   *)
(* accepts by their sequence numbers is left open here: see Reception.      *)
(***************************************************************************)
EXTENDS Naturals

CONSTANTS
    Setpoint,   \* codec_buffer_setpoint
    RingMax,    \* blocks that fit in codec_ring
    InboxMax,   \* bound: packets that wait in the RTP socket
    MaxCalls    \* bound: calls that connectToHost is asked for

ASSUME CodecAssumption ==
    /\ Setpoint \in Nat \ {0} /\ RingMax \in Nat /\ Setpoint <= RingMax
    /\ InboxMax \in Nat /\ MaxCalls \in Nat

VARIABLES
    phase,      \* what the main thread is in the middle of
    state,      \* codec_connection_state
    calls,      \* calls so far; the current one is the last
    sockets,    \* codec_rtp_socket and codec_rtcp_socket are open
    reports,    \* codec_rtcp_transmit_timer and codec_rtcp_receive_timer run
    header,     \* codec_transmit_header is not NULL
    dest,       \* codec_dest_addr is not NULL
    playing,    \* codec_output_pstream runs
    recording,  \* codec_input_pstream runs
    metering,   \* codec_meter_timer runs
    locked,     \* codec_locked, which the audio thread writes
    lockState,  \* codec_lock_state: codec_locked as meterData last saw it
    timer,      \* codec_timeout_timer runs
    inbox,      \* packets waiting in codec_rtp_socket
    ring,       \* blocks in codec_ring
    vorbis,     \* codec_settings.format(Receive) is Vorbis
    decoder,    \* codec_vorbis_decoder_ready: the call of its codebook, 0 if not
    loopback    \* codec_loopback

setup == <<sockets, reports, header, dest>>
streams == <<playing, recording>>
lock == <<locked, lockState>>
audio == <<inbox, ring>>
format == <<vorbis, decoder>>
vars == <<phase, state, calls, setup, streams, metering, lock, timer, audio,
          format, loopback>>

Resting == phase = "rest"

Init ==
    /\ phase = "rest" /\ state = "Idle" /\ calls = 0
    /\ sockets = FALSE /\ reports = FALSE /\ header = FALSE /\ dest = FALSE
    /\ playing = FALSE /\ recording = FALSE /\ metering = FALSE
    /\ locked = FALSE /\ lockState = FALSE
    /\ timer = FALSE /\ inbox = 0 /\ ring = 0
    /\ vorbis = FALSE /\ decoder = 0
    /\ loopback = FALSE

-----------------------------------------------------------------------------
(***************************************************************************)
(* connectToHost.                                                          *)
(***************************************************************************)
FreeSockets ==
    /\ sockets' = FALSE
    /\ reports' = FALSE
    /\ inbox' = 0

\* codec_vorbis_decoder_ready is reset for a Vorbis stream alone
FreeDecoder(isVorbis) == decoder' = IF isVorbis THEN 0 ELSE decoder

\* ... fails before a stream has started.  The encoder's header is not taken back.
ConnectFails(isVorbis) ==
    /\ Resting /\ state = "Idle" /\ calls < MaxCalls
    /\ calls' = calls + 1
    /\ header' = TRUE
    /\ \/ UNCHANGED <<dest, ring>>            \* InitSockets failed
       \/ dest' = FALSE /\ UNCHANGED ring     \* SetDestinationAddress
       \/ dest' = TRUE /\ ring' = 0           \* InitAudioInterface
    /\ FreeSockets
    /\ vorbis' = isVorbis
    /\ FreeDecoder(isVorbis)
    /\ UNCHANGED <<phase, state, streams, metering, lock, timer, loopback>>

\* ... gets as far as the output stream, which starts to call back
ConnectToHost(isVorbis) ==
    /\ Resting /\ state = "Idle" /\ calls < MaxCalls
    /\ state' = "Connecting"
    /\ calls' = calls + 1
    /\ header' = TRUE /\ sockets' = TRUE /\ reports' = TRUE /\ dest' = TRUE
    /\ vorbis' = isVorbis
    /\ ring' = 0
    /\ playing' = TRUE
    /\ phase' = "opening"
    /\ UNCHANGED <<recording, metering, lock, timer, inbox, decoder, loopback>>

\* ... opens the input stream and returns
InputOpens ==
    /\ phase = "opening"
    /\ recording' = TRUE
    /\ metering' = TRUE
    /\ phase' = "rest"
    /\ UNCHANGED <<state, calls, setup, playing, lock, timer, audio, format, loopback>>

\* Mutant: this way out forgets the sockets
InputFailsAndKeeps ==
    /\ phase = "opening"
    /\ playing' = FALSE
    /\ FreeDecoder(vorbis)
    /\ state' = "Idle"
    /\ phase' = "rest"
    /\ UNCHANGED <<calls, setup, recording, metering, lock, timer, audio, vorbis,
                   loopback>>

\* ... cannot: it closes the output stream and all else
InputFails ==
    /\ phase = "opening"
    /\ playing' = FALSE
    /\ FreeSockets
    /\ FreeDecoder(vorbis)
    /\ state' = "Idle"
    /\ phase' = "rest"
    /\ UNCHANGED <<calls, header, dest, recording, metering, lock, timer, ring,
                   vorbis, loopback>>

-----------------------------------------------------------------------------
(***************************************************************************)
(* disconnect.                                                             *)
(***************************************************************************)
\* StopMeters
StartDisconnect ==
    /\ metering' = FALSE
    /\ locked' = FALSE
    /\ lockState' = FALSE
    /\ phase' = "stopping"

\* MS, ER 14, or an RTCP BYE that rtcpReceiveData reads
Disconnect ==
    /\ Resting /\ state # "Idle"
    /\ StartDisconnect
    /\ UNCHANGED <<state, calls, setup, streams, timer, audio, format, loopback>>

\* Mutant: the streams are left running
StreamsRunOn ==
    /\ phase = "stopping"
    /\ locked' = FALSE
    /\ FreeSockets
    /\ header' = FALSE
    /\ state' = "Idle"
    /\ phase' = "rest"
    /\ UNCHANGED <<calls, dest, streams, metering, lockState, timer, ring, format,
                   loopback>>

\* Pa_StopStream waits for the callbacks, of which there may have been some since
\* StopMeters; then the rest is freed, the decoder excepted
FinishDisconnect ==
    /\ phase = "stopping"
    /\ playing' = FALSE /\ recording' = FALSE
    /\ locked' = FALSE
    /\ FreeSockets
    /\ header' = FALSE
    /\ state' = "Idle"
    /\ phase' = "rest"
    /\ UNCHANGED <<calls, dest, metering, lockState, timer, ring, format, loopback>>

\* timeoutData: the single shot has run down
TimeoutData ==
    /\ Resting /\ timer
    /\ timer' = FALSE
    /\ IF state = "Idle" THEN UNCHANGED <<metering, lock, phase>> ELSE StartDisconnect
    /\ UNCHANGED <<state, calls, setup, streams, audio, format, loopback>>

-----------------------------------------------------------------------------
(***************************************************************************)
(* meterData: codec_locked is read anew in every line.                     *)
(***************************************************************************)
MeterData ==
    /\ Resting /\ metering
    /\ locked # lockState
    /\ phase' = "metering"
    /\ UNCHANGED <<state, calls, setup, streams, metering, lock, timer, audio,
                   format, loopback>>

MeterState ==
    /\ phase = "metering"
    /\ state' = IF locked /\ state = "Connecting" THEN "Connected" ELSE state
    /\ phase' = "timing"
    /\ UNCHANGED <<calls, setup, streams, metering, lock, timer, audio, format, loopback>>

\* Mutant: the timer is not started
NoTimer ==
    /\ phase = "timing"
    /\ timer' = FALSE
    /\ phase' = "saving"
    /\ UNCHANGED <<state, calls, setup, streams, metering, lock, audio, format, loopback>>

MeterTimer ==
    /\ phase = "timing"
    /\ timer' = ~locked
    /\ phase' = "saving"
    /\ UNCHANGED <<state, calls, setup, streams, metering, lock, audio, format, loopback>>

MeterSave ==
    /\ phase = "saving"
    /\ lockState' = locked
    /\ phase' = "rest"
    /\ UNCHANGED <<state, calls, setup, streams, metering, locked, timer, audio,
                   format, loopback>>

-----------------------------------------------------------------------------
(***************************************************************************)
(* The audio thread, the network, and the other slots.                     *)
(***************************************************************************)
\* AudioOutputCallback while looped back: what comes in is sent back
LoopBack ==
    /\ playing /\ loopback
    /\ inbox > 0
    /\ inbox' = 0
    /\ locked' = FALSE
    /\ UNCHANGED <<phase, state, calls, setup, streams, metering, lockState, timer,
                   ring, format, loopback>>

\* Mutant: write() takes all it is given
Overfilled ==
    IF vorbis /\ decoder = 0 THEN {ring} ELSE {ring + n : n \in 0..inbox}

\* Packets are decoded into the ring, as many as fit
Decoded ==
    IF vorbis /\ decoder = 0 THEN {ring}
    ELSE {IF ring + n > RingMax THEN RingMax ELSE ring + n : n \in 0..inbox}

\* AudioOutputCallback: silent until the ring is filled to the set point, from
\* then on until it runs dry
AudioOutputCallback ==
    /\ playing /\ ~loopback
    /\ inbox' = 0
    /\ \E n \in Decoded :
         \/ n < Setpoint /\ ~locked /\ ring' = n /\ UNCHANGED locked
         \/ (n >= Setpoint \/ locked) /\ n > 0 /\ ring' = n - 1 /\ locked' = TRUE
         \/ locked /\ n = 0 /\ ring' = 0 /\ locked' = FALSE
    /\ UNCHANGED <<phase, state, calls, setup, streams, metering, lockState, timer,
                   format, loopback>>

PacketArrives ==
    /\ sockets /\ inbox < InboxMax
    /\ inbox' = inbox + 1
    /\ UNCHANGED <<phase, state, calls, setup, streams, metering, lock, timer, ring,
                   format, loopback>>

\* setCodebook: CB arrives after the ME of its call, whatever became of the call
SetCodebook ==
    /\ Resting /\ calls > 0
    /\ decoder' = calls
    /\ UNCHANGED <<phase, state, calls, setup, streams, metering, lock, timer, audio,
                   vorbis, loopback>>

\* setLoopback, from the advanced dialog
SetLoopback ==
    /\ Resting
    /\ loopback' = ~loopback
    /\ UNCHANGED <<phase, state, calls, setup, streams, metering, lock, timer, audio,
                   format>>

Main ==
    \/ \E isVorbis \in BOOLEAN : ConnectFails(isVorbis) \/ ConnectToHost(isVorbis)
    \/ InputOpens \/ InputFails
    \/ Disconnect \/ FinishDisconnect \/ TimeoutData
    \/ MeterData \/ MeterState \/ MeterTimer \/ MeterSave
    \/ SetCodebook \/ SetLoopback

Next == Main \/ LoopBack \/ AudioOutputCallback \/ PacketArrives

Spec == Init /\ [][Next]_vars

\* Slots that have begun go on, the timers fire, and the audio hardware asks for
\* the next block.  Nothing makes a call begin or end, or a packet arrive.
Fairness ==
    /\ WF_vars(InputOpens \/ InputFails)
    /\ WF_vars(FinishDisconnect)
    /\ WF_vars(TimeoutData)
    /\ WF_vars(MeterData) /\ WF_vars(MeterState) /\ WF_vars(MeterTimer)
    /\ WF_vars(MeterSave)
    /\ WF_vars(AudioOutputCallback)
FairSpec == Spec /\ Fairness

-----------------------------------------------------------------------------
TypeOK ==
    /\ phase \in {"rest", "opening", "stopping", "metering", "timing", "saving"}
    /\ state \in {"Idle", "Connecting", "Connected"}
    /\ calls \in 0..MaxCalls
    /\ {sockets, reports, header, dest} \subseteq BOOLEAN
    /\ {playing, recording, metering} \subseteq BOOLEAN
    /\ {locked, lockState, timer, vorbis, loopback} \subseteq BOOLEAN
    /\ inbox \in 0..InboxMax
    /\ ring \in 0..RingMax
    /\ decoder \in 0..MaxCalls

\* The callbacks use the RTP socket, the transmit header and the destination through
\* bare pointers, and so do the slots of the report timers: whenever a stream runs,
\* and whenever a report timer may fire, they are there.
PointersAreGood ==
    playing \/ recording \/ (Resting /\ reports) => sockets /\ header /\ dest

\* Whichever way a call has ended, or failed to begin, its streams, sockets, report
\* timers and meter have stopped, no packet of it waits, and the lock its meter saw is
\* forgotten, or the next call's first lock would go unseen.  One thing does run on:
\* codec_timeout_timer, which disconnect never stops, and which may end a later call.
OnlyTimeoutRunsOn ==
    Resting /\ state = "Idle" =>
        ~playing /\ ~recording /\ ~sockets /\ ~reports /\ ~metering
        /\ inbox = 0 /\ ~lockState

\* A stream that is locked and known to be, and dries up for good, ends its call: the
\* lock's loss is seen and the timer started, however the audio thread's writes of
\* codec_locked fall between meterData's readings.  (A stream that is never locked, or
\* that is lost and found and lost while meterData looks, is waited for without end.)
SilentStreamEnds ==
    Resting /\ locked /\ lockState /\ inbox = 0 /\ ~loopback
        ~> state = "Idle" \/ inbox > 0 \/ loopback
=============================================================================
